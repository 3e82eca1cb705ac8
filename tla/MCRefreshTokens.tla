--------------------------- MODULE MCRefreshTokens ---------------------------
(* Small instances of RefreshTokens.                                         *)
EXTENDS RefreshTokens, TLC

RequestSymmetry == Permutations(Users) \cup Permutations(Logins)
                   \cup Permutations(Refreshes) \cup Permutations(Switches)
=============================================================================
