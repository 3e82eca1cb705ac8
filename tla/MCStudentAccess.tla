--------------------------- MODULE MCStudentAccess ---------------------------
(* Small instances of StudentAccess.                                         *)
EXTENDS StudentAccess, TLC

CONSTANT MaxRequests

\* At most MaxRequests requests come in.
Incoming == { c \in Codes : send[c].pc # "idle" }
Verifying == { v \in Verifies : verify[v].pc # "idle" }
Load == Cardinality(Incoming) + Cardinality(Verifying) <= MaxRequests
\* The users that are not staff, the schools and the requests of a kind are
\* interchangeable.
RequestSymmetry == Permutations(Users \ Staff) \cup Permutations(Schools)
                   \cup Permutations(Signups) \cup Permutations(Requests)
                   \cup Permutations(Verifies)
=============================================================================
