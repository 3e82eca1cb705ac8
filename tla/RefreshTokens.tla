---------------------------- MODULE RefreshTokens ----------------------------
(***************************************************************************)
(* users_service: the refresh tokens of Login, Refresh (rotation), Logout   *)
(* and the deactivation of a user.                                         *)
(*                                                                         *)
(* The shared state is the table refresh_token and the column users.active. *)
(* A handler runs one SQL statement per action and any may fail.  A jti is  *)
(* minted by one request, so the request names it.  Access tokens, which no *)
(* table holds, and the permissions they carry are left out.  A client      *)
(* presents tokens it was handed: their signature is right.                *)
(***************************************************************************)
EXTENDS Integers, FiniteSets

CONSTANTS Users,
          Logins, Refreshes, Logouts,   \* the requests, each made once
          Switches,                     \* Deactivate and Reactivate requests
          TTL, MaxTime,                 \* lifetime of a token, last instant
          NoOne                         \* neither a user nor a jti

Jtis == Logins \cup Refreshes

Ptr(S) == { p \in SUBSET S : \A v, w \in p : v = w }

ASSUME RequestsAssumption == Logins \cap Refreshes = {}
ASSUME NoOneAssumption == NoOne \notin Users \cup Jtis
ASSUME TimeAssumption == TTL \in Nat /\ MaxTime \in Nat

VARIABLES
    token,     \* table refresh_token
    active,    \* the users with users.active = 1
    login, refresh, logout,
    switched,  \* the Deactivate and Reactivate requests made
    now

vars == <<token, active, login, refresh, logout, switched, now>>

Token == [st: {"none", "live", "revoked"}, user: Users \cup {NoOne},
          expires: 0..(MaxTime + TTL), by: Ptr(Jtis)]

Login == [pc: {"idle", "save", "done"}, user: Users \cup {NoOne},
          result: {"none", "ok", "refused", "failed"}]

Refresh == [pc: {"idle", "user", "revokeAll", "save", "revoke", "done"},
            old: Jtis \cup {NoOne}, user: Users \cup {NoOne},
            result: {"none", "ok", "refused", "inactive", "inactiveOnly",
                     "failed"}]

Logout == [old: Jtis \cup {NoOne}, result: {"none", "ok", "failed"}]

NoToken == [st |-> "none", user |-> NoOne, expires |-> 0, by |-> {}]

Init ==
    /\ token = [j \in Jtis |-> NoToken]
    /\ active = Users
    /\ login = [l \in Logins |-> [pc |-> "idle", user |-> NoOne,
                                  result |-> "none"]]
    /\ refresh = [r \in Refreshes |-> [pc |-> "idle", old |-> NoOne,
                                       user |-> NoOne, result |-> "none"]]
    /\ logout = [o \in Logouts |-> [old |-> NoOne, result |-> "none"]]
    /\ switched = {}
    /\ now = 0

\* The refresh tokens clients were handed.
Handed == { l \in Logins : login[l].result = "ok" }
          \cup { r \in Refreshes : refresh[r].result = "ok" }

\* Save of the repository: INSERT.
Saved(j, u) == token' = [token EXCEPT ![j] =
                  [st |-> "live", user |-> u, expires |-> now + TTL, by |-> {}]]

\* Variant: the revocation of a revoked token is written again.
RevokedAgain(t, j, by) ==
    [t EXCEPT ![j] = [@ EXCEPT !.st = "revoked", !.by = by]]

\* Revoke: UPDATE ... WHERE jti AND revoked_at IS NULL.
Revoked(t, j, by) ==
    IF t[j].st = "live"
    THEN [t EXCEPT ![j] = [@ EXCEPT !.st = "revoked", !.by = by]] ELSE t

Tick == /\ now < MaxTime
        /\ now' = now + 1
        /\ UNCHANGED <<token, active, login, refresh, logout, switched>>

\* Deactivate or Reactivate: SetActive, and nothing of the tokens.
Switch(s) ==
    /\ s \notin switched
    /\ switched' = switched \cup {s}
    /\ \E u \in Users : active' = IF u \in active THEN active \ {u}
                                  ELSE active \cup {u}
    /\ UNCHANGED <<token, login, refresh, logout, now>>

(***************************************************************************)
(* Login                                                                   *)
(***************************************************************************)

LoginEnds(l, r) == login' = [login EXCEPT ![l].pc = "done", ![l].result = r]

\* authenticate: the user is found, active, and the password is right.
LoginBegin(l) ==
    /\ login[l].pc = "idle"
    /\ \E u \in Users :
         \/ /\ u \in active
            /\ login' = [login EXCEPT ![l].user = u, ![l].pc = "save"]
         \/ LoginEnds(l, "refused")
    /\ UNCHANGED <<token, active, refresh, logout, switched, now>>

LoginSave(l) ==
    /\ login[l].pc = "save"
    /\ Saved(l, login[l].user)
    /\ LoginEnds(l, "ok")
    /\ UNCHANGED <<active, refresh, logout, switched, now>>

LoginFails(l) ==
    /\ login[l].pc = "save"
    /\ LoginEnds(l, "failed")
    /\ UNCHANGED <<token, active, refresh, logout, switched, now>>

(***************************************************************************)
(* Refresh                                                                 *)
(***************************************************************************)

RefreshTo(r, p) == refresh' = [refresh EXCEPT ![r].pc = p]
RefreshEnds(r, e) == refresh' = [refresh EXCEPT ![r].pc = "done",
                                                ![r].result = e]

\* FindByJTI: neither revoked nor expired.
Acceptable(j) == token[j].st = "live" /\ now <= token[j].expires

RefreshBegin(r) ==
    /\ refresh[r].pc = "idle"
    /\ \E j \in Handed :
         refresh' = [refresh EXCEPT ![r] =
                       [pc |-> IF Acceptable(j) THEN "user" ELSE "done",
                        old |-> j, user |-> token[j].user,
                        result |-> IF Acceptable(j) THEN "none" ELSE "refused"]]
    /\ UNCHANGED <<token, active, login, logout, switched, now>>

\* Variant: the user is not asked whether it is active.
RefreshAnyUser(r) ==
    /\ refresh[r].pc = "user"
    /\ RefreshTo(r, "save")
    /\ UNCHANGED <<token, active, login, logout, switched, now>>

\* FindByID of the user, then its permissions.
RefreshUser(r) ==
    /\ refresh[r].pc = "user"
    /\ RefreshTo(r, IF refresh[r].user \in active THEN "save" ELSE "revokeAll")
    /\ UNCHANGED <<token, active, login, logout, switched, now>>

\* RevokeAllForUser of an inactive user; its error is ignored.
RefreshRevokeAll(r) ==
    /\ refresh[r].pc = "revokeAll"
    /\ token' = [j \in Jtis |->
                   IF token[j].user = refresh[r].user /\ token[j].st = "live"
                   THEN [token[j] EXCEPT !.st = "revoked"] ELSE token[j]]
    /\ RefreshEnds(r, "inactive")
    /\ UNCHANGED <<active, login, logout, switched, now>>

RefreshSave(r) ==
    /\ refresh[r].pc = "save"
    /\ Saved(r, refresh[r].user)
    /\ RefreshTo(r, "revoke")
    /\ UNCHANGED <<active, login, logout, switched, now>>

\* Variant: the old token is left alive.
RefreshKeepsOld(r) ==
    /\ refresh[r].pc = "revoke"
    /\ RefreshEnds(r, "ok")
    /\ UNCHANGED <<token, active, login, logout, switched, now>>

\* Revoke of the old token; the rows it affected are not looked at.
RefreshRevoke(r) ==
    /\ refresh[r].pc = "revoke"
    /\ token' = Revoked(token, refresh[r].old, {r})
    /\ RefreshEnds(r, "ok")
    /\ UNCHANGED <<active, login, logout, switched, now>>

\* A failure leaves what was written; that of RevokeAllForUser is not told,
\* the answer being ErrUserInactive all the same.
RefreshFails(r) ==
    /\ \/ refresh[r].pc \in {"user", "save", "revoke"} /\ RefreshEnds(r, "failed")
       \/ refresh[r].pc = "revokeAll" /\ RefreshEnds(r, "inactiveOnly")
    /\ UNCHANGED <<token, active, login, logout, switched, now>>

(***************************************************************************)
(* Logout                                                                  *)
(***************************************************************************)

\* One statement; a token revoked before is no error.
DoLogout(o) ==
    /\ logout[o].result = "none"
    /\ \E j \in Handed :
         \/ /\ token' = Revoked(token, j, {})
            /\ logout' = [logout EXCEPT ![o] = [old |-> j, result |-> "ok"]]
         \/ /\ logout' = [logout EXCEPT ![o] = [old |-> j, result |-> "failed"]]
            /\ UNCHANGED token
    /\ UNCHANGED <<active, login, refresh, switched, now>>

-----------------------------------------------------------------------------

RefreshStep(r) == \/ RefreshUser(r) \/ RefreshRevokeAll(r) \/ RefreshSave(r)
                  \/ RefreshRevoke(r)

Next == \/ \E l \in Logins : LoginBegin(l) \/ LoginSave(l) \/ LoginFails(l)
        \/ \E r \in Refreshes : RefreshBegin(r) \/ RefreshStep(r) \/ RefreshFails(r)
        \/ \E o \in Logouts : DoLogout(o)
        \/ \E s \in Switches : Switch(s)
        \/ Tick

Spec == Init /\ [][Next]_vars
-----------------------------------------------------------------------------
(***************************************************************************)
(* Properties                                                              *)
(***************************************************************************)

TypeOK == /\ token \in [Jtis -> Token]
          /\ active \subseteq Users
          /\ login \in [Logins -> Login]
          /\ refresh \in [Refreshes -> Refresh]
          /\ logout \in [Logouts -> Logout]
          /\ switched \subseteq Switches
          /\ now \in 0..MaxTime

(* A rotation that was answered left its old token dead, whatever           *)
(* rotations, logouts and deactivations ran beside it.                     *)
RotatedIsDead ==
    \A r \in Refreshes : refresh[r].result = "ok" =>
                             token[refresh[r].old].st = "revoked"

(* A revocation is final, and says for ever which rotation came first: no   *)
(* later Revoke of the same token, by a rotation or a Logout that lost the  *)
(* race, touches the row again.                                            *)
RevocationFinal ==
    [][\A j \in Jtis : token[j].st = "revoked" => token'[j] = token[j]]_vars

(* A Refresh that comes in when its token was already rotated away, logged  *)
(* out or revoked with its family gets no tokens.                          *)
ReuseRefused ==
    \A r \in Refreshes, j \in Jtis :
        [](refresh[r].pc = "idle" /\ token[j].st = "revoked" =>
             [](refresh[r].old = j => refresh[r].result # "ok"))

(* A Refresh that comes in after a user was deactivated, for good, gets no   *)
(* tokens, though Deactivate itself revokes none.                          *)
InactiveGetsNothing ==
    \A r \in Refreshes, u \in Users :
        [](refresh[r].pc = "idle" /\ [](u \notin active) =>
             [](refresh[r].user = u => refresh[r].result # "ok"))

(* What the README and the comment of Refresh say of rotation: the old      *)
(* token stays revoked once used, so it buys one successor at most.        *)
OneSuccessor ==
    \A r, s \in Refreshes :
        refresh[r].result = "ok" /\ refresh[s].result = "ok"
            /\ refresh[r].old = refresh[s].old => r = s

(* What the comment of Refresh says: an inactive user's whole family of     *)
(* refresh tokens is revoked (unless a statement failed).                  *)
FamilyRevoked ==
    \A r \in Refreshes : refresh[r].result = "inactive" =>
        \A j \in Handed : token[j].user = refresh[r].user /\ refresh[r].user \notin active
                           => token[j].st = "revoked"
=============================================================================
