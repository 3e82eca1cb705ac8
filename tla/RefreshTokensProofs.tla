------------------------ MODULE RefreshTokensProofs ------------------------
(***************************************************************************)
(* A rotation that was answered left its old token dead, and a revocation   *)
(* is final, for any users, requests and times.                            *)
(*                                                                         *)
(* Neither is inductive: that a Save never overwrites a revoked row rests   *)
(* on a request not having its row before its own Save, and that the Revoke *)
(* of a rotation finds a row on the token having been handed to a client.   *)
(***************************************************************************)
EXTENDS RefreshTokens, TLAPS

Row(j) == token[j].st # "none"

OfLogin(l) ==
    /\ login[l].pc \in {"idle", "save"} => ~ Row(l) /\ login[l].result = "none"
    /\ login[l].pc = "save" => login[l].user \in Users
    /\ login[l].result = "ok" => Row(l)
OfRefresh(r) ==
    /\ refresh[r].pc \in {"idle", "user", "revokeAll", "save"} => ~ Row(r)
    /\ refresh[r].pc # "done" => refresh[r].result = "none"
    /\ refresh[r].pc \in {"user", "revokeAll", "save", "revoke"} => refresh[r].old \in Jtis
    /\ refresh[r].old \in Jtis => Row(refresh[r].old)
    /\ refresh[r].pc = "revoke" => Row(r)
    /\ refresh[r].result = "ok" =>
          Row(r) /\ refresh[r].old \in Jtis /\ token[refresh[r].old].st = "revoked"

TokensInv == /\ TypeOK
             /\ \A l \in Logins : OfLogin(l)
             /\ \A r \in Refreshes : OfRefresh(r)

(* The types of the parts of the state.                                      *)
LEMMA TokensTypes ==
    ASSUME TokensInv
    PROVE  /\ token \in [Jtis -> Token] /\ active \subseteq Users
           /\ login \in [Logins -> Login] /\ refresh \in [Refreshes -> Refresh]
           /\ logout \in [Logouts -> Logout] /\ switched \subseteq Switches
           /\ now \in 0..MaxTime
BY DEF TokensInv, TypeOK

(* What a client was handed has a row.                                       *)
LEMMA HandedHasRow == TokensInv => \A j \in Handed : j \in Jtis /\ Row(j)
BY DEF TokensInv, OfLogin, OfRefresh, Handed, Jtis

(* No row goes away, and no revocation either.                               *)
Later == \A j \in Jtis : /\ Row(j) => Row(j)'
                         /\ token[j].st = "revoked" => token'[j] = token[j]
(* The row of j is not inserted.                                             *)
Waits(j) == ~ Row(j) => ~ Row(j)'

(* A request that does nothing keeps its part of the invariant.              *)
LEMMA LoginStays ==
    ASSUME Later, NEW l \in Logins, OfLogin(l), login'[l] = login[l], Waits(l)
    PROVE  OfLogin(l)'
BY DEF Later, OfLogin, Waits, Jtis

LEMMA RefreshStays ==
    ASSUME Later, NEW r \in Refreshes, OfRefresh(r), refresh'[r] = refresh[r], Waits(r)
    PROVE  OfRefresh(r)'
<1>1. r \in Jtis
    BY DEF Jtis
<1>2. refresh[r].old \in Jtis => /\ Row(refresh[r].old) => Row(refresh[r].old)'
                                 /\ token[refresh[r].old].st = "revoked" =>
                                       token'[refresh[r].old].st = "revoked"
    BY DEF Later
<1> QED BY <1>1, <1>2 DEF Later, OfRefresh, Waits

(* The invariant holds at first.                                             *)
LEMMA TokensInvInit == Init => TokensInv
<1> SUFFICES ASSUME Init PROVE TokensInv
    OBVIOUS
<1> USE TimeAssumption, NoOneAssumption
<1>1. token \in [Jtis -> Token]
    <2>1. NoToken \in Token
        BY DEF NoToken, Token, Ptr
    <2> QED BY <2>1 DEF Init
<1>2. login \in [Logins -> Login]
    <2> DEFINE q == [pc |-> "idle", user |-> NoOne, result |-> "none"]
    <2>1. q \in Login
        BY DEF Login
    <2>2. login = [l \in Logins |-> q]
        BY DEF Init
    <2> HIDE DEF q
    <2> QED BY <2>1, <2>2
<1>3. refresh \in [Refreshes -> Refresh]
    <2> DEFINE q == [pc |-> "idle", old |-> NoOne, user |-> NoOne, result |-> "none"]
    <2>1. q \in Refresh
        BY DEF Refresh
    <2>2. refresh = [r \in Refreshes |-> q]
        BY DEF Init
    <2> HIDE DEF q
    <2> QED BY <2>1, <2>2
<1>4. logout \in [Logouts -> Logout]
    <2> DEFINE q == [old |-> NoOne, result |-> "none"]
    <2>1. q \in Logout
        BY DEF Logout
    <2>2. logout = [o \in Logouts |-> q]
        BY DEF Init
    <2> HIDE DEF q
    <2> QED BY <2>1, <2>2
<1>5. active \subseteq Users /\ switched \subseteq Switches /\ now \in 0..MaxTime
    BY DEF Init
<1>6. \A j \in Jtis : ~ Row(j)
    BY DEF Init, NoToken, Row
<1>7. \A l \in Logins : OfLogin(l)
    BY <1>6 DEF Init, OfLogin, Jtis
<1>8. \A r \in Refreshes : OfRefresh(r)
    BY <1>6 DEF Init, OfRefresh, Jtis
<1> QED BY <1>1, <1>2, <1>3, <1>4, <1>5, <1>7, <1>8 DEF TokensInv, TypeOK

(* What Save and Revoke do to the table.                                     *)
LEMMA SavedTable ==
    ASSUME TokensInv, NEW j \in Jtis, NEW u \in Users \cup {NoOne}, ~ Row(j), Saved(j, u)
    PROVE  /\ token' \in [Jtis -> Token] /\ Later /\ Row(j)'
           /\ \A i \in Jtis : i # j => Waits(i)
<1> USE TimeAssumption
<1> DEFINE q == [st |-> "live", user |-> u, expires |-> now + TTL, by |-> {}]
<1>1. q \in Token /\ q.st = "live"
    BY TokensTypes DEF Token, Ptr
<1>2. token' = [token EXCEPT ![j] = q]
    BY DEF Saved
<1> HIDE DEF q
<1>3. /\ token' \in [Jtis -> Token] /\ token'[j] = q
      /\ \A i \in Jtis \ {j} : token'[i] = token[i]
    BY <1>1, <1>2, TokensTypes
<1> QED BY <1>1, <1>3 DEF Later, Row, Waits

LEMMA RevokedTable ==
    ASSUME TokensInv, NEW j \in Jtis, NEW by \in Ptr(Jtis), token' = Revoked(token, j, by)
    PROVE  /\ token' \in [Jtis -> Token] /\ Later
           /\ \A i \in Jtis : Waits(i)
           /\ Row(j) => token'[j].st = "revoked"
<1>1. CASE token[j].st = "live"
    <2> DEFINE q == [token[j] EXCEPT !.st = "revoked", !.by = by]
    <2>1. q \in Token /\ q.st = "revoked"
        BY TokensTypes DEF Token
    <2>2. token' = [token EXCEPT ![j] = q]
        BY <1>1 DEF Revoked
    <2> HIDE DEF q
    <2>3. /\ token' \in [Jtis -> Token] /\ token'[j] = q
          /\ \A i \in Jtis \ {j} : token'[i] = token[i]
        BY <2>1, <2>2, TokensTypes
    <2> QED BY <1>1, <2>1, <2>3 DEF Later, Row, Waits
<1>2. CASE token[j].st # "live"
    <2>1. token' = token
        BY <1>2 DEF Revoked
    <2>2. token[j].st \in {"none", "live", "revoked"}
        BY TokensTypes DEF Token
    <2> QED BY <1>2, <2>1, <2>2, TokensTypes DEF Later, Row, Waits
<1> QED BY <1>1, <1>2

(* A request whose record is changed as its steps change it, with the rest   *)
(* as it was, keeps the invariant.                                          *)
LEMMA LoginChanges ==
    ASSUME TokensInv, NEW l \in Logins, NEW q \in Login,
           login' = [login EXCEPT ![l] = q],
           UNCHANGED <<active, refresh, logout, switched, now>>,
           token' \in [Jtis -> Token], Later, \A j \in Jtis : j # l => Waits(j),
           q.pc \in {"idle", "save"} => ~ Row(l)' /\ q.result = "none",
           q.pc = "save" => q.user \in Users,
           q.result = "ok" => Row(l)'
    PROVE  TokensInv'
<1>1. /\ login' \in [Logins -> Login] /\ login'[l] = q
      /\ \A i \in Logins \ {l} : login'[i] = login[i]
    BY TokensTypes
<1>2. TypeOK'
    BY <1>1, TokensTypes DEF TypeOK
<1>3. ASSUME NEW i \in Logins PROVE OfLogin(i)'
    <2>1. CASE i = l
        BY <2>1, <1>1 DEF OfLogin
    <2>2. CASE i # l
        BY <2>2, <1>1, LoginStays DEF TokensInv, Jtis
    <2> QED BY <2>1, <2>2
<1>4. ASSUME NEW r \in Refreshes PROVE OfRefresh(r)'
    <2>1. r # l /\ r \in Jtis
        BY RequestsAssumption DEF Jtis
    <2> QED BY <2>1, RefreshStays DEF TokensInv
<1> QED BY <1>2, <1>3, <1>4 DEF TokensInv

LEMMA RefreshChanges ==
    ASSUME TokensInv, NEW r \in Refreshes, NEW q \in Refresh,
           refresh' = [refresh EXCEPT ![r] = q],
           UNCHANGED <<active, login, logout, switched, now>>,
           token' \in [Jtis -> Token], Later, \A j \in Jtis : j # r => Waits(j),
           q.pc \in {"idle", "user", "revokeAll", "save"} => ~ Row(r)',
           q.pc # "done" => q.result = "none",
           q.pc \in {"user", "revokeAll", "save", "revoke"} => q.old \in Jtis,
           q.old \in Jtis => Row(q.old),
           q.pc = "revoke" => Row(r)',
           q.result = "ok" => Row(r)' /\ q.old \in Jtis /\ token'[q.old].st = "revoked"
    PROVE  TokensInv'
<1>1. /\ refresh' \in [Refreshes -> Refresh] /\ refresh'[r] = q
      /\ \A i \in Refreshes \ {r} : refresh'[i] = refresh[i]
    BY TokensTypes
<1>2. TypeOK'
    BY <1>1, TokensTypes DEF TypeOK
<1>3. ASSUME NEW i \in Refreshes PROVE OfRefresh(i)'
    <2>1. CASE i = r
        BY <2>1, <1>1 DEF OfRefresh, Later
    <2>2. CASE i # r
        BY <2>2, <1>1, RefreshStays DEF TokensInv, Jtis
    <2> QED BY <2>1, <2>2
<1>4. ASSUME NEW l \in Logins PROVE OfLogin(l)'
    <2>1. l # r /\ l \in Jtis
        BY RequestsAssumption DEF Jtis
    <2> QED BY <2>1, LoginStays DEF TokensInv
<1> QED BY <1>2, <1>3, <1>4 DEF TokensInv

(* With no Login and no Refresh a step, only revocations may be new.         *)
LEMMA OthersChange ==
    ASSUME TokensInv, UNCHANGED <<login, refresh>>,
           token' \in [Jtis -> Token], Later, \A j \in Jtis : Waits(j),
           active' \subseteq Users, logout' \in [Logouts -> Logout],
           switched' \subseteq Switches, now' \in 0..MaxTime
    PROVE  TokensInv'
<1>1. TypeOK'
    BY TokensTypes DEF TypeOK
<1>2. \A l \in Logins : OfLogin(l)'
    BY LoginStays DEF TokensInv, Jtis
<1>3. \A r \in Refreshes : OfRefresh(r)'
    BY RefreshStays DEF TokensInv, Jtis
<1> QED BY <1>1, <1>2, <1>3 DEF TokensInv

LEMMA SameTable ==
    ASSUME TokensInv, UNCHANGED token
    PROVE  token' \in [Jtis -> Token] /\ Later /\ \A j \in Jtis : Waits(j)
BY TokensTypes DEF Later, Waits, Row

(* The steps of a Login.                                                     *)
LEMMA LoginKeeps ==
    ASSUME TokensInv, NEW l \in Logins, LoginBegin(l) \/ LoginSave(l) \/ LoginFails(l)
    PROVE  TokensInv' /\ Later
<1>1. login[l] \in Login /\ OfLogin(l) /\ l \in Jtis
    BY TokensTypes DEF TokensInv, Jtis
<1>2. CASE LoginBegin(l)
    <2>1. ~ Row(l) /\ login[l].result = "none"
        BY <1>1, <1>2 DEF LoginBegin, OfLogin
    <2>2. \E q \in Login : /\ login' = [login EXCEPT ![l] = q]
                           /\ \/ q.pc = "save" /\ q.user \in Users /\ q.result = "none"
                              \/ q.pc = "done" /\ q.result = "refused"
        <3>1. ASSUME NEW u \in Users,
                     login' = [login EXCEPT ![l].user = u, ![l].pc = "save"]
              PROVE  \E q \in Login : /\ login' = [login EXCEPT ![l] = q]
                                      /\ q.pc = "save" /\ q.user \in Users /\ q.result = "none"
            <4> DEFINE q == [login[l] EXCEPT !.user = u, !.pc = "save"]
            <4>1. q \in Login /\ q.pc = "save" /\ q.user = u /\ q.result = "none"
                BY <1>1, <2>1 DEF Login
            <4>2. login' = [login EXCEPT ![l] = q]
                BY <3>1, TokensTypes
            <4> HIDE DEF q
            <4> QED BY <4>1, <4>2
        <3>2. ASSUME LoginEnds(l, "refused")
              PROVE  \E q \in Login : /\ login' = [login EXCEPT ![l] = q]
                                      /\ q.pc = "done" /\ q.result = "refused"
            <4> DEFINE q == [login[l] EXCEPT !.pc = "done", !.result = "refused"]
            <4>1. q \in Login /\ q.pc = "done" /\ q.result = "refused"
                BY <1>1 DEF Login
            <4>2. login' = [login EXCEPT ![l] = q]
                BY <3>2, TokensTypes DEF LoginEnds
            <4> HIDE DEF q
            <4> QED BY <4>1, <4>2
        <3> QED BY <1>2, <3>1, <3>2 DEF LoginBegin
    <2>3. UNCHANGED <<token, active, refresh, logout, switched, now>>
        BY <1>2 DEF LoginBegin
    <2>4. ~ Row(l)'
        BY <2>1, <2>3 DEF Row
    <2> QED BY <2>2, <2>3, <2>4, SameTable, LoginChanges
<1>3. ASSUME NEW e \in {"ok", "failed"}, LoginEnds(l, e)
      PROVE  \E q \in Login : /\ login' = [login EXCEPT ![l] = q]
                              /\ q.pc = "done" /\ q.result = e
    <2> DEFINE q == [login[l] EXCEPT !.pc = "done", !.result = e]
    <2>1. q \in Login /\ q.pc = "done" /\ q.result = e
        BY <1>1 DEF Login
    <2>2. login' = [login EXCEPT ![l] = q]
        BY <1>3, TokensTypes DEF LoginEnds
    <2> HIDE DEF q
    <2> QED BY <2>1, <2>2
<1>4. CASE LoginSave(l)
    <2>1. /\ ~ Row(l) /\ login[l].user \in Users
        BY <1>1, <1>4 DEF LoginSave, OfLogin
    <2>2. /\ token' \in [Jtis -> Token] /\ Later /\ Row(l)'
          /\ \A i \in Jtis : i # l => Waits(i)
        BY <2>1, <1>1, <1>4, SavedTable DEF LoginSave
    <2>3. UNCHANGED <<active, refresh, logout, switched, now>>
        BY <1>4 DEF LoginSave
    <2>4. PICK q \in Login : /\ login' = [login EXCEPT ![l] = q]
                             /\ q.pc = "done" /\ q.result = "ok"
        BY <1>3, <1>4 DEF LoginSave
    <2> QED BY <2>2, <2>3, <2>4, LoginChanges
<1>5. CASE LoginFails(l)
    <2>1. UNCHANGED <<token, active, refresh, logout, switched, now>>
        BY <1>5 DEF LoginFails
    <2>2. PICK q \in Login : /\ login' = [login EXCEPT ![l] = q]
                             /\ q.pc = "done" /\ q.result = "failed"
        BY <1>3, <1>5 DEF LoginFails
    <2> QED BY <2>1, <2>2, SameTable, LoginChanges
<1> QED BY <1>2, <1>4, <1>5

(* A Refresh goes to its next statement, or ends.                            *)
LEMMA RefreshMoves ==
    ASSUME TokensInv, NEW r \in Refreshes,
           NEW p \in {"user", "revokeAll", "save", "revoke"}, RefreshTo(r, p)
    PROVE  \E q \in Refresh : /\ refresh' = [refresh EXCEPT ![r] = q] /\ q.pc = p
                              /\ q.old = refresh[r].old /\ q.result = refresh[r].result
<1> DEFINE q == [refresh[r] EXCEPT !.pc = p]
<1>1. /\ q \in Refresh /\ q.pc = p /\ q.old = refresh[r].old
      /\ q.result = refresh[r].result
    BY TokensTypes DEF Refresh
<1>2. refresh' = [refresh EXCEPT ![r] = q]
    BY DEF RefreshTo
<1> HIDE DEF q
<1> QED BY <1>1, <1>2

LEMMA RefreshStops ==
    ASSUME TokensInv, NEW r \in Refreshes,
           NEW e \in {"ok", "inactive", "inactiveOnly", "failed"}, RefreshEnds(r, e)
    PROVE  \E q \in Refresh : /\ refresh' = [refresh EXCEPT ![r] = q] /\ q.pc = "done"
                              /\ q.old = refresh[r].old /\ q.result = e
<1> DEFINE q == [refresh[r] EXCEPT !.pc = "done", !.result = e]
<1>1. q \in Refresh /\ q.pc = "done" /\ q.old = refresh[r].old /\ q.result = e
    BY TokensTypes DEF Refresh
<1>2. refresh' = [refresh EXCEPT ![r] = q]
    BY TokensTypes DEF RefreshEnds
<1> HIDE DEF q
<1> QED BY <1>1, <1>2

(* What is known of a Refresh wherever it is.                                *)
LEMMA RefreshFacts ==
    ASSUME TokensInv, NEW r \in Refreshes
    PROVE  /\ OfRefresh(r) /\ r \in Jtis
           /\ refresh[r].user \in Users \cup {NoOne}
           /\ refresh[r].old \in Jtis => Row(refresh[r].old)
BY TokensTypes DEF TokensInv, Jtis, OfRefresh, Refresh

(* RevokeAllForUser revokes rows that are live.                              *)
LEMMA RevokeAllTable ==
    ASSUME TokensInv, NEW r \in Refreshes, RefreshRevokeAll(r)
    PROVE  token' \in [Jtis -> Token] /\ Later /\ \A j \in Jtis : Waits(j)
<1>1. ASSUME NEW j \in Jtis
      PROVE  /\ token'[j] \in Token
             /\ \/ token'[j] = token[j]
                \/ token[j].st = "live" /\ token'[j].st = "revoked"
    <2>1. CASE token[j].user = refresh[r].user /\ token[j].st = "live"
        <3> DEFINE q == [token[j] EXCEPT !.st = "revoked"]
        <3>1. q \in Token /\ q.st = "revoked"
            BY TokensTypes DEF Token
        <3>2. token'[j] = q
            BY <2>1 DEF RefreshRevokeAll
        <3> HIDE DEF q
        <3> QED BY <2>1, <3>1, <3>2
    <2>2. CASE ~ (token[j].user = refresh[r].user /\ token[j].st = "live")
        <3>1. token'[j] = token[j]
            BY <2>2 DEF RefreshRevokeAll
        <3> QED BY <3>1, TokensTypes
    <2> QED BY <2>1, <2>2
<1>2. token' = [j \in Jtis |-> token'[j]]
    BY DEF RefreshRevokeAll
<1> QED BY <1>1, <1>2 DEF Later, Row, Waits

(* The steps of a Refresh.                                                   *)
LEMMA RefreshBeginKeeps ==
    ASSUME TokensInv, NEW r \in Refreshes, RefreshBegin(r)
    PROVE  TokensInv' /\ Later
<1>1. refresh[r].pc = "idle" /\ UNCHANGED <<token, active, login, logout, switched, now>>
    BY DEF RefreshBegin
<1>2. PICK j \in Handed :
         refresh' = [refresh EXCEPT ![r] =
                       [pc |-> IF Acceptable(j) THEN "user" ELSE "done",
                        old |-> j, user |-> token[j].user,
                        result |-> IF Acceptable(j) THEN "none" ELSE "refused"]]
    BY DEF RefreshBegin
<1>3. j \in Jtis /\ Row(j) /\ token[j].user \in Users \cup {NoOne}
    BY HandedHasRow, TokensTypes DEF Token
<1> DEFINE p == IF Acceptable(j) THEN "user" ELSE "done"
           e == IF Acceptable(j) THEN "none" ELSE "refused"
           q == [pc |-> p, old |-> j, user |-> token[j].user, result |-> e]
<1>4. p \in {"user", "done"} /\ e \in {"none", "refused"} /\ (p = "user" => e = "none")
    OBVIOUS
<1>5. refresh' = [refresh EXCEPT ![r] = q]
    BY <1>2
<1> HIDE DEF p, e
<1>6. q \in Refresh /\ q.pc = p /\ q.old = j /\ q.result = e
    BY <1>3, <1>4 DEF Refresh
<1> HIDE DEF q
<1>7. ~ Row(r)'
    BY <1>1, RefreshFacts DEF OfRefresh, Row
<1> QED BY <1>1, <1>3, <1>4, <1>5, <1>6, <1>7, SameTable, RefreshChanges

LEMMA RefreshUserKeeps ==
    ASSUME TokensInv, NEW r \in Refreshes, RefreshUser(r)
    PROVE  TokensInv' /\ Later
<1>1. refresh[r].pc = "user" /\ UNCHANGED <<token, active, login, logout, switched, now>>
    BY DEF RefreshUser
<1>2. /\ ~ Row(r) /\ refresh[r].result = "none" /\ refresh[r].old \in Jtis
      /\ Row(refresh[r].old)
    BY <1>1, RefreshFacts DEF OfRefresh
<1>3. \E p \in {"save", "revokeAll"} : RefreshTo(r, p)
    BY DEF RefreshUser
<1>4. PICK q \in Refresh : /\ refresh' = [refresh EXCEPT ![r] = q]
                           /\ q.pc \in {"save", "revokeAll"}
                           /\ q.old = refresh[r].old /\ q.result = "none"
    BY <1>2, <1>3, RefreshMoves
<1>5. ~ Row(r)'
    BY <1>1, <1>2 DEF Row
<1> QED BY <1>1, <1>2, <1>4, <1>5, SameTable, RefreshChanges

LEMMA RefreshRevokeAllKeeps ==
    ASSUME TokensInv, NEW r \in Refreshes, RefreshRevokeAll(r)
    PROVE  TokensInv' /\ Later
<1>1. UNCHANGED <<active, login, logout, switched, now>> /\ RefreshEnds(r, "inactive")
    BY DEF RefreshRevokeAll
<1>2. PICK q \in Refresh : /\ refresh' = [refresh EXCEPT ![r] = q] /\ q.pc = "done"
                           /\ q.old = refresh[r].old /\ q.result = "inactive"
    BY <1>1, RefreshStops
<1> QED BY <1>1, <1>2, RefreshFacts, RevokeAllTable, RefreshChanges

LEMMA RefreshSaveKeeps ==
    ASSUME TokensInv, NEW r \in Refreshes, RefreshSave(r)
    PROVE  TokensInv' /\ Later
<1>1. /\ refresh[r].pc = "save" /\ UNCHANGED <<active, login, logout, switched, now>>
      /\ Saved(r, refresh[r].user) /\ RefreshTo(r, "revoke")
    BY DEF RefreshSave
<1>2. /\ ~ Row(r) /\ refresh[r].result = "none" /\ refresh[r].old \in Jtis
      /\ Row(refresh[r].old)
    BY <1>1, RefreshFacts DEF OfRefresh
<1>3. /\ token' \in [Jtis -> Token] /\ Later /\ Row(r)'
      /\ \A i \in Jtis : i # r => Waits(i)
    BY <1>1, <1>2, RefreshFacts, SavedTable
<1>4. PICK q \in Refresh : /\ refresh' = [refresh EXCEPT ![r] = q] /\ q.pc = "revoke"
                           /\ q.old = refresh[r].old /\ q.result = "none"
    BY <1>1, <1>2, RefreshMoves
<1> QED BY <1>1, <1>2, <1>3, <1>4, RefreshChanges

LEMMA RefreshRevokeKeeps ==
    ASSUME TokensInv, NEW r \in Refreshes, RefreshRevoke(r)
    PROVE  TokensInv' /\ Later
<1>1. /\ refresh[r].pc = "revoke" /\ UNCHANGED <<active, login, logout, switched, now>>
      /\ token' = Revoked(token, refresh[r].old, {r}) /\ RefreshEnds(r, "ok")
    BY DEF RefreshRevoke
<1>2. Row(r) /\ refresh[r].old \in Jtis /\ Row(refresh[r].old) /\ r \in Jtis
    BY <1>1, RefreshFacts DEF OfRefresh
<1>3. {r} \in Ptr(Jtis)
    BY <1>2 DEF Ptr
<1>4. /\ token' \in [Jtis -> Token] /\ Later /\ \A i \in Jtis : Waits(i)
      /\ token'[refresh[r].old].st = "revoked"
    BY <1>1, <1>2, <1>3, RevokedTable
<1>5. PICK q \in Refresh : /\ refresh' = [refresh EXCEPT ![r] = q] /\ q.pc = "done"
                           /\ q.old = refresh[r].old /\ q.result = "ok"
    BY <1>1, RefreshStops
<1>6. Row(r)'
    BY <1>2, <1>4 DEF Later
<1> QED BY <1>1, <1>2, <1>4, <1>5, <1>6, RefreshChanges

LEMMA RefreshFailsKeeps ==
    ASSUME TokensInv, NEW r \in Refreshes, RefreshFails(r)
    PROVE  TokensInv' /\ Later
<1>1. UNCHANGED <<token, active, login, logout, switched, now>>
    BY DEF RefreshFails
<1>2. \E e \in {"failed", "inactiveOnly"} : RefreshEnds(r, e)
    BY DEF RefreshFails
<1>3. PICK q \in Refresh : /\ refresh' = [refresh EXCEPT ![r] = q] /\ q.pc = "done"
                           /\ q.old = refresh[r].old
                           /\ q.result \in {"failed", "inactiveOnly"}
    BY <1>2, RefreshStops
<1> QED BY <1>1, <1>3, RefreshFacts, SameTable, RefreshChanges

(* Logout, the activation of users and the clock.                            *)
LEMMA LogoutKeeps ==
    ASSUME TokensInv, NEW o \in Logouts, DoLogout(o)
    PROVE  TokensInv' /\ Later
<1>1. UNCHANGED <<active, login, refresh, switched, now>>
    BY DEF DoLogout
<1>2. PICK j \in Handed :
         \/ /\ token' = Revoked(token, j, {})
            /\ logout' = [logout EXCEPT ![o] = [old |-> j, result |-> "ok"]]
         \/ /\ logout' = [logout EXCEPT ![o] = [old |-> j, result |-> "failed"]]
            /\ UNCHANGED token
    BY DEF DoLogout
<1>3. j \in Jtis
    BY HandedHasRow
<1>4. logout' \in [Logouts -> Logout]
    BY <1>2, <1>3, TokensTypes DEF Logout
<1>5. token' \in [Jtis -> Token] /\ Later /\ \A i \in Jtis : Waits(i)
    <2>1. CASE token' = Revoked(token, j, {})
        <3>1. {} \in Ptr(Jtis)
            BY DEF Ptr
        <3> QED BY <2>1, <3>1, <1>3, RevokedTable
    <2>2. CASE UNCHANGED token
        BY <2>2, SameTable
    <2> QED BY <1>2, <2>1, <2>2
<1> QED BY <1>1, <1>4, <1>5, OthersChange, TokensTypes

LEMMA SwitchKeeps ==
    ASSUME TokensInv, NEW s \in Switches, Switch(s)
    PROVE  TokensInv' /\ Later
<1>1. /\ UNCHANGED <<token, login, refresh, logout, now>>
      /\ active' \subseteq Users /\ switched' \subseteq Switches
    BY TokensTypes DEF Switch
<1> QED BY <1>1, OthersChange, SameTable, TokensTypes

LEMMA TickKeeps ==
    ASSUME TokensInv, Tick
    PROVE  TokensInv' /\ Later
<1>1. /\ UNCHANGED <<token, active, login, refresh, logout, switched>>
      /\ now' \in 0..MaxTime
    BY TokensTypes, TimeAssumption DEF Tick
<1> QED BY <1>1, OthersChange, SameTable, TokensTypes

(* Every step keeps the invariant, and every row that was revoked.           *)
LEMMA TokensInvNext == TokensInv /\ [Next]_vars => TokensInv' /\ Later
<1> SUFFICES ASSUME TokensInv, [Next]_vars PROVE TokensInv' /\ Later
    OBVIOUS
<1>1. ASSUME NEW l \in Logins, LoginBegin(l) \/ LoginSave(l) \/ LoginFails(l)
      PROVE  TokensInv' /\ Later
    BY <1>1, LoginKeeps
<1>2. ASSUME NEW r \in Refreshes, RefreshBegin(r) \/ RefreshStep(r) \/ RefreshFails(r)
      PROVE  TokensInv' /\ Later
    BY <1>2, RefreshBeginKeeps, RefreshUserKeeps, RefreshRevokeAllKeeps, RefreshSaveKeeps,
       RefreshRevokeKeeps, RefreshFailsKeeps DEF RefreshStep
<1>3. CASE \E o \in Logouts : DoLogout(o)
    BY <1>3, LogoutKeeps
<1>4. CASE \E s \in Switches : Switch(s)
    BY <1>4, SwitchKeeps
<1>5. CASE Tick
    BY <1>5, TickKeeps
<1>6. CASE UNCHANGED vars
    BY <1>6, OthersChange, SameTable, TokensTypes DEF vars
<1> QED BY <1>1, <1>2, <1>3, <1>4, <1>5, <1>6 DEF Next

(* Every reachable state of the sessions satisfies the invariant.            *)
THEOREM TokensInvariant == Spec => []TokensInv
BY TokensInvInit, TokensInvNext, PTL DEF Spec

(* A rotation that was answered left its old token dead, whatever ran beside *)
(* it.                                                                      *)
THEOREM RotatedTheorem == Spec => []RotatedIsDead
<1>1. TokensInv => RotatedIsDead
    BY DEF TokensInv, OfRefresh, RotatedIsDead
<1> QED BY <1>1, TokensInvariant, PTL

(* No later Revoke of a token touches a row that was revoked.                *)
THEOREM RevocationTheorem == Spec => RevocationFinal
<1> DEFINE Kept == \A j \in Jtis : token[j].st = "revoked" => token'[j] = token[j]
<1>1. TokensInv /\ [Next]_vars => [Kept]_vars
    BY TokensInvNext DEF Later
<1>2. RevocationFinal <=> [][Kept]_vars
    BY DEF RevocationFinal
<1> HIDE DEF Kept
<1> QED BY <1>1, <1>2, TokensInvariant, PTL DEF Spec

(* Of an inactive user no refresh goes past the check of the user.            *)
Stopped(r, u) ==
    refresh[r].user = u => refresh[r].pc \notin {"save", "revoke"} /\ refresh[r].result # "ok"

LEMMA StoppedBegins ==
    ASSUME TokensInv, NEW r \in Refreshes, NEW u \in Users, refresh[r].pc = "idle"
    PROVE  Stopped(r, u)
BY DEF TokensInv, OfRefresh, Stopped

LEMMA StoppedStays ==
    ASSUME TokensInv, NEW r \in Refreshes, NEW u \in Users, Stopped(r, u), u \notin active,
           [Next]_vars
    PROVE  Stopped(r, u)'
<1>1. refresh \in [Refreshes -> Refresh] /\ OfRefresh(r)
    BY DEF TokensInv, TypeOK
<1>2. ASSUME NEW q \in Refreshes, RefreshBegin(q) \/ RefreshStep(q) \/ RefreshFails(q)
      PROVE  Stopped(r, u)'
  <2>1. CASE q = r
      BY <1>1, <1>2, <2>1
         DEF RefreshBegin, RefreshStep, RefreshFails, RefreshUser, RefreshRevokeAll, RefreshSave,
             RefreshRevoke, RefreshTo, RefreshEnds, Stopped, Refresh
  <2>2. CASE q # r
    <3>1. refresh'[r] = refresh[r]
        BY <1>1, <1>2, <2>2
           DEF RefreshBegin, RefreshStep, RefreshFails, RefreshUser, RefreshRevokeAll,
               RefreshSave, RefreshRevoke, RefreshTo, RefreshEnds
    <3> QED
        BY <3>1 DEF Stopped
  <2> QED
      BY <2>1, <2>2
<1>3. CASE UNCHANGED refresh
    BY <1>3 DEF Stopped
<1> QED
    BY <1>2, <1>3 DEF Next, vars, LoginBegin, LoginSave, LoginFails, DoLogout, Switch, Tick

(* A refresh that comes in after its user was deactivated for good gets no    *)
(* tokens: the check of the user is between it and the Save.                 *)
THEOREM InactiveTheorem == Spec => InactiveGetsNothing
<1>1. ASSUME NEW r \in Refreshes, NEW u \in Users
      PROVE  Spec => [](refresh[r].pc = "idle" /\ [](u \notin active) =>
                          [](refresh[r].user = u => refresh[r].result # "ok"))
  <2>1. TokensInv /\ refresh[r].pc = "idle" => Stopped(r, u)
      BY StoppedBegins
  <2>2. TokensInv /\ Stopped(r, u) /\ u \notin active /\ [Next]_vars => Stopped(r, u)'
      BY StoppedStays
  <2>3. Stopped(r, u) => (refresh[r].user = u => refresh[r].result # "ok")
      BY DEF Stopped
  <2> QED
      BY <2>1, <2>2, <2>3, TokensInvariant, PTL DEF Spec
<1> QED
    BY <1>1 DEF InactiveGetsNothing
(* A refresh begun with a token that is revoked has its answer at once.       *)
Refused(r, j) ==
    /\ token[j].st = "revoked"
    /\ refresh[r].old = j => refresh[r].pc \in {"idle", "done"} /\ refresh[r].result # "ok"

LEMMA RefusedStays ==
    ASSUME TokensInv, NEW r \in Refreshes, NEW j \in Jtis, Refused(r, j), [Next]_vars
    PROVE  Refused(r, j)'
<1>1. refresh \in [Refreshes -> Refresh] /\ OfRefresh(r)
    BY DEF TokensInv, TypeOK
<1>2. token'[j].st = "revoked"
    BY TokensInvNext DEF Later, Refused
<1>3. ASSUME NEW q \in Refreshes, RefreshBegin(q) \/ RefreshStep(q) \/ RefreshFails(q)
      PROVE  Refused(r, j)'
  <2>1. CASE q = r
    <3>1. CASE RefreshBegin(r)
        BY <1>1, <1>2, <3>1 DEF RefreshBegin, Acceptable, Refused
    <3>2. CASE RefreshStep(r) \/ RefreshFails(r)
        BY <1>1, <1>2, <3>2
           DEF RefreshStep, RefreshFails, RefreshUser, RefreshRevokeAll, RefreshSave,
               RefreshRevoke, RefreshTo, RefreshEnds, Refused, Refresh
    <3> QED
        BY <1>3, <2>1, <3>1, <3>2
  <2>2. CASE q # r
    <3>1. refresh'[r] = refresh[r]
        BY <1>1, <1>3, <2>2
           DEF RefreshBegin, RefreshStep, RefreshFails, RefreshUser, RefreshRevokeAll,
               RefreshSave, RefreshRevoke, RefreshTo, RefreshEnds
    <3> QED
        BY <1>2, <3>1 DEF Refused
  <2> QED
      BY <2>1, <2>2
<1>4. CASE UNCHANGED refresh
    BY <1>2, <1>4 DEF Refused
<1> QED
    BY <1>3, <1>4 DEF Next, vars, LoginBegin, LoginSave, LoginFails, DoLogout, Switch, Tick

(* A refresh that comes in with a token that was revoked before gets none:    *)
(* FindByJTI reads a row that no step makes live again.                      *)
THEOREM ReuseTheorem == Spec => ReuseRefused
<1>1. ASSUME NEW r \in Refreshes, NEW j \in Jtis
      PROVE  Spec => [](refresh[r].pc = "idle" /\ token[j].st = "revoked" =>
                          [](refresh[r].old = j => refresh[r].result # "ok"))
  <2>1. TokensInv /\ refresh[r].pc = "idle" /\ token[j].st = "revoked" => Refused(r, j)
      BY DEF TokensInv, OfRefresh, Refused
  <2>2. TokensInv /\ Refused(r, j) /\ [Next]_vars => Refused(r, j)'
      BY RefusedStays
  <2>3. Refused(r, j) => (refresh[r].old = j => refresh[r].result # "ok")
      BY DEF Refused
  <2> QED
      BY <2>1, <2>2, <2>3, TokensInvariant, PTL DEF Spec
<1> QED
    BY <1>1 DEF ReuseRefused
=============================================================================
