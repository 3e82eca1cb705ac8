------------------------- MODULE StudentAccessProofs -------------------------
(***************************************************************************)
(* Who gets codes, and that spent codes stay spent, for any number of       *)
(* users, schools and requests, any lifetime and any number of attempts.    *)
(***************************************************************************)
EXTENDS StudentAccess, TLAPS

Stages == {"create", "group", "reactivate", "invalidate", "save", "mail", "drop"}

\* Staff are registered and never students; students are registered.
Registrations ==
    /\ \A u \in Staff : Registered(u) /\ u \notin student
    /\ \A u \in student : Registered(u)

\* What a request that sends a code has established when it gets to a statement.
Sending(c) ==
    /\ send[c].pc \in Stages => send[c].user \in Users
    /\ send[c].pc = "group" => Registered(send[c].user) /\ send[c].user \notin Staff
    /\ send[c].pc \in {"reactivate", "invalidate", "save", "mail"} => send[c].user \in student
    /\ otp[c].st # "none" => /\ send[c].pc \in {"mail", "drop", "done"}
                             /\ otp[c].user = send[c].user /\ otp[c].user \in student
    /\ send[c].pc \in {"mail", "drop"} \/ send[c].result \in {"sent", "undelivered"} =>
         otp[c].st # "none"
    /\ \A d \in send[c].before : otp[d].st # "none"
    /\ send[c].pc \in {"save", "mail", "drop"} \/ otp[c].st # "none" =>
         \A d \in send[c].before : otp[d].user = send[c].user => otp[d].st = "consumed"
    /\ otp[c].tries >= MaxAttempts => otp[c].st = "consumed"

\* A code that works no more: it was stored, and is consumed or has expired.
Dead(c) == /\ otp[c].st # "none"
           /\ otp[c].st = "consumed" \/ otp[c].issued + TTL <= now

\* What a verification holds: a code that was stored, and not the dead one that
\* it came in with.
Holds(q) ==
    /\ q.pc \in {"compare", "increment", "consume"} => q.otp \in Codes /\ otp[q.otp].st # "none"
    /\ q.stale =>
         /\ q.guess \in Codes /\ Dead(q.guess)
         /\ q.pc \notin {"consume", "issue"} /\ q.result # "ok"
         /\ q.pc = "compare" => q.otp # q.guess
Verifying(v) == Holds(verify[v])

AccessInv == /\ TypeOK
             /\ Registrations
             /\ \A c \in Codes : Sending(c)
             /\ \A v \in Verifies : Verifying(v)

\* What no step undoes: codes stay stored, whose they are, and consumed; users
\* stay registered and students, and time does not go back.
Kept == /\ \A c \in Codes : otp[c].st # "none" =>
             /\ otp'[c].st # "none" /\ otp'[c].user = otp[c].user
             /\ otp'[c].issued = otp[c].issued
             /\ otp[c].st = "consumed" => otp'[c].st = "consumed"
        /\ student \subseteq student'
        /\ \A u \in Users : school[u] # {} => school'[u] # {}
        /\ now <= now'

\* A verification does no more to a code than to count an attempt and to spend it.
Spends == /\ otp' \in [Codes -> Otp]
          /\ \A c \in Codes :
               /\ otp'[c].st # otp[c].st => otp'[c].st = "consumed" /\ otp[c].st # "none"
               /\ otp'[c].user = otp[c].user /\ otp'[c].issued = otp[c].issued
               /\ \/ otp'[c].tries = otp[c].tries
                  \/ /\ otp[c].st # "none"
                     /\ otp'[c].tries >= MaxAttempts => otp'[c].st = "consumed"

\* A step leaves a code to others as it was: not stored yet, or tried no more.
Untouched(c) == /\ send'[c] = send[c]
                /\ otp[c].st = "none" => otp'[c].st = "none" /\ otp'[c].tries = otp[c].tries
                /\ otp'[c].tries >= MaxAttempts /\ otp'[c].tries # otp[c].tries =>
                     otp'[c].st = "consumed"

-----------------------------------------------------------------------------

(* The rows and the requests have their fields, each of its type.            *)
LEMMA Fields ==
    ASSUME TypeOK
    PROVE  /\ \A c \in Codes :
                /\ otp[c] \in Otp /\ send[c] \in Send
                /\ otp[c].st \in {"none", "active", "consumed"}
                /\ otp[c].user \in Users \cup {NoOne}
                /\ otp[c].issued \in Nat /\ otp[c].tries \in Nat
                /\ send[c].user \in Users \cup {NoOne} /\ send[c].issued \in Nat
                /\ send[c].before \subseteq Codes
           /\ \A v \in Verifies :
                /\ verify[v] \in Verify /\ verify[v].stale \in BOOLEAN
                /\ verify[v].user \in Users \cup {NoOne}
                /\ verify[v].otp \in Codes \cup {NoOne}
           /\ now \in Nat /\ TTL \in Nat /\ MaxAttempts \in Nat \ {0}
<1>1. ASSUME NEW c \in Codes
      PROVE  /\ otp[c] \in Otp /\ send[c] \in Send
             /\ otp[c].st \in {"none", "active", "consumed"}
             /\ otp[c].user \in Users \cup {NoOne}
             /\ otp[c].issued \in Nat /\ otp[c].tries \in Nat
             /\ send[c].user \in Users \cup {NoOne} /\ send[c].issued \in Nat
             /\ send[c].before \subseteq Codes
    <2>1. otp[c] \in Otp /\ send[c] \in Send
        BY DEF TypeOK
    <2> QED BY <2>1 DEF Otp, Send
<1>2. ASSUME NEW v \in Verifies
      PROVE  /\ verify[v] \in Verify /\ verify[v].stale \in BOOLEAN
             /\ verify[v].user \in Users \cup {NoOne}
             /\ verify[v].otp \in Codes \cup {NoOne}
    <2>1. verify[v] \in Verify
        BY DEF TypeOK
    <2> QED BY <2>1 DEF Verify
<1>3. now \in Nat /\ TTL \in Nat /\ MaxAttempts \in Nat \ {0}
    BY BoundsAssumption DEF TypeOK
<1> QED BY <1>1, <1>2, <1>3

(* A step that undoes nothing, and establishes what it changed, keeps the    *)
(* invariant.                                                                *)
LEMMA Frame ==
    ASSUME AccessInv, TypeOK', Registrations', Kept,
           \A c \in Codes : Untouched(c) \/ Sending(c)',
           \A v \in Verifies : verify'[v] = verify[v] \/ Verifying(v)'
    PROVE  AccessInv'
<1>1. ASSUME NEW c \in Codes, Untouched(c) PROVE Sending(c)'
    <2>1. Sending(c) /\ TypeOK
        BY DEF AccessInv
    <2>2. send'[c] = send[c] /\ (otp'[c].st # "none" => otp[c].st # "none")
        BY <1>1 DEF Untouched
    <2>3. /\ send[c].pc \in Stages => send[c].user \in Users
          /\ send[c].pc \in {"reactivate", "invalidate", "save", "mail"} =>
               send[c].user \in student'
        BY <2>1 DEF Sending, Kept
    <2>8. send[c].pc = "group" => Registered(send[c].user)' /\ send[c].user \notin Staff
        <3> SUFFICES ASSUME send[c].pc = "group"
                     PROVE  Registered(send[c].user)' /\ send[c].user \notin Staff
            OBVIOUS
        <3>1. send[c].user \in Users /\ Registered(send[c].user) /\ send[c].user \notin Staff
            BY <2>1 DEF Sending, Stages
        <3>2. school'[send[c].user] # {}
            BY <3>1 DEF Kept, Registered
        <3> QED BY <3>1, <3>2, <2>2 DEF Registered
    <2>4. otp'[c].st # "none" => /\ send[c].pc \in {"mail", "drop", "done"}
                                 /\ otp'[c].user = send[c].user /\ otp'[c].user \in student'
        BY <2>1, <2>2 DEF Sending, Kept
    <2>5. send[c].pc \in {"mail", "drop"} \/ send[c].result \in {"sent", "undelivered"} =>
             otp'[c].st # "none"
        BY <2>1 DEF Sending, Kept
    <2>6. ASSUME NEW d \in send[c].before
          PROVE  /\ otp'[d].st # "none"
                 /\ send[c].pc \in {"save", "mail", "drop"} \/ otp'[c].st # "none" =>
                      (otp'[d].user = send[c].user => otp'[d].st = "consumed")
        <3>1. d \in Codes /\ otp[d].st # "none"
            BY <2>1, <2>6, Fields DEF Sending
        <3>2. /\ otp'[d].st # "none" /\ otp'[d].user = otp[d].user
              /\ otp[d].st = "consumed" => otp'[d].st = "consumed"
            BY <3>1 DEF Kept
        <3>3. send[c].pc \in {"save", "mail", "drop"} \/ otp[c].st # "none" =>
                 (otp[d].user = send[c].user => otp[d].st = "consumed")
            BY <2>1, <2>6 DEF Sending
        <3> QED BY <3>2, <3>3, <2>2
    <2>7. otp'[c].tries >= MaxAttempts => otp'[c].st = "consumed"
        <3> SUFFICES ASSUME otp'[c].tries >= MaxAttempts, otp'[c].tries = otp[c].tries
                     PROVE  otp'[c].st = "consumed"
            BY <1>1 DEF Untouched
        <3>1. otp[c].st = "consumed"
            BY <2>1 DEF Sending
        <3> QED BY <3>1 DEF Kept
    <2> QED BY <2>2, <2>3, <2>4, <2>5, <2>6, <2>7, <2>8 DEF Sending
<1>2. ASSUME NEW v \in Verifies, verify'[v] = verify[v] PROVE Verifying(v)'
    <2>1. Verifying(v) /\ TypeOK
        BY DEF AccessInv
    <2>2. ASSUME NEW c \in Codes, Dead(c) PROVE Dead(c)'
        <3>1. /\ otp'[c].st # "none" /\ otp'[c].issued = otp[c].issued /\ now <= now'
              /\ otp[c].st = "consumed" => otp'[c].st = "consumed"
            BY <2>2 DEF Dead, Kept
        <3>2. now \in Nat /\ now' \in Int /\ TTL \in Nat /\ otp[c].issued \in Nat
            <4>1. now' \in Int
                BY BoundsAssumption DEF TypeOK
            <4>2. now \in Nat /\ TTL \in Nat /\ otp[c].issued \in Nat
                BY <2>1, Fields
            <4> QED BY <4>1, <4>2
        <3>3. otp[c].issued + TTL <= now => otp'[c].issued + TTL <= now'
            BY <3>1, <3>2
        <3> QED BY <2>2, <3>1, <3>3 DEF Dead
    <2>3. verify[v].pc \in {"compare", "increment", "consume"} =>
             verify[v].otp \in Codes /\ otp'[verify[v].otp].st # "none"
        <3>1. verify[v].pc \in {"compare", "increment", "consume"} =>
                 verify[v].otp \in Codes /\ otp[verify[v].otp].st # "none"
            BY <2>1 DEF Verifying, Holds
        <3> QED BY <3>1 DEF Kept
    <2>4. verify[v].stale => verify[v].guess \in Codes /\ Dead(verify[v].guess)'
        <3>1. verify[v].stale => verify[v].guess \in Codes /\ Dead(verify[v].guess)
            BY <2>1 DEF Verifying, Holds
        <3> QED BY <3>1, <2>2, <1>2 DEF Dead
    <2> QED BY <1>2, <2>1, <2>3, <2>4 DEF Verifying, Holds
<1> QED BY <1>1, <1>2 DEF AccessInv

(* The first state: staff only.                                              *)
LEMMA AccessInit == Init => AccessInv
<1> SUFFICES ASSUME Init PROVE AccessInv
    OBVIOUS
<1>0. MaxTime \in Nat /\ MaxAttempts \in Nat \ {0} /\ Staff \subseteq Users
    BY BoundsAssumption, StaffAssumption
<1>1. /\ school \in [Users -> Ptr(Schools \cup {NoOne})]
      /\ \A u \in Users : school[u] # {} <=> u \in Staff
    BY <1>0 DEF Init, Ptr
<1>2. ASSUME NEW c \in Codes
      PROVE  /\ otp[c].st = "none" /\ otp[c].tries = 0
             /\ send[c].pc = "idle" /\ send[c].result = "none" /\ send[c].before = {}
    BY DEF Init
<1>3. ASSUME NEW v \in Verifies PROVE verify[v].pc = "idle" /\ verify[v].stale = FALSE
    BY DEF Init
<1>4. otp \in [Codes -> Otp] /\ send \in [Codes -> Send] /\ verify \in [Verifies -> Verify]
    BY DEF Init, Otp, Send, Verify, Wrong
<1>5. TypeOK
    <2>1. active \subseteq Users /\ student \subseteq Users /\ now \in 0..MaxTime
        BY <1>0 DEF Init
    <2> QED BY <1>1, <1>4, <2>1 DEF TypeOK
<1>6. Registrations
    BY <1>0, <1>1 DEF Registrations, Registered, Init
<1>7. \A c \in Codes : Sending(c)
    BY <1>0, <1>2 DEF Sending, Stages
<1>8. \A v \in Verifies : Verifying(v)
    BY <1>3 DEF Verifying, Holds
<1> QED BY <1>5, <1>6, <1>7, <1>8 DEF AccessInv

(* A step in which one request takes its next record, and no code changes,   *)
(* needs to establish what that request holds.                               *)
LEMMA SendMoves ==
    ASSUME AccessInv, NEW c \in Codes, NEW q \in Send, send' = [send EXCEPT ![c] = q],
           UNCHANGED <<otp, verify, now>>, student \subseteq student',
           school' \in [Users -> Ptr(Schools \cup {NoOne})], active' \subseteq Users,
           student' \subseteq Users, \A u \in Users : school[u] # {} => school'[u] # {},
           Registrations',
           q.pc \in Stages => q.user \in Users,
           q.pc = "group" => Registered(q.user)' /\ q.user \notin Staff,
           q.pc \in {"reactivate", "invalidate", "save", "mail"} => q.user \in student',
           otp[c].st # "none" => q.pc \in {"mail", "drop", "done"} /\ otp[c].user = q.user,
           q.pc \in {"mail", "drop"} \/ q.result \in {"sent", "undelivered"} => otp[c].st # "none",
           \A d \in q.before : otp[d].st # "none",
           q.pc \in {"save", "mail", "drop"} \/ otp[c].st # "none" =>
             \A d \in q.before : otp[d].user = q.user => otp[d].st = "consumed"
    PROVE  AccessInv'
<1>1. TypeOK
    BY DEF AccessInv
<1>2. /\ send' \in [Codes -> Send] /\ send'[c] = q
      /\ \A d \in Codes : d # c => send'[d] = send[d]
    BY <1>1 DEF TypeOK
<1>3. TypeOK'
    BY <1>1, <1>2 DEF TypeOK
<1>4. Kept
    BY <1>1, Fields DEF Kept
<1>5. Sending(c)'
    <2>1. Sending(c)
        BY DEF AccessInv
    <2>2. otp[c].st # "none" => otp[c].user \in student'
        BY <2>1 DEF Sending
    <2>3. otp[c].tries >= MaxAttempts => otp[c].st = "consumed"
        BY <2>1 DEF Sending
    <2> QED BY <1>2, <2>2, <2>3 DEF Sending
<1>6. \A d \in Codes : d # c => Untouched(d)
    BY <1>2 DEF Untouched
<1> QED BY <1>3, <1>4, <1>5, <1>6, Frame

(* A request that has stored no code begins, or goes on to a statement it    *)
(* may run: the simple steps of a send.                                      *)
LEMMA BeginKeeps ==
    ASSUME AccessInv, NEW c \in Codes, RequestBegin(c) \/ SignupBegin(c)
    PROVE  AccessInv'
<1>1. PICK u \in Users, s \in Schools \cup {NoOne},
           p \in {"create", "reactivate", "invalidate", "done"}, e \in {"none", "silent"} :
           /\ Begun(c, u, s, p, e)
           /\ p \in {"reactivate", "invalidate"} => u \in student
    <2>1. CASE RequestBegin(c)
        BY <2>1 DEF RequestBegin
    <2>2. CASE SignupBegin(c)
        <3>1. PICK u \in Users, s \in Schools :
                 \/ ~ Registered(u) /\ Begun(c, u, s, "create", "none")
                 \/ /\ Registered(u)
                    /\ LET same == u \in student /\ s \in school[u] IN
                       Begun(c, u, s, IF ~ same THEN "done"
                                      ELSE IF u \in active THEN "invalidate"
                                      ELSE "reactivate",
                             IF same THEN "none" ELSE "silent")
            BY <2>2 DEF SignupBegin
        <3>2. CASE ~ Registered(u) /\ Begun(c, u, s, "create", "none")
            BY <3>2
        <3>3. CASE /\ Registered(u)
                   /\ LET same == u \in student /\ s \in school[u] IN
                      Begun(c, u, s, IF ~ same THEN "done"
                                     ELSE IF u \in active THEN "invalidate"
                                     ELSE "reactivate",
                            IF same THEN "none" ELSE "silent")
            <4>1. CASE u \in student /\ s \in school[u]
                BY <4>1, <3>3
            <4>2. CASE ~ (u \in student /\ s \in school[u])
                <5>1. Begun(c, u, s, "done", "silent")
                    BY <4>2, <3>3
                <5> QED BY <5>1
            <4> QED BY <4>1, <4>2
        <3> QED BY <3>1, <3>2, <3>3
    <2> QED BY <2>1, <2>2
<1>2. /\ send[c].pc = "idle" /\ UNCHANGED <<users, otp, verify, now>>
    BY DEF RequestBegin, SignupBegin
<1>3. TypeOK /\ Sending(c) /\ Registrations
    BY DEF AccessInv
<1>4. otp[c].st = "none"
    BY <1>2, <1>3 DEF Sending
<1> DEFINE q == [send[c] EXCEPT !.user = u, !.school = s, !.pc = p, !.result = e,
                                !.before = Stored]
<1>5. send' = [send EXCEPT ![c] = q]
    BY <1>1 DEF Begun
<1>6. /\ q \in Send /\ q.pc = p /\ q.user = u /\ q.result = e /\ q.before = Stored
    <2>1. send[c] \in Send /\ Stored \subseteq Codes
        BY <1>3, Fields DEF Stored
    <2> QED BY <2>1 DEF Send
<1> HIDE DEF q
<1>7. \A d \in q.before : otp[d].st # "none"
    BY <1>6 DEF Stored
<1>8. Registrations'
    BY <1>2, <1>3 DEF Registrations, Registered, users
<1> QED BY <1>1, <1>2, <1>3, <1>4, <1>5, <1>6, <1>7, <1>8, SendMoves DEF Stages, users, TypeOK

(* The record of a send that moves on, or ends.                              *)
LEMMA SendRecords ==
    ASSUME TypeOK, NEW c \in Codes,
           \/ \E p \in Stages : SendTo(c, p)
           \/ \E e \in {"sent", "taken", "undelivered", "failed"} : SendEnds(c, e)
    PROVE  \E q \in Send :
             /\ send' = [send EXCEPT ![c] = q]
             /\ q.user = send[c].user /\ q.before = send[c].before /\ q.school = send[c].school
             /\ \A p \in Stages : SendTo(c, p) => q.pc = p /\ q.result = send[c].result
             /\ \A e \in {"sent", "taken", "undelivered", "failed"} :
                  SendEnds(c, e) => q.pc = "done" /\ q.result = e
<1>1. send[c] \in Send /\ send \in [Codes -> Send]
    BY Fields DEF TypeOK
<1>2. ASSUME NEW p \in Stages, SendTo(c, p)
      PROVE  /\ send'[c] \in Send /\ send' = [send EXCEPT ![c] = send'[c]]
             /\ send'[c].pc = p /\ send'[c].result = send[c].result
             /\ send'[c].user = send[c].user /\ send'[c].before = send[c].before
             /\ send'[c].school = send[c].school
    <2> DEFINE q == [send[c] EXCEPT !.pc = p]
    <2>1. /\ q \in Send /\ q.pc = p /\ q.result = send[c].result /\ q.user = send[c].user
          /\ q.before = send[c].before /\ q.school = send[c].school
        BY <1>1 DEF Send, Stages
    <2>2. send' = [send EXCEPT ![c] = q]
        BY <1>2 DEF SendTo
    <2> HIDE DEF q
    <2>3. send'[c] = q
        BY <1>1, <2>1, <2>2
    <2> QED BY <2>1, <2>2, <2>3
<1>3. ASSUME NEW e \in {"sent", "taken", "undelivered", "failed"}, SendEnds(c, e)
      PROVE  /\ send'[c] \in Send /\ send' = [send EXCEPT ![c] = send'[c]]
             /\ send'[c].pc = "done" /\ send'[c].result = e
             /\ send'[c].user = send[c].user /\ send'[c].before = send[c].before
             /\ send'[c].school = send[c].school
    <2> DEFINE q == [send[c] EXCEPT !.pc = "done", !.result = e]
    <2>1. /\ q \in Send /\ q.pc = "done" /\ q.result = e /\ q.user = send[c].user
          /\ q.before = send[c].before /\ q.school = send[c].school
        BY <1>1 DEF Send
    <2>2. send' = [send EXCEPT ![c] = q]
        BY <1>3 DEF SendEnds
    <2> HIDE DEF q
    <2>3. send'[c] = q
        BY <1>1, <2>1, <2>2
    <2> QED BY <2>1, <2>2, <2>3
<1> QED BY <1>2, <1>3

(* A user is created, and given the group: only one that was not registered, *)
(* hence no staff.                                                           *)
LEMMA SignupKeeps ==
    ASSUME AccessInv, NEW c \in Codes,
           SignupCreate(c) \/ SignupGroup(c) \/ SignupReactivate(c)
    PROVE  AccessInv'
<1>0. /\ TypeOK /\ Sending(c) /\ Registrations /\ UNCHANGED <<otp, verify, now>>
    BY DEF AccessInv, SignupCreate, SignupGroup, SignupReactivate
<1>1. /\ send[c].pc \in {"create", "group", "reactivate"} /\ send[c].user \in Users
      /\ otp[c].st = "none" /\ send[c].school \in Schools \cup {NoOne}
    <2>1. send[c].pc \in {"create", "group", "reactivate"}
        BY DEF SignupCreate, SignupGroup, SignupReactivate
    <2>2. send[c].user \in Users /\ otp[c].st = "none"
        BY <2>1, <1>0 DEF Sending, Stages
    <2>3. send[c] \in Send
        BY <1>0, Fields
    <2> QED BY <2>1, <2>2, <2>3 DEF Send
<1>2. CASE SignupCreate(c)
    <2>1. CASE Registered(send[c].user)
        <3>1. SendEnds(c, "taken") /\ UNCHANGED <<school, active, student>>
            BY <2>1, <1>2 DEF SignupCreate
        <3>2. PICK q \in Send :
                 /\ send' = [send EXCEPT ![c] = q] /\ q.user = send[c].user
                 /\ q.before = send[c].before /\ q.pc = "done" /\ q.result = "taken"
            BY <3>1, <1>0, SendRecords
        <3>3. Registrations'
            BY <3>1, <1>0 DEF Registrations, Registered
        <3> QED BY <3>1, <3>2, <3>3, <1>0, <1>1, SendMoves DEF TypeOK, Sending, Stages
    <2>2. CASE ~ Registered(send[c].user)
        <3>1. /\ SendTo(c, "group") /\ student' = student
              /\ school' = [school EXCEPT ![send[c].user] = {send[c].school}]
              /\ active' = active \cup {send[c].user}
            BY <2>2, <1>2 DEF SignupCreate
        <3>2. PICK q \in Send :
                 /\ send' = [send EXCEPT ![c] = q] /\ q.user = send[c].user
                 /\ q.before = send[c].before /\ q.pc = "group" /\ q.result = send[c].result
            BY <3>1, <1>0, SendRecords DEF Stages
        <3>3. {send[c].school} \in Ptr(Schools \cup {NoOne})
            BY <1>1 DEF Ptr
        <3>4. /\ school' \in [Users -> Ptr(Schools \cup {NoOne})]
              /\ \A u \in Users : school[u] # {} => school'[u] # {}
              /\ school'[send[c].user] # {}
            BY <3>1, <3>3, <1>0, <1>1 DEF TypeOK
        <3>5. send[c].user \notin Staff
            BY <2>2, <1>0 DEF Registrations
        <3>6. Registrations'
            BY <3>1, <3>4, <1>0, StaffAssumption DEF Registrations, Registered, TypeOK
        <3>7. ~ (send[c].result \in {"sent", "undelivered"})
            BY <1>0, <1>1 DEF Sending
        <3> QED BY <3>1, <3>2, <3>4, <3>5, <3>6, <3>7, <1>0, <1>1, SendMoves
                DEF TypeOK, Sending, Registered
    <2> QED BY <2>1, <2>2
<1>3. CASE SignupGroup(c)
    <2>1. /\ SendTo(c, "invalidate") /\ UNCHANGED <<school, active>>
          /\ student' = student \cup {send[c].user} /\ send[c].pc = "group"
        BY <1>3 DEF SignupGroup
    <2>2. PICK q \in Send :
             /\ send' = [send EXCEPT ![c] = q] /\ q.user = send[c].user
             /\ q.before = send[c].before /\ q.pc = "invalidate" /\ q.result = send[c].result
        BY <2>1, <1>0, SendRecords DEF Stages
    <2>3. Registrations'
        BY <2>1, <1>0 DEF Registrations, Registered, Sending
    <2>4. ~ (send[c].result \in {"sent", "undelivered"})
        BY <1>0, <1>1 DEF Sending
    <2> QED BY <2>1, <2>2, <2>3, <2>4, <1>0, <1>1, SendMoves DEF TypeOK, Sending
<1>4. CASE SignupReactivate(c)
    <2>1. /\ SendTo(c, "invalidate") /\ UNCHANGED <<school, student>>
          /\ active' = active \cup {send[c].user} /\ send[c].user \in student
        BY <1>0, <1>4 DEF SignupReactivate, Sending
    <2>2. PICK q \in Send :
             /\ send' = [send EXCEPT ![c] = q] /\ q.user = send[c].user
             /\ q.before = send[c].before /\ q.pc = "invalidate" /\ q.result = send[c].result
        BY <2>1, <1>0, SendRecords DEF Stages
    <2>3. Registrations'
        BY <2>1, <1>0 DEF Registrations, Registered
    <2>4. ~ (send[c].result \in {"sent", "undelivered"})
        BY <1>0, <1>1 DEF Sending
    <2> QED BY <2>1, <2>2, <2>3, <2>4, <1>0, <1>1, SendMoves DEF TypeOK, Sending
<1> QED BY <1>2, <1>3, <1>4

(* A mail that was sent or not, and a statement that failed.                 *)
LEMMA SendEndsKeeps ==
    ASSUME AccessInv, NEW c \in Codes, Mail(c) \/ SendFails(c)
    PROVE  AccessInv'
<1>0. /\ TypeOK /\ Sending(c) /\ Registrations /\ UNCHANGED <<users, otp, verify, now>>
    BY DEF AccessInv, Mail, SendFails
<1>1. Registrations'
    BY <1>0 DEF Registrations, Registered, users
<1>2. CASE Mail(c)
    <2>1. send[c].pc = "mail" /\ otp[c].st # "none" /\ send[c].user \in Users
        BY <1>0, <1>2 DEF Mail, Sending, Stages
    <2>2. CASE SendEnds(c, "sent")
        <3>1. PICK q \in Send :
                 /\ send' = [send EXCEPT ![c] = q] /\ q.user = send[c].user
                 /\ q.before = send[c].before /\ q.pc = "done" /\ q.result = "sent"
            BY <2>2, <1>0, SendRecords
        <3> QED BY <3>1, <2>1, <1>0, <1>1, SendMoves DEF TypeOK, Sending, users, Stages
    <2>3. CASE SendTo(c, "drop")
        <3>1. PICK q \in Send :
                 /\ send' = [send EXCEPT ![c] = q] /\ q.user = send[c].user
                 /\ q.before = send[c].before /\ q.pc = "drop"
            BY <2>3, <1>0, SendRecords DEF Stages
        <3> QED BY <3>1, <2>1, <1>0, <1>1, SendMoves DEF TypeOK, Sending, users
    <2> QED BY <2>2, <2>3, <1>2 DEF Mail
<1>3. CASE SendFails(c)
    <2>1. otp[c].st = "none" /\ SendEnds(c, "failed")
        BY <1>0, <1>3 DEF SendFails, Sending
    <2>2. PICK q \in Send :
             /\ send' = [send EXCEPT ![c] = q] /\ q.user = send[c].user
             /\ q.before = send[c].before /\ q.pc = "done" /\ q.result = "failed"
        BY <2>1, <1>0, SendRecords
    <2> QED BY <2>1, <2>2, <1>0, <1>1, SendMoves DEF TypeOK, Sending, users, Stages
<1> QED BY <1>2, <1>3

(* The older codes of the user are consumed, all that were stored among them.*)
LEMMA InvalidateKeeps ==
    ASSUME AccessInv, NEW c \in Codes, Invalidate(c)
    PROVE  AccessInv'
<1> DEFINE q == [send[c] EXCEPT !.pc = "save", !.issued = now]
           o(d) == [otp[d] EXCEPT !.st = "consumed"]
           spent(d) == otp[d].user = send[c].user /\ otp[d].st = "active"
<1>0. /\ TypeOK /\ Sending(c) /\ Registrations /\ UNCHANGED <<users, verify, now>>
      /\ send[c].pc = "invalidate" /\ send' = [send EXCEPT ![c] = q]
      /\ otp' = [d \in Codes |-> IF spent(d) THEN o(d) ELSE otp[d]]
    BY DEF AccessInv, Invalidate
<1>1. /\ q \in Send /\ q.pc = "save" /\ q.user = send[c].user /\ q.before = send[c].before
      /\ q.result = send[c].result
    <2>1. send[c] \in Send /\ now \in Nat
        BY <1>0, Fields
    <2> QED BY <2>1 DEF Send
<1>2. ASSUME NEW d \in Codes
      PROVE  /\ o(d) \in Otp /\ o(d).st = "consumed" /\ o(d).user = otp[d].user
             /\ o(d).issued = otp[d].issued /\ o(d).tries = otp[d].tries
    <2>1. otp[d] \in Otp
        BY <1>0, Fields
    <2> QED BY <2>1 DEF Otp
<1> HIDE DEF q, o
<1>3. ASSUME NEW d \in Codes
      PROVE  /\ otp'[d] \in Otp /\ otp'[d].user = otp[d].user /\ otp'[d].issued = otp[d].issued
             /\ otp'[d].tries = otp[d].tries
             /\ otp'[d].st = IF spent(d) THEN "consumed" ELSE otp[d].st
    <2>1. otp'[d] = IF spent(d) THEN o(d) ELSE otp[d]
        BY <1>0
    <2>2. CASE spent(d)
        BY <2>1, <2>2, <1>2
    <2>3. CASE ~ spent(d)
        <3>1. otp[d] \in Otp
            BY <1>0, Fields
        <3> QED BY <3>1, <2>1, <2>3
    <2> QED BY <2>2, <2>3
<1>4. otp' \in [Codes -> Otp]
    <2>1. DOMAIN otp' = Codes /\ otp' = [d \in Codes |-> otp'[d]]
        BY <1>0
    <2> QED BY <2>1, <1>3
<1>5. /\ send' \in [Codes -> Send] /\ send'[c] = q
      /\ \A d \in Codes : d # c => send'[d] = send[d]
    BY <1>0, <1>1 DEF TypeOK
<1>6. TypeOK' /\ Registrations'
    BY <1>0, <1>4, <1>5 DEF TypeOK, Registrations, Registered, users
<1>7. Kept
    <2>1. now' \in Int /\ now <= now'
        BY <1>0, Fields
    <2> QED BY <1>0, <1>3, <2>1 DEF Kept, users
<1>8. Sending(c)'
    <2>1. otp[c].st = "none" /\ otp'[c].st = "none" /\ otp'[c].tries = otp[c].tries
        BY <1>0, <1>3 DEF Sending
    <2>2. send[c].user \in student /\ send[c].user \in Users
          /\ ~ (send[c].result \in {"sent", "undelivered"})
          /\ ~ (otp[c].tries >= MaxAttempts)
        BY <1>0, <2>1 DEF Sending, Stages
    <2>3. ASSUME NEW d \in send[c].before
          PROVE  otp'[d].st # "none" /\ (otp'[d].user = send[c].user => otp'[d].st = "consumed")
        <3>1. d \in Codes /\ otp[d].st \in {"active", "consumed"}
            BY <1>0, Fields DEF Sending
        <3> QED BY <3>1, <1>3
    <2> QED BY <1>0, <1>1, <1>5, <2>1, <2>2, <2>3 DEF Sending, users
<1>9. \A d \in Codes : d # c => Untouched(d)
    BY <1>3, <1>5 DEF Untouched
<1>10. \A v \in Verifies : verify'[v] = verify[v]
    BY <1>0
<1> QED BY <1>6, <1>7, <1>8, <1>9, <1>10, Frame

(* The new code is stored.                                                   *)
LEMMA SaveKeeps ==
    ASSUME AccessInv, NEW c \in Codes, SaveOtp(c)
    PROVE  AccessInv'
<1> DEFINE o == [st |-> "active", user |-> send[c].user, issued |-> send[c].issued, tries |-> 0]
<1>0. /\ TypeOK /\ Sending(c) /\ Registrations /\ UNCHANGED <<users, verify, now>>
      /\ send[c].pc = "save" /\ SendTo(c, "mail") /\ otp' = [otp EXCEPT ![c] = o]
    BY DEF AccessInv, SaveOtp
<1>1. /\ o \in Otp /\ o.st = "active" /\ o.user = send[c].user /\ o.tries = 0
    <2>1. send[c].user \in Users \cup {NoOne} /\ send[c].issued \in Nat
        BY <1>0, Fields
    <2> QED BY <2>1 DEF Otp
<1> HIDE DEF o
<1>2. /\ otp' \in [Codes -> Otp] /\ otp'[c] = o /\ \A d \in Codes : d # c => otp'[d] = otp[d]
    BY <1>0, <1>1 DEF TypeOK
<1>3. PICK q \in Send :
         /\ send' = [send EXCEPT ![c] = q] /\ q.user = send[c].user
         /\ q.before = send[c].before /\ q.pc = "mail" /\ q.result = send[c].result
    BY <1>0, SendRecords DEF Stages
<1>4. /\ send' \in [Codes -> Send] /\ send'[c] = q
      /\ \A d \in Codes : d # c => send'[d] = send[d]
    BY <1>0, <1>3 DEF TypeOK
<1>5. TypeOK' /\ Registrations'
    BY <1>0, <1>2, <1>4 DEF TypeOK, Registrations, Registered, users
<1>6. otp[c].st = "none" /\ send[c].user \in student /\ send[c].user \in Users
    BY <1>0 DEF Sending, Stages
<1>7. Kept
    <2>1. now' \in Int /\ now <= now'
        BY <1>0, Fields
    <2> QED BY <1>0, <1>2, <1>6, <2>1 DEF Kept, users
<1>8. Sending(c)'
    <2>1. ASSUME NEW d \in send[c].before
          PROVE  otp'[d].st # "none" /\ (otp'[d].user = send[c].user => otp'[d].st = "consumed")
        <3>1. /\ d \in Codes /\ otp[d].st # "none"
              /\ otp[d].user = send[c].user => otp[d].st = "consumed"
            BY <1>0, Fields DEF Sending
        <3>2. d # c
            BY <3>1, <1>6
        <3> QED BY <3>1, <3>2, <1>2
    <2>2. ~ (otp'[c].tries >= MaxAttempts)
        BY <1>1, <1>2, BoundsAssumption
    <2> QED BY <1>0, <1>1, <1>2, <1>3, <1>4, <1>6, <2>1, <2>2 DEF Sending, users, Stages
<1>9. \A d \in Codes : d # c => Untouched(d)
    BY <1>2, <1>4 DEF Untouched
<1>10. \A v \in Verifies : verify'[v] = verify[v]
    BY <1>0
<1> QED BY <1>5, <1>7, <1>8, <1>9, <1>10, Frame

(* A code loses its life and nothing else.                                   *)
LEMMA SpentCode ==
    ASSUME TypeOK, NEW c \in Codes, otp' = Spent(c)
    PROVE  /\ otp' \in [Codes -> Otp]
           /\ \A d \in Codes : d # c => otp'[d] = otp[d]
           /\ otp'[c].st = (IF otp[c].st = "active" THEN "consumed" ELSE otp[c].st)
           /\ otp'[c].user = otp[c].user /\ otp'[c].issued = otp[c].issued
           /\ otp'[c].tries = otp[c].tries
<1> DEFINE s == IF otp[c].st = "active" THEN "consumed" ELSE otp[c].st
<1>1. otp[c] \in Otp /\ otp \in [Codes -> Otp] /\ s \in {"none", "active", "consumed"}
    BY Fields DEF TypeOK
<1>2. otp' = [otp EXCEPT ![c].st = s]
    BY DEF Spent
<1> HIDE DEF s
<1> DEFINE o == [otp[c] EXCEPT !.st = s]
<1>3. /\ o \in Otp /\ o.st = s /\ o.user = otp[c].user /\ o.issued = otp[c].issued
      /\ o.tries = otp[c].tries
    BY <1>1 DEF Otp
<1>4. otp' = [otp EXCEPT ![c] = o]
    BY <1>2
<1> HIDE DEF o
<1> QED BY <1>1, <1>3, <1>4 DEF s

(* A code that could not be mailed is consumed, or left.                     *)
LEMMA DropKeeps ==
    ASSUME AccessInv, NEW c \in Codes, Drop(c)
    PROVE  AccessInv'
<1>0. /\ TypeOK /\ Sending(c) /\ Registrations /\ UNCHANGED <<users, verify, now>>
      /\ send[c].pc = "drop" /\ SendEnds(c, "undelivered") /\ (otp' = otp \/ otp' = Spent(c))
    BY DEF AccessInv, Drop
<1>1. otp[c].st # "none" /\ otp[c] \in Otp
    BY <1>0, Fields DEF Sending
<1>2. /\ otp' \in [Codes -> Otp] /\ \A d \in Codes : d # c => otp'[d] = otp[d]
      /\ otp'[c].st # "none" /\ (otp[c].st = "consumed" => otp'[c].st = "consumed")
      /\ otp'[c].user = otp[c].user /\ otp'[c].issued = otp[c].issued
      /\ otp'[c].tries = otp[c].tries
    <2>1. CASE otp' = otp
        BY <2>1, <1>0, <1>1 DEF TypeOK
    <2>2. CASE otp' = Spent(c)
        BY <2>2, <1>0, <1>1, SpentCode
    <2> QED BY <2>1, <2>2, <1>0
<1>3. PICK q \in Send :
         /\ send' = [send EXCEPT ![c] = q] /\ q.user = send[c].user
         /\ q.before = send[c].before /\ q.pc = "done" /\ q.result = "undelivered"
    BY <1>0, SendRecords
<1>4. /\ send' \in [Codes -> Send] /\ send'[c] = q
      /\ \A d \in Codes : d # c => send'[d] = send[d]
    BY <1>0, <1>3 DEF TypeOK
<1>5. TypeOK' /\ Registrations'
    BY <1>0, <1>2, <1>4 DEF TypeOK, Registrations, Registered, users
<1>6. Kept
    <2>1. now' \in Int /\ now <= now'
        BY <1>0, Fields
    <2> QED BY <1>0, <1>2, <2>1 DEF Kept, users
<1>7. Sending(c)'
    <2>1. ASSUME NEW d \in send[c].before
          PROVE  otp'[d].st # "none" /\ (otp'[d].user = send[c].user => otp'[d].st = "consumed")
        <3>1. /\ d \in Codes /\ otp[d].st # "none"
              /\ otp[d].user = send[c].user => otp[d].st = "consumed"
            BY <1>0, Fields DEF Sending
        <3> QED BY <3>1 , <1>6 DEF Kept
    <2>2. otp'[c].tries >= MaxAttempts => otp'[c].st = "consumed"
        BY <1>0, <1>2 DEF Sending
    <2>3. otp'[c].user = send[c].user /\ otp'[c].user \in student'
        BY <1>0, <1>1, <1>2 DEF Sending, users
    <2> QED BY <1>0, <1>1, <1>2, <1>3, <1>4, <2>1, <2>2, <2>3 DEF Sending, users, Stages
<1>8. \A d \in Codes : d # c => Untouched(d)
    BY <1>2, <1>4 DEF Untouched
<1>9. \A v \in Verifies : verify'[v] = verify[v]
    BY <1>0
<1> QED BY <1>5, <1>6, <1>7, <1>8, <1>9, Frame

(* A step in which one verification takes its next record, and codes are     *)
(* at most spent, needs to establish what that verification holds.           *)
LEMMA VerifyMoves ==
    ASSUME AccessInv, NEW v \in Verifies, NEW q \in Verify,
           verify' = [verify EXCEPT ![v] = q], UNCHANGED <<users, send, now>>,
           Spends, Holds(q)
    PROVE  AccessInv'
<1>1. TypeOK /\ Registrations
    BY DEF AccessInv
<1>2. /\ verify' \in [Verifies -> Verify] /\ verify'[v] = q
      /\ \A w \in Verifies : w # v => verify'[w] = verify[w]
    BY <1>1 DEF TypeOK
<1>3. TypeOK' /\ Registrations'
    BY <1>1, <1>2 DEF TypeOK, Registrations, Registered, users, Spends
<1>4. Kept
    <2>1. now' \in Int /\ now <= now'
        BY <1>1, Fields
    <2> QED BY <2>1 DEF Kept, users, Spends
<1>5. \A c \in Codes : Untouched(c)
    BY DEF Untouched, Spends
<1>6. Verifying(v)'
    <2>1. q.pc \in {"compare", "increment", "consume"} => otp'[q.otp].st # "none"
        BY <1>4 DEF Kept, Holds
    <2>2. q.stale => otp'[q.guess].st # "none" /\
                     (otp'[q.guess].st = "consumed" \/ otp'[q.guess].issued + TTL <= now')
        BY <1>4 DEF Kept, Holds, Dead
    <2> QED BY <1>2, <2>1, <2>2 DEF Verifying, Holds, Dead
<1> QED BY <1>2, <1>3, <1>4, <1>5, <1>6, Frame

(* A verification comes in with a wrong code, or one that was mailed.         *)
LEMMA VerifyBeginKeeps ==
    ASSUME AccessInv, NEW v \in Verifies, VerifyBegin(v)
    PROVE  AccessInv'
<1>0. TypeOK /\ UNCHANGED <<users, otp, send, now>> /\ verify[v] \in Verify
    BY Fields DEF AccessInv, VerifyBegin
<1>1. PICK u \in Users, g \in Mailed \cup {Wrong},
           p \in {"find", "done"}, e \in {"none", "invalid"} :
         verify' = [verify EXCEPT ![v] =
                      [verify[v] EXCEPT !.user = u, !.guess = g,
                                        !.stale = g \in Codes /\ g \notin Live(otp[g].user),
                                        !.pc = p, !.result = e]]
    <2>1. PICK u \in Users, g \in Mailed \cup {Wrong} :
            LET known == Registered(u) /\ u \in active IN
            verify' = [verify EXCEPT ![v] =
                         [verify[v] EXCEPT !.user = u, !.guess = g,
                                   !.stale = g \in Codes /\ g \notin Live(otp[g].user),
                                   !.pc = IF known THEN "find" ELSE "done",
                                   !.result = IF known THEN "none" ELSE "invalid"]]
        BY DEF VerifyBegin
    <2>2. CASE Registered(u) /\ u \in active
        BY <2>1, <2>2
    <2>3. CASE ~ (Registered(u) /\ u \in active)
        BY <2>1, <2>3
    <2> QED BY <2>2, <2>3
<1> DEFINE s == g \in Codes /\ g \notin Live(otp[g].user)
<1>2. s \in BOOLEAN /\ g \in Codes \cup {Wrong}
    BY DEF Mailed
<1>3. verify' = [verify EXCEPT ![v] = [verify[v] EXCEPT !.user = u, !.guess = g, !.stale = s,
                                                        !.pc = p, !.result = e]]
    BY <1>1
<1>4. s => g \in Codes /\ Dead(g)
    <2> SUFFICES ASSUME s PROVE g \in Codes /\ Dead(g)
        OBVIOUS
    <2>1. g \in Codes /\ g \in Mailed
        BY NoOneAssumption DEF Wrong
    <2>2. otp[g].st # "none"
        BY <2>1 DEF AccessInv, Sending, Mailed
    <2>3. ~ (otp[g].st = "active" /\ now < otp[g].issued + TTL)
        BY <2>1 DEF Live
    <2>4. otp[g].st \in {"none", "active", "consumed"} /\ otp[g].issued + TTL \in Nat /\ now \in Nat
        BY <1>0, <2>1, Fields
    <2> QED BY <2>1, <2>2, <2>3, <2>4 DEF Dead
<1> HIDE DEF s
<1> DEFINE q == [verify[v] EXCEPT !.user = u, !.guess = g, !.stale = s, !.pc = p, !.result = e]
<1>5. /\ q \in Verify /\ q.pc = p /\ q.result = e /\ q.stale = s /\ q.guess = g
    BY <1>0, <1>2 DEF Verify
<1>6. verify' = [verify EXCEPT ![v] = q]
    BY <1>3
<1> HIDE DEF q
<1>7. Spends
    BY <1>0 DEF Spends, TypeOK
<1>8. Holds(q)
    BY <1>4, <1>5 DEF Holds
<1>9. UNCHANGED <<users, send, now>>
    BY <1>0
<1> QED BY <1>5, <1>6, <1>7, <1>8, <1>9, VerifyMoves

(* The record of a verification that moves on, or ends.                      *)
LEMMA VerifyRecords ==
    ASSUME TypeOK, NEW v \in Verifies,
           NEW p \in {"consume", "increment", "issue", "done"},
           NEW e \in {"none", "ok", "invalid", "failed"},
           \/ VerifyTo(v, p) /\ e = verify[v].result
           \/ VerifyEnds(v, e) /\ p = "done"
    PROVE  \E q \in Verify :
             /\ verify' = [verify EXCEPT ![v] = q]
             /\ q.pc = p /\ q.result = e /\ q.otp = verify[v].otp
             /\ q.guess = verify[v].guess /\ q.stale = verify[v].stale
<1>1. verify[v] \in Verify
    BY Fields
<1>2. CASE VerifyTo(v, p) /\ e = verify[v].result
    <2> DEFINE q == [verify[v] EXCEPT !.pc = p]
    <2>1. /\ q \in Verify /\ q.pc = p /\ q.result = e /\ q.otp = verify[v].otp
          /\ q.guess = verify[v].guess /\ q.stale = verify[v].stale
        BY <1>1, <1>2 DEF Verify
    <2>2. verify' = [verify EXCEPT ![v] = q]
        BY <1>2 DEF VerifyTo
    <2> HIDE DEF q
    <2> QED BY <2>1, <2>2
<1>3. CASE VerifyEnds(v, e) /\ p = "done"
    <2> DEFINE q == [verify[v] EXCEPT !.pc = p, !.result = e]
    <2>1. /\ q \in Verify /\ q.pc = p /\ q.result = e /\ q.otp = verify[v].otp
          /\ q.guess = verify[v].guess /\ q.stale = verify[v].stale
        BY <1>1 DEF Verify
    <2>2. verify' = [verify EXCEPT ![v] = q]
        BY <1>3 DEF VerifyEnds
    <2> HIDE DEF q
    <2> QED BY <2>1, <2>2
<1> QED BY <1>2, <1>3

(* A verification finds a live code, hence not the dead one, and compares.   *)
LEMMA FindKeeps ==
    ASSUME AccessInv, NEW v \in Verifies, FindActive(v) \/ Compare(v)
    PROVE  AccessInv'
<1>0. /\ TypeOK /\ UNCHANGED <<users, otp, send, now>> /\ verify[v] \in Verify /\ Verifying(v)
    BY Fields DEF AccessInv, FindActive, Compare
<1>1. UNCHANGED <<users, send, now>> /\ Spends
    BY <1>0 DEF Spends, TypeOK
<1>2. CASE VerifyEnds(v, "invalid")
    <2>1. PICK q \in Verify :
             /\ verify' = [verify EXCEPT ![v] = q] /\ q.pc = "done" /\ q.result = "invalid"
             /\ q.guess = verify[v].guess /\ q.stale = verify[v].stale
        BY <1>0, <1>2, VerifyRecords
    <2>2. Holds(q)
        BY <2>1, <1>0 DEF Verifying, Holds
    <2> QED BY <2>1, <2>2, <1>1, VerifyMoves
<1>3. ASSUME NEW c \in Live(verify[v].user), verify[v].pc = "find",
             verify' = [verify EXCEPT ![v].pc = "compare", ![v].otp = c]
      PROVE  AccessInv'
    <2> DEFINE q == [verify[v] EXCEPT !.pc = "compare", !.otp = c]
    <2>1. /\ c \in Codes /\ otp[c].st = "active" /\ now < otp[c].issued + TTL
        BY <1>3 DEF Live
    <2>2. /\ q \in Verify /\ q.pc = "compare" /\ q.otp = c /\ q.guess = verify[v].guess
          /\ q.stale = verify[v].stale /\ q.result = verify[v].result
        BY <2>1, <1>0 DEF Verify
    <2>3. verify' = [verify EXCEPT ![v] = q]
        BY <1>0, <1>3 DEF TypeOK
    <2> HIDE DEF q
    <2>4. ~ Dead(c)
        <3>1. now \in Nat /\ TTL \in Nat /\ otp[c].issued \in Nat
            BY <1>0, <2>1, Fields
        <3> QED BY <2>1, <3>1 DEF Dead
    <2>5. Holds(q)
        <3>1. q.otp \in Codes /\ otp[q.otp].st # "none"
            BY <2>1, <2>2
        <3>2. q.stale => q.guess \in Codes /\ Dead(q.guess) /\ q.result # "ok" /\ q.otp # q.guess
            BY <2>2, <2>4, <1>0 DEF Verifying, Holds
        <3> QED BY <2>2, <3>1, <3>2 DEF Holds
    <2> QED BY <2>2, <2>3, <2>5, <1>1, VerifyMoves
<1>4. CASE Compare(v)
    <2>1. PICK p \in {"consume", "increment"} :
             VerifyTo(v, p) /\ (p = "consume" <=> verify[v].guess = verify[v].otp)
        BY <1>4 DEF Compare
    <2>2. verify[v].pc = "compare" /\ verify[v].result \in {"none", "ok", "invalid", "failed"}
        BY <1>0, <1>4 DEF Compare, Verify
    <2>3. PICK q \in Verify :
             /\ verify' = [verify EXCEPT ![v] = q] /\ q.pc = p /\ q.result = verify[v].result
             /\ q.otp = verify[v].otp
             /\ q.guess = verify[v].guess /\ q.stale = verify[v].stale
        BY <1>0, <2>1, <2>2, VerifyRecords
    <2>4. /\ q.otp \in Codes /\ otp[q.otp].st # "none"
          /\ q.stale => /\ q.guess \in Codes /\ Dead(q.guess) /\ q.result # "ok"
                        /\ q.pc = "increment"
        BY <2>1, <2>2, <2>3, <1>0 DEF Verifying, Holds
    <2>5. Holds(q)
        BY <2>1, <2>3, <2>4 DEF Holds
    <2> QED BY <2>3, <2>5, <1>1, VerifyMoves
<1> QED BY <1>2, <1>3, <1>4 DEF FindActive

(* A wrong attempt is recorded, and the last one spends the code.            *)
LEMMA IncrementKeeps ==
    ASSUME AccessInv, NEW v \in Verifies, IncrementAttempts(v)
    PROVE  AccessInv'
<1> DEFINE c == verify[v].otp
           s == IF otp[c].tries + 1 >= MaxAttempts THEN "consumed" ELSE otp[c].st
           o == [otp[c] EXCEPT !.tries = otp[c].tries + 1, !.st = s]
<1>0. /\ TypeOK /\ UNCHANGED <<users, send, now>> /\ Verifying(v) /\ verify[v].pc = "increment"
      /\ VerifyEnds(v, "invalid")
      /\ otp' = [otp EXCEPT ![c].tries = otp[c].tries + 1, ![c].st = s]
    BY DEF AccessInv, IncrementAttempts
<1>1. c \in Codes /\ otp[c].st # "none"
    BY <1>0 DEF Verifying, Holds
<1>2. otp[c] \in Otp /\ otp \in [Codes -> Otp] /\ otp[c].tries \in Nat
    BY <1>0, <1>1, Fields DEF TypeOK
<1> HIDE DEF c
<1>3. /\ s \in {"none", "active", "consumed"} /\ s # "none" /\ (s = otp[c].st \/ s = "consumed")
      /\ otp[c].tries + 1 >= MaxAttempts => s = "consumed"
    BY <1>1, <1>2 DEF Otp
<1> HIDE DEF s
<1>4. /\ o \in Otp /\ o.st = s /\ o.user = otp[c].user /\ o.issued = otp[c].issued
      /\ o.tries = otp[c].tries + 1
    <2>1. otp[c].tries + 1 \in Nat
        BY <1>2
    <2> DEFINE t == otp[c].tries + 1
    <2> HIDE DEF t
    <2>2. /\ [otp[c] EXCEPT !.tries = t, !.st = s] \in Otp
          /\ [otp[c] EXCEPT !.tries = t, !.st = s].st = s
          /\ [otp[c] EXCEPT !.tries = t, !.st = s].tries = t
          /\ [otp[c] EXCEPT !.tries = t, !.st = s].user = otp[c].user
          /\ [otp[c] EXCEPT !.tries = t, !.st = s].issued = otp[c].issued
        BY <2>1, <1>2, <1>3 DEF Otp, t
    <2> QED BY <2>2 DEF t
<1>5. otp' = [otp EXCEPT ![c] = o]
    BY <1>0, <1>1, <1>2
<1> HIDE DEF o
<1>6. /\ otp' \in [Codes -> Otp] /\ otp'[c] = o /\ \A d \in Codes : d # c => otp'[d] = otp[d]
    BY <1>1, <1>2, <1>4, <1>5
<1>7. Spends
    <2>1. ASSUME NEW d \in Codes
          PROVE  /\ otp'[d].st # otp[d].st => otp'[d].st = "consumed" /\ otp[d].st # "none"
                 /\ otp'[d].user = otp[d].user /\ otp'[d].issued = otp[d].issued
                 /\ \/ otp'[d].tries = otp[d].tries
                    \/ /\ otp[d].st # "none"
                       /\ otp'[d].tries >= MaxAttempts => otp'[d].st = "consumed"
        <3>1. CASE d = c
            BY <3>1, <1>1, <1>3, <1>4, <1>6
        <3>2. CASE d # c
            BY <3>2, <1>6
        <3> QED BY <3>1, <3>2
    <2> QED BY <2>1, <1>6 DEF Spends
<1>8. PICK q \in Verify :
         /\ verify' = [verify EXCEPT ![v] = q] /\ q.pc = "done" /\ q.result = "invalid"
         /\ q.guess = verify[v].guess /\ q.stale = verify[v].stale
    BY <1>0, VerifyRecords
<1>9. Holds(q)
    BY <1>8, <1>0 DEF Verifying, Holds
<1> QED BY <1>0, <1>7, <1>8, <1>9, VerifyMoves

(* The code is consumed, the session opened; or a statement failed.           *)
LEMMA ConsumeKeeps ==
    ASSUME AccessInv, NEW v \in Verifies, Consume(v) \/ Issue(v) \/ VerifyFails(v)
    PROVE  AccessInv'
<1>0. /\ TypeOK /\ UNCHANGED <<users, send, now>> /\ Verifying(v) /\ verify[v] \in Verify
    BY Fields DEF AccessInv, Consume, Issue, VerifyFails
<1>1. Spends
    <2>1. CASE Consume(v)
        <3> DEFINE c == verify[v].otp
        <3>1. c \in Codes /\ otp[c].st # "none" /\ otp' = Spent(c)
            BY <1>0, <2>1 DEF Consume, Verifying, Holds
        <3> HIDE DEF c
        <3>2. /\ otp' \in [Codes -> Otp] /\ \A d \in Codes : d # c => otp'[d] = otp[d]
              /\ otp'[c].st = (IF otp[c].st = "active" THEN "consumed" ELSE otp[c].st)
              /\ otp'[c].user = otp[c].user /\ otp'[c].issued = otp[c].issued
              /\ otp'[c].tries = otp[c].tries
            BY <1>0, <3>1, SpentCode
        <3> QED BY <3>1, <3>2 DEF Spends
    <2>2. CASE Issue(v) \/ VerifyFails(v)
        <3>1. otp' = otp
            BY <2>2 DEF Issue, VerifyFails
        <3> QED BY <3>1, <1>0 DEF Spends, TypeOK
    <2> QED BY <2>1, <2>2
<1>2. PICK p \in {"issue", "done"}, e \in {"none", "ok", "invalid", "failed"} :
         /\ \/ VerifyTo(v, p) /\ e = verify[v].result
            \/ VerifyEnds(v, e) /\ p = "done"
         /\ verify[v].stale => p = "done" /\ e # "ok"
    <2>1. CASE Consume(v)
        <3>1. verify[v].result \in {"none", "ok", "invalid", "failed"}
            BY <1>0 DEF Verify
        <3>2. VerifyTo(v, "issue") /\ ~ verify[v].stale
            BY <1>0, <2>1 DEF Consume, Verifying, Holds
        <3> QED BY <3>1, <3>2
    <2>2. CASE Issue(v)
        <3>1. VerifyEnds(v, "ok") /\ ~ verify[v].stale
            BY <1>0, <2>2 DEF Issue, Verifying, Holds
        <3> QED BY <3>1
    <2>3. CASE VerifyFails(v)
        <3>1. VerifyEnds(v, "failed") \/ VerifyEnds(v, "invalid")
            BY <2>3 DEF VerifyFails
        <3> QED BY <3>1
    <2> QED BY <2>1, <2>2, <2>3
<1>3. PICK q \in Verify :
         /\ verify' = [verify EXCEPT ![v] = q] /\ q.pc = p /\ q.result = e
         /\ q.guess = verify[v].guess /\ q.stale = verify[v].stale
    BY <1>0, <1>2, VerifyRecords
<1>4. q.stale => q.guess \in Codes /\ Dead(q.guess) /\ q.pc = "done" /\ q.result # "ok"
    BY <1>0, <1>2, <1>3 DEF Verifying, Holds
<1>5. Holds(q)
    BY <1>2, <1>3, <1>4 DEF Holds
<1> QED BY <1>0, <1>1, <1>3, <1>5, VerifyMoves

(* A user is deactivated, or time passes: codes only expire.                 *)
LEMMA TickKeeps ==
    ASSUME AccessInv, Tick \/ \E u \in Users : Deactivate(u)
    PROVE  AccessInv'
<1>0. /\ TypeOK /\ Registrations /\ UNCHANGED <<school, student, otp, send, verify>>
      /\ now \in Nat /\ MaxTime \in Nat
    BY Fields, BoundsAssumption DEF AccessInv, Tick, Deactivate, users
<1>1. active' \subseteq Users /\ now' \in 0..MaxTime /\ now <= now'
    <2>1. CASE Tick
        BY <2>1, <1>0 DEF Tick, TypeOK, users
    <2>2. CASE \E u \in Users : Deactivate(u)
        BY <2>2, <1>0 DEF Deactivate, TypeOK
    <2> QED BY <2>1, <2>2
<1>2. TypeOK' /\ Registrations' /\ Kept
    BY <1>0, <1>1 DEF TypeOK, Registrations, Registered, Kept
<1>3. \A c \in Codes : Untouched(c)
    BY <1>0 DEF Untouched
<1> QED BY <1>0, <1>2, <1>3, Frame

(* Whatever a request does, the invariant stays.                             *)
LEMMA AccessNext == AccessInv /\ [Next]_vars => AccessInv'
<1> SUFFICES ASSUME AccessInv, [Next]_vars PROVE AccessInv'
    OBVIOUS
<1>1. CASE UNCHANGED vars
    <2>1. /\ TypeOK /\ Registrations
          /\ UNCHANGED <<school, active, student, otp, send, verify, now>>
        BY <1>1 DEF AccessInv, vars, users
    <2>2. now' \in Int /\ now <= now'
        BY <2>1, Fields
    <2>3. TypeOK' /\ Registrations' /\ Kept
        BY <2>1, <2>2 DEF TypeOK, Registrations, Registered, Kept
    <2>4. (\A c \in Codes : Untouched(c)) /\ \A v \in Verifies : verify'[v] = verify[v]
        BY <2>1 DEF Untouched
    <2> QED BY <2>3, <2>4, Frame
<1>2. ASSUME NEW c \in Codes, RequestBegin(c) \/ SignupBegin(c) \/ SendStep(c) \/ SendFails(c)
      PROVE  AccessInv'
    BY <1>2, BeginKeeps, SignupKeeps, InvalidateKeeps, SaveKeeps, SendEndsKeeps, DropKeeps
       DEF SendStep
<1>3. ASSUME NEW v \in Verifies, VerifyBegin(v) \/ VerifyStep(v) \/ VerifyFails(v)
      PROVE  AccessInv'
    BY <1>3, VerifyBeginKeeps, FindKeeps, IncrementKeeps, ConsumeKeeps DEF VerifyStep
<1> QED BY <1>1, <1>2, <1>3, TickKeeps DEF Next

(* Every reachable state is well typed; codes belong to students, older ones *)
(* are spent, and no verification holds a code that was dead when it came.   *)
THEOREM AccessInvariant == Spec => []AccessInv
BY AccessInit, AccessNext, PTL DEF Spec

(* For any requests, a code that was stored when another was asked for is    *)
(* spent by the time the other is stored.                                    *)
THEOREM OlderCodesTheorem == Spec => []OlderCodesSpent
<1>1. AccessInv => OlderCodesSpent
    BY DEF AccessInv, Sending, OlderCodesSpent
<1> QED BY <1>1, AccessInvariant, PTL

(* For any requests and attempts, a verification that comes in with a spent  *)
(* or expired code opens no session.                                         *)
THEOREM SpentCodeTheorem == Spec => []SpentCodeRefused
<1>1. AccessInv => SpentCodeRefused
    BY DEF AccessInv, Verifying, Holds, SpentCodeRefused
<1> QED BY <1>1, AccessInvariant, PTL

(* For any users, schools and requests, codes are stored for registered      *)
(* students that are no staff, and for nobody else.                          *)
THEOREM StudentsTheorem == Spec => []CodesForStudents
<1>1. AccessInv => CodesForStudents
    BY DEF AccessInv, Sending, Registrations, CodesForStudents
<1> QED BY <1>1, AccessInvariant, PTL

(* For any number of attempts that overlap, the last one allowed spends the  *)
(* code.                                                                     *)
THEOREM AttemptsTheorem == Spec => []SpentByAttempts
<1>1. AccessInv => SpentByAttempts
    BY DEF AccessInv, Sending, SpentByAttempts
<1> QED BY <1>1, AccessInvariant, PTL
=============================================================================
