---------------------------- MODULE StudentAccess ----------------------------
(***************************************************************************)
(* users_service: how a student gets in.  RegisterStudentWithKey creates or *)
(* finds the user, RequestStudentOTP sends a one-time code, and             *)
(* VerifyStudentOTP trades the code for a session.                         *)
(*                                                                         *)
(* The shared state is the tables users, user_permission_group and          *)
(* otp_token.  A handler runs one SQL statement, or the sending of the      *)
(* mail, per action; any may fail.  A code is named by the request that     *)
(* generated it: two codes never collide here, of a million there.          *)
(* An e-mail names its user.  The key was validated by the gateway.         *)
(***************************************************************************)
EXTENDS Integers, FiniteSets

CONSTANTS Users, Schools,
          Signups,      \* RegisterStudentWithKey requests
          Requests,     \* RequestStudentOTP requests
          Verifies,     \* VerifyStudentOTP requests
          Staff,        \* users that are not students from the start
          MaxTime, TTL, \* last instant, otpTTL
          MaxAttempts,  \* otp_token.max_attempts
          NoOne         \* none of the above

Codes == Signups \cup Requests
Wrong == NoOne          \* a guess that is no code
Ptr(S) == { p \in SUBSET S : \A v, w \in p : v = w }

ASSUME RequestsAssumption == Signups \cap Requests = {}
ASSUME NoOneAssumption == NoOne \notin Users \cup Schools \cup Codes
ASSUME BoundsAssumption ==
    /\ MaxTime \in Nat /\ TTL \in Nat \ {0} /\ MaxAttempts \in Nat \ {0}
ASSUME StaffAssumption == Staff \subseteq Users

VARIABLES
    school,    \* users.school_id of each e-mail; {} for one not registered
    active,    \* the users with users.active = 1
    student,   \* the users in the group student_permissions
    otp,       \* table otp_token
    send,      \* the requests that send a code: Signups and Requests
    verify,    \* the Verify requests
    now

users == <<school, active, student>>
vars == <<users, otp, send, verify, now>>

Otp == [st: {"none", "active", "consumed"}, user: Users \cup {NoOne},
        issued: Nat, tries: Nat]

\* `before` is history: the codes that were stored when the request came in.
Send == [pc: {"idle", "create", "group", "reactivate", "invalidate", "save",
              "mail", "drop", "done"},
         user: Users \cup {NoOne}, school: Schools \cup {NoOne},
         issued: Nat, before: SUBSET Codes,
         result: {"none", "sent", "silent", "taken", "undelivered", "failed"}]

\* `otp` is the row that was compared with, `guess` the code that was sent;
\* `stale` is history: the guess no longer worked when the request came in.
Verify == [pc: {"idle", "find", "compare", "increment", "consume", "issue",
                "done"},
           user: Users \cup {NoOne}, guess: Codes \cup {Wrong}, stale: BOOLEAN,
           otp: Codes \cup {NoOne},
           result: {"none", "ok", "invalid", "failed"}]

Init ==
    /\ school = [u \in Users |-> IF u \in Staff THEN {NoOne} ELSE {}]
    /\ active = Staff
    /\ student = {}
    /\ otp = [c \in Codes |-> [st |-> "none", user |-> NoOne, issued |-> 0,
                               tries |-> 0]]
    /\ send = [c \in Codes |-> [pc |-> "idle", user |-> NoOne, school |-> NoOne,
                                issued |-> 0, before |-> {}, result |-> "none"]]
    /\ verify = [v \in Verifies |-> [pc |-> "idle", user |-> NoOne,
                                     guess |-> Wrong, stale |-> FALSE,
                                     otp |-> NoOne,
                                     result |-> "none"]]
    /\ now = 0

Tick == /\ now < MaxTime
        /\ now' = now + 1
        /\ UNCHANGED <<users, otp, send, verify>>

Registered(u) == school[u] # {}

\* The codes that work for a user: neither consumed nor expired.
Live(u) == { c \in Codes : /\ otp[c].st = "active" /\ otp[c].user = u
                           /\ now < otp[c].issued + TTL }

\* An administrator deactivates a user.
Deactivate(u) == /\ u \in active
                 /\ active' = active \ {u}
                 /\ UNCHANGED <<school, student, otp, send, verify, now>>

(***************************************************************************)
(* Sending a code                                                          *)
(***************************************************************************)

SendTo(c, p) == send' = [send EXCEPT ![c].pc = p]
SendEnds(c, r) == send' = [send EXCEPT ![c].pc = "done", ![c].result = r]

Stored == { c \in Codes : otp[c].st # "none" }

Begun(c, u, s, p, r) ==
    send' = [send EXCEPT ![c] = [@ EXCEPT !.user = u, !.school = s, !.pc = p,
                                          !.result = r, !.before = Stored]]

\* RequestStudentOTP up to its checks: silence for whom is not a student.
RequestBegin(c) ==
    /\ c \in Requests /\ send[c].pc = "idle"
    /\ \E u \in Users :
         LET known == Registered(u) /\ u \in active /\ u \in student IN
         Begun(c, u, NoOne, IF known THEN "invalidate" ELSE "done",
               IF known THEN "none" ELSE "silent")
    /\ UNCHANGED <<users, otp, verify, now>>

\* RegisterStudentWithKey of a student of the school or of nobody yet; silence
\* for staff and for a student of another school.
SignupBegin(c) ==
    /\ c \in Signups /\ send[c].pc = "idle"
    /\ \E u \in Users, s \in Schools :
         \/ ~ Registered(u) /\ Begun(c, u, s, "create", "none")
         \/ /\ Registered(u)
            /\ LET same == u \in student /\ s \in school[u] IN
               Begun(c, u, s, IF ~ same THEN "done"
                              ELSE IF u \in active THEN "invalidate"
                              ELSE "reactivate",
                     IF same THEN "none" ELSE "silent")
    /\ UNCHANGED <<users, otp, verify, now>>

\* Save: INSERT, refused when the e-mail was registered meanwhile.
SignupCreate(c) ==
    /\ send[c].pc = "create"
    /\ LET u == send[c].user IN
       \/ /\ Registered(u)
          /\ SendEnds(c, "taken")
          /\ UNCHANGED <<school, active>>
       \/ /\ ~ Registered(u)
          /\ school' = [school EXCEPT ![u] = {send[c].school}]
          /\ active' = active \cup {u}
          /\ SendTo(c, "group")
    /\ UNCHANGED <<student, otp, verify, now>>

\* AssignGroupToUser
SignupGroup(c) ==
    /\ send[c].pc = "group"
    /\ student' = student \cup {send[c].user}
    /\ SendTo(c, "invalidate")
    /\ UNCHANGED <<school, active, otp, verify, now>>

\* SetActive of a student that came back.
SignupReactivate(c) ==
    /\ send[c].pc = "reactivate"
    /\ active' = active \cup {send[c].user}
    /\ SendTo(c, "invalidate")
    /\ UNCHANGED <<school, student, otp, verify, now>>

\* Variant: the codes sent before are left alone.
InvalidateNothing(c) ==
    /\ send[c].pc = "invalidate"
    /\ send' = [send EXCEPT ![c].pc = "save", ![c].issued = now]
    /\ UNCHANGED <<users, otp, verify, now>>

\* InvalidateAllForUser; then the code is generated and dated.
Invalidate(c) ==
    /\ send[c].pc = "invalidate"
    /\ otp' = [d \in Codes |->
                 IF otp[d].user = send[c].user /\ otp[d].st = "active"
                 THEN [otp[d] EXCEPT !.st = "consumed"] ELSE otp[d]]
    /\ send' = [send EXCEPT ![c].pc = "save", ![c].issued = now]
    /\ UNCHANGED <<users, verify, now>>

SaveOtp(c) ==
    /\ send[c].pc = "save"
    /\ otp' = [otp EXCEPT ![c] = [st |-> "active", user |-> send[c].user,
                                  issued |-> send[c].issued, tries |-> 0]]
    /\ SendTo(c, "mail")
    /\ UNCHANGED <<users, verify, now>>

Mail(c) ==
    /\ send[c].pc = "mail"
    /\ SendEnds(c, "sent") \/ SendTo(c, "drop")
    /\ UNCHANGED <<users, otp, verify, now>>

Spent(c) == [otp EXCEPT ![c].st = IF @ = "active" THEN "consumed" ELSE @]

\* A code that could not be mailed is consumed; an error there is ignored.
Drop(c) ==
    /\ send[c].pc = "drop"
    /\ otp' \in {otp, Spent(c)}
    /\ SendEnds(c, "undelivered")
    /\ UNCHANGED <<users, verify, now>>

SendFails(c) ==
    /\ send[c].pc \in {"create", "group", "reactivate", "invalidate", "save"}
    /\ SendEnds(c, "failed")
    /\ UNCHANGED <<users, otp, verify, now>>

(***************************************************************************)
(* VerifyStudentOTP                                                        *)
(***************************************************************************)

VerifyTo(v, p) == verify' = [verify EXCEPT ![v].pc = p]
VerifyEnds(v, r) == verify' = [verify EXCEPT ![v].pc = "done", ![v].result = r]

\* What a student can type: a wrong code, or one that was mailed, whatever the
\* mail server answered.
Mailed == { c \in Codes : \/ send[c].pc = "drop"
                          \/ send[c].result \in {"sent", "undelivered"} }

VerifyBegin(v) ==
    /\ verify[v].pc = "idle"
    /\ \E u \in Users, g \in Mailed \cup {Wrong} :
         LET known == Registered(u) /\ u \in active IN
         verify' = [verify EXCEPT ![v] =
                      [@ EXCEPT !.user = u, !.guess = g,
                                !.stale = g \in Codes /\ g \notin Live(otp[g].user),
                                !.pc = IF known THEN "find" ELSE "done",
                                !.result = IF known THEN "none" ELSE "invalid"]]
    /\ UNCHANGED <<users, otp, send, now>>

\* Variant: consumed codes are found too.
FindAnyOtp(v) ==
    /\ verify[v].pc = "find"
    /\ \E c \in Stored :
         /\ otp[c].user = verify[v].user
         /\ verify' = [verify EXCEPT ![v].pc = "compare", ![v].otp = c]
    /\ UNCHANGED <<users, otp, send, now>>

\* FindActiveByUser: TOP 1 ORDER BY issued_at DESC.
FindActive(v) ==
    /\ verify[v].pc = "find"
    /\ LET live == Live(verify[v].user) IN
       \/ live = {} /\ VerifyEnds(v, "invalid")
       \/ \E c \in live :
            /\ \A d \in live : otp[d].issued <= otp[c].issued
            /\ verify' = [verify EXCEPT ![v].pc = "compare", ![v].otp = c]
    /\ UNCHANGED <<users, otp, send, now>>

Compare(v) ==
    /\ verify[v].pc = "compare"
    /\ VerifyTo(v, IF verify[v].guess = verify[v].otp
                   THEN "consume" ELSE "increment")
    /\ UNCHANGED <<users, otp, send, now>>

\* IncrementAttempts: the last attempt consumes the code.
IncrementAttempts(v) ==
    /\ verify[v].pc = "increment"
    /\ LET c == verify[v].otp IN
       otp' = [otp EXCEPT ![c].tries = @ + 1,
                          ![c].st = IF otp[c].tries + 1 >= MaxAttempts THEN "consumed" ELSE @]
    /\ VerifyEnds(v, "invalid")
    /\ UNCHANGED <<users, send, now>>

\* Consume: the rows it affected are not looked at.
Consume(v) ==
    /\ verify[v].pc = "consume"
    /\ otp' = Spent(verify[v].otp)
    /\ VerifyTo(v, "issue")
    /\ UNCHANGED <<users, send, now>>

\* The permissions, the pair of tokens, and the INSERT of the refresh token.
Issue(v) ==
    /\ verify[v].pc = "issue"
    /\ VerifyEnds(v, "ok")
    /\ UNCHANGED <<users, otp, send, now>>

\* The error of IncrementAttempts is ignored, the answer being the same.
VerifyFails(v) ==
    /\ \/ verify[v].pc \in {"find", "consume", "issue"} /\ VerifyEnds(v, "failed")
       \/ verify[v].pc = "increment" /\ VerifyEnds(v, "invalid")
    /\ UNCHANGED <<users, otp, send, now>>

-----------------------------------------------------------------------------

SendStep(c) == \/ SignupCreate(c) \/ SignupGroup(c) \/ SignupReactivate(c)
               \/ Invalidate(c) \/ SaveOtp(c) \/ Mail(c) \/ Drop(c)

VerifyStep(v) == \/ FindActive(v) \/ Compare(v) \/ IncrementAttempts(v)
                 \/ Consume(v) \/ Issue(v)

Next == \/ \E c \in Codes : \/ RequestBegin(c) \/ SignupBegin(c)
                            \/ SendStep(c) \/ SendFails(c)
        \/ \E v \in Verifies : VerifyBegin(v) \/ VerifyStep(v) \/ VerifyFails(v)
        \/ \E u \in Users : Deactivate(u)
        \/ Tick

Spec == Init /\ [][Next]_vars
-----------------------------------------------------------------------------
(***************************************************************************)
(* Properties                                                              *)
(***************************************************************************)

TypeOK == /\ school \in [Users -> Ptr(Schools \cup {NoOne})]
          /\ active \subseteq Users
          /\ student \subseteq Users
          /\ otp \in [Codes -> Otp]
          /\ send \in [Codes -> Send]
          /\ verify \in [Verifies -> Verify]
          /\ now \in 0..MaxTime

(* A code that was stored when a request for another one came in is spent   *)
(* by the time the other is stored, mailed or reported undelivered: only    *)
(* requests that overlap leave a user with two codes.                       *)
OlderCodesSpent ==
    \A c \in Codes : send[c].pc \in {"save", "mail", "drop"} \/ otp[c].st # "none" =>
        \A d \in send[c].before : otp[d].user = send[c].user => otp[d].st = "consumed"

(* Every wrong attempt that was recorded counts, and the last one spends    *)
(* the code: however attempts overlap, a code with MaxAttempts of them is   *)
(* never found again.                                                       *)
SpentByAttempts ==
    \A c \in Codes : otp[c].tries >= MaxAttempts => otp[c].st = "consumed"

(* A code is only ever stored for a registered student: a registration cut  *)
(* short, a staff e-mail or one of another school never leads to a session. *)
CodesForStudents ==
    \A c \in Codes : otp[c].st # "none" =>
        /\ otp[c].user \in student /\ Registered(otp[c].user)
        /\ otp[c].user \notin Staff

(* A verification that comes in when a code is spent or has expired never   *)
(* opens a session with it.                                                *)
SpentCodeRefused ==
    \A v \in Verifies : verify[v].stale => verify[v].result # "ok"

(* What the README and the migration of otp_token say: a user has one       *)
(* active code at a time.                                                  *)
OneActiveCode == \A u \in Users : Cardinality(Live(u)) <= 1

(* What OTPToken says of itself: a code of a single use.                    *)
SingleUse ==
    \A v, w \in Verifies :
        verify[v].result = "ok" /\ verify[w].result = "ok"
            /\ verify[v].otp = verify[w].otp => v = w

(* What the README says: a code allows MaxAttempts wrong attempts.          *)
WrongAttempts(c) == { v \in Verifies : /\ verify[v].otp = c
                                       /\ verify[v].result = "invalid" }

AttemptsBounded == \A c \in Codes : Cardinality(WrongAttempts(c)) <= MaxAttempts

(* What RegisterStudentWithKey says: idempotent for e-mails that exist and  *)
(* belong to the same school, which get a code too.                        *)
SignupIdempotent ==
    \A c \in Signups : send[c].result = "silent" =>
        send[c].user \in Staff \/ send[c].school \notin school[send[c].user]
=============================================================================
