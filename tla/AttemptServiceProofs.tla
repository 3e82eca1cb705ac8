------------------------ MODULE AttemptServiceProofs ------------------------
(***************************************************************************)
(* Attempts and seats account for each other, grades are final and hold the *)
(* answers that were acknowledged, and late answers are refused, for any    *)
(* number of students, exams, keys and requests.                           *)
(***************************************************************************)
EXTENDS AttemptService, FiniteSetTheorems, TLAPS

\* What a start holds when it gets to a statement, `h` being the holders of the
\* keys: nothing is inserted for whom holds no seat, and a seat is not refused.
Ready(q, h) ==
    /\ q.pc # "idle" => q.exam \in Exams /\ q.user \in Users
    /\ q.pc # "done" => q.result = "none"
    /\ q.consumed => q.pc \in {"usage", "save", "winner", "done"} /\ q.result # "refused"
    /\ q.pc \in {"save", "winner"} => \A k \in q.key : q.user \in h[k]
    /\ q.pc = "usage" => q.consumed
    /\ q.pc = "aforo" => q.key = {}

\* The row a start inserts is its own, and is inserted last.
Rowed(s) == /\ attempt[s].st # "none" => start[s].pc = "done"
            /\ \A k \in attempt[s].key : attempt[s].user \in holders[k]

Writing(w) == write[w].pc \in {"delete", "insert"} =>
                  write[w].att \in Starts /\ write[w].q \in Questions
Finishing(f) == finish[f].pc \in {"list", "write"} => finish[f].att \in Starts

\* The seat of a student has a start to show for it that was not refused.
HoldersBought ==
    \A k \in Keys : \A u \in holders[k] :
        \E s \in Starts : /\ start[s].key = {k} /\ start[s].user = u
                         /\ start[s].consumed /\ start[s].result # "refused"

AttemptInv == /\ TypeOK
              /\ \A s \in Starts : Ready(start[s], holders) /\ Rowed(s)
              /\ HoldersBought
              /\ \A w \in Writes : Writing(w)
              /\ \A f \in Finishes : Finishing(f)

-----------------------------------------------------------------------------

(* The rows and the requests have their fields, each of its type.            *)
LEMMA Fields ==
    ASSUME TypeOK
    PROVE  /\ \A s \in Starts :
                /\ attempt[s] \in Attempt /\ start[s] \in Start /\ answer[s] \in Sheet
                /\ start[s].exam \in Exams \cup {NoOne} /\ start[s].user \in Users \cup {NoOne}
                /\ start[s].key \in Ptr(Keys) /\ start[s].consumed \in BOOLEAN
                /\ start[s].result \in {"none", "created", "reused", "refused", "failed"}
                /\ attempt[s].st \in {"none", "open", "submitted"}
           /\ \A w \in Writes :
                /\ write[w] \in Write /\ write[w].rows \subseteq Rows
                /\ write[w].gone \subseteq Rows
           /\ \A f \in Finishes : finish[f] \in Finish /\ finish[f].read \in Ptr(Sheet)
<1>1. ASSUME NEW s \in Starts
      PROVE  /\ attempt[s] \in Attempt /\ start[s] \in Start /\ answer[s] \in Sheet
             /\ start[s].exam \in Exams \cup {NoOne} /\ start[s].user \in Users \cup {NoOne}
             /\ start[s].key \in Ptr(Keys) /\ start[s].consumed \in BOOLEAN
             /\ start[s].result \in {"none", "created", "reused", "refused", "failed"}
             /\ attempt[s].st \in {"none", "open", "submitted"}
    <2>1. attempt[s] \in Attempt /\ start[s] \in Start /\ answer[s] \in Sheet
        BY DEF TypeOK
    <2>2. attempt[s].st \in {"none", "open", "submitted"}
        BY <2>1 DEF Attempt
    <2> QED BY <2>1, <2>2 DEF Start
<1>2. ASSUME NEW w \in Writes
      PROVE  /\ write[w] \in Write /\ write[w].rows \subseteq Rows
             /\ write[w].gone \subseteq Rows
    <2>1. write[w] \in Write
        BY DEF TypeOK
    <2> QED BY <2>1 DEF Write
<1>3. ASSUME NEW f \in Finishes PROVE finish[f] \in Finish /\ finish[f].read \in Ptr(Sheet)
    <2>1. finish[f] \in Finish
        BY DEF TypeOK
    <2> QED BY <2>1 DEF Finish
<1> QED BY <1>1, <1>2, <1>3

(* The first state.                                                          *)
LEMMA AttemptInit == Init => AttemptInv
<1> SUFFICES ASSUME Init PROVE AttemptInv
    OBVIOUS
<1>1. {} \in Ptr(Keys) /\ {} \in Ptr(Sheet)
    BY DEF Ptr
<1>2. /\ attempt \in [Starts -> Attempt]
      /\ \A s \in Starts : attempt[s].st = "none" /\ attempt[s].key = {}
    BY <1>1 DEF Init, NoAttempt, Attempt
<1>3. answer \in [Starts -> Sheet]
    BY DEF Init, Sheet
<1>4. /\ start \in [Starts -> Start]
      /\ \A s \in Starts :
            start[s].pc = "idle" /\ start[s].result = "none" /\ start[s].consumed = FALSE
    <2>1. {} \in Ptr(Starts)
        BY DEF Ptr
    <2> QED BY <1>1, <2>1 DEF Init, Start
<1>5. write \in [Writes -> Write] /\ \A w \in Writes : write[w].pc = "idle"
    BY DEF Init, Write
<1>6. finish \in [Finishes -> Finish] /\ \A f \in Finishes : finish[f].pc = "idle"
    BY <1>1 DEF Init, Finish
<1>7. /\ open \subseteq Exams /\ usable \subseteq Keys /\ taken \in [Keys -> Nat]
      /\ holders \in [Keys -> SUBSET Users] /\ now \in 0..MaxTime
      /\ \A k \in Keys : holders[k] = {}
    BY TimeAssumption DEF Init
<1>8. TypeOK
    BY <1>2, <1>3, <1>4, <1>5, <1>6, <1>7 DEF TypeOK
<1>9. \A s \in Starts : Ready(start[s], holders) /\ Rowed(s)
    BY <1>2, <1>4 DEF Ready, Rowed
<1>10. HoldersBought
    BY <1>7 DEF HoldersBought
<1> QED BY <1>5, <1>6, <1>8, <1>9, <1>10 DEF AttemptInv, Writing, Finishing

(* A start takes its next record, and perhaps a seat: what it took it        *)
(* accounts for, and what it held it keeps.                                  *)
LEMMA StartMoves ==
    ASSUME AttemptInv, NEW s \in Starts, NEW q \in Start, start' = [start EXCEPT ![s] = q],
           UNCHANGED <<tables, open, usable, write, finish, now>>,
           taken' \in [Keys -> Nat], holders' \in [Keys -> SUBSET Users],
           \A k \in Keys : holders[k] \subseteq holders'[k],
           \A k \in Keys : \A u \in holders'[k] :
              u \in holders[k] \/ (q.key = {k} /\ q.user = u /\ q.consumed),
           start[s].consumed => q.key = start[s].key /\ q.user = start[s].user /\ q.consumed,
           Ready(q, holders'), start[s].pc # "done"
    PROVE  AttemptInv'
<1>1. TypeOK
    BY DEF AttemptInv
<1>2. /\ start' \in [Starts -> Start] /\ start'[s] = q
      /\ \A t \in Starts : t # s => start'[t] = start[t]
    BY <1>1 DEF TypeOK
<1>3. TypeOK'
    BY <1>1, <1>2 DEF TypeOK, tables
<1>4. ASSUME NEW t \in Starts PROVE Ready(start'[t], holders')
    <2>1. CASE t = s
        BY <2>1, <1>2
    <2>2. CASE t # s
        <3>1. Ready(start[t], holders) /\ start'[t] = start[t]
            BY <2>2, <1>2 DEF AttemptInv
        <3>2. start[t].key \subseteq Keys
            BY <1>1, Fields DEF Ptr
        <3> QED BY <3>1, <3>2 DEF Ready
    <2> QED BY <2>1, <2>2
<1>5. ASSUME NEW t \in Starts PROVE Rowed(t)'
    <2>1. Rowed(t) /\ attempt' = attempt /\ attempt[t] \in Attempt
        BY <1>1, Fields DEF AttemptInv, tables
    <2>2. attempt[t].key \subseteq Keys
        BY <2>1 DEF Attempt, Ptr
    <2>3. attempt[t].st # "none" => start'[t].pc = "done"
        BY <2>1, <1>2 DEF Rowed
    <2> QED BY <2>1, <2>2, <2>3 DEF Rowed
<1>6. HoldersBought'
    <2> SUFFICES ASSUME NEW k \in Keys, NEW u \in holders'[k]
                 PROVE  \E t \in Starts : /\ start'[t].key = {k} /\ start'[t].user = u
                                          /\ start'[t].consumed /\ start'[t].result # "refused"
        BY DEF HoldersBought
    <2>1. q.consumed => q.result # "refused"
        BY DEF Ready
    <2>2. CASE u \in holders[k]
        <3>1. PICK t \in Starts : /\ start[t].key = {k} /\ start[t].user = u
                                  /\ start[t].consumed /\ start[t].result # "refused"
            BY <2>2 DEF AttemptInv, HoldersBought
        <3>2. CASE t = s
            BY <3>1, <3>2, <2>1, <1>2
        <3>3. CASE t # s
            BY <3>1, <3>3, <1>2
        <3> QED BY <3>2, <3>3
    <2>3. CASE u \notin holders[k]
        BY <2>1, <2>3, <1>2
    <2> QED BY <2>2, <2>3
<1>7. (\A w \in Writes : Writing(w)') /\ \A f \in Finishes : Finishing(f)'
    BY DEF AttemptInv, Writing, Finishing
<1> QED BY <1>3, <1>4, <1>5, <1>6, <1>7 DEF AttemptInv

(* The record of a start that moves on, ends, or finds another's attempt.    *)
LEMMA StartRecords ==
    ASSUME TypeOK, NEW s \in Starts,
           NEW p \in {"count", "find", "exam", "aforo", "consume", "save", "winner", "done"},
           NEW e \in {"none", "created", "reused", "refused", "failed"},
           \/ StartTo(s, p) /\ e = start[s].result
           \/ StartEnds(s, e) /\ p = "done"
           \/ (\E a \in Starts : Reuse(s, a)) /\ p = "done" /\ e = "reused"
    PROVE  \E q \in Start :
             /\ start' = [start EXCEPT ![s] = q] /\ q.pc = p /\ q.result = e
             /\ q.exam = start[s].exam /\ q.user = start[s].user /\ q.key = start[s].key
             /\ q.consumed = start[s].consumed
<1>1. start[s] \in Start
    BY Fields
<1>2. CASE StartTo(s, p) /\ e = start[s].result
    <2> DEFINE q == [start[s] EXCEPT !.pc = p]
    <2>1. /\ q \in Start /\ q.pc = p /\ q.result = e /\ q.exam = start[s].exam
          /\ q.user = start[s].user /\ q.key = start[s].key /\ q.consumed = start[s].consumed
        BY <1>1, <1>2 DEF Start
    <2>2. start' = [start EXCEPT ![s] = q]
        BY <1>2 DEF StartTo
    <2> HIDE DEF q
    <2> QED BY <2>1, <2>2
<1>3. CASE StartEnds(s, e) /\ p = "done"
    <2> DEFINE q == [start[s] EXCEPT !.pc = "done", !.result = e]
    <2>1. /\ q \in Start /\ q.pc = p /\ q.result = e /\ q.exam = start[s].exam
          /\ q.user = start[s].user /\ q.key = start[s].key /\ q.consumed = start[s].consumed
        BY <1>1, <1>3 DEF Start
    <2>2. start' = [start EXCEPT ![s] = q]
        BY <1>3 DEF StartEnds
    <2> HIDE DEF q
    <2> QED BY <2>1, <2>2
<1>4. CASE (\E a \in Starts : Reuse(s, a)) /\ p = "done" /\ e = "reused"
    <2>1. PICK a \in Starts : Reuse(s, a)
        BY <1>4
    <2>2. {a} \in Ptr(Starts)
        BY DEF Ptr
    <2> DEFINE q == [start[s] EXCEPT !.pc = "done", !.got = {a}, !.result = "reused"]
    <2>3. /\ q \in Start /\ q.pc = p /\ q.result = e /\ q.exam = start[s].exam
          /\ q.user = start[s].user /\ q.key = start[s].key /\ q.consumed = start[s].consumed
        BY <1>1, <1>4, <2>2 DEF Start
    <2>4. start' = [start EXCEPT ![s] = q]
        BY <2>1 DEF Reuse
    <2> HIDE DEF q
    <2> QED BY <2>3, <2>4
<1> QED BY <1>2, <1>3, <1>4

(* A start that leaves the keys alone moves on to a statement that asks no   *)
(* more than it holds, or ends.                                              *)
LEMMA StartGoes ==
    ASSUME AttemptInv, NEW s \in Starts, start[s].pc \notin {"idle", "done"},
           NEW p \in {"count", "find", "exam", "aforo", "consume", "save", "winner", "done"},
           NEW e \in {"none", "created", "reused", "refused", "failed"},
           \/ StartTo(s, p) /\ e = start[s].result
           \/ StartEnds(s, e) /\ p = "done"
           \/ (\E a \in Starts : Reuse(s, a)) /\ p = "done" /\ e = "reused",
           UNCHANGED <<tables, open, keys, write, finish, now>>,
           p # "done" => e = "none",
           start[s].consumed => p \in {"winner", "done"} /\ e # "refused",
           p = "save" => start[s].key = {},
           p = "winner" => start[s].pc = "save",
           p = "aforo" => start[s].key = {}
    PROVE  AttemptInv'
<1>1. TypeOK /\ Ready(start[s], holders) /\ UNCHANGED <<usable, taken, holders>>
    BY DEF AttemptInv, keys
<1>2. PICK q \in Start :
         /\ start' = [start EXCEPT ![s] = q] /\ q.pc = p /\ q.result = e
         /\ q.exam = start[s].exam /\ q.user = start[s].user /\ q.key = start[s].key
         /\ q.consumed = start[s].consumed
    BY <1>1, StartRecords
<1>3. Ready(q, holders')
    BY <1>1, <1>2 DEF Ready
<1>4. taken' \in [Keys -> Nat] /\ holders' \in [Keys -> SUBSET Users]
    BY <1>1 DEF TypeOK
<1> QED BY <1>1, <1>2, <1>3, <1>4, StartMoves

(* A request comes in; it is refused at once when its key is not usable.     *)
LEMMA BeginKeeps ==
    ASSUME AttemptInv, NEW s \in Starts, StartBegin(s)
    PROVE  AttemptInv'
<1>0. /\ TypeOK /\ Ready(start[s], holders) /\ start[s].pc = "idle"
      /\ UNCHANGED <<tables, open, usable, taken, holders, write, finish, now>>
    BY DEF AttemptInv, StartBegin, InStart, keys
<1> DEFINE was == { a \in Starts : attempt[a].st # "none" }
           sub == { a \in Starts : attempt[a].st = "submitted" }
<1>1. PICK e \in Exams, u \in Users, k \in Ptr(Keys), p \in {"find", "gate", "done"},
           r \in {"none", "refused"} :
         /\ start' = [start EXCEPT ![s] = [start[s] EXCEPT !.exam = e, !.user = u, !.key = k,
                                             !.there = was, !.spent = sub,
                                             !.pc = p, !.result = r]]
         /\ p # "done" => r = "none"
    <2>1. PICK e \in Exams, u \in Users, k \in Ptr(Keys) :
            start' = [start EXCEPT ![s] =
                        [start[s] EXCEPT !.exam = e, !.user = u, !.key = k,
                                  !.there = was, !.spent = sub,
                                  !.pc = IF k = {} THEN "find"
                                         ELSE IF k \subseteq usable THEN "gate"
                                         ELSE "done",
                                  !.result = IF k \subseteq usable THEN "none"
                                             ELSE "refused"]]
        BY DEF StartBegin
    <2> HIDE DEF was, sub
    <2>2. CASE k = {}
        BY <2>1, <2>2
    <2>3. CASE k # {} /\ k \subseteq usable
        BY <2>1, <2>3
    <2>4. CASE ~ (k \subseteq usable)
        <3>1. k # {}
            BY <2>4
        <3> QED BY <2>1, <2>4, <3>1
    <2> QED BY <2>2, <2>3, <2>4
<1>a. was \subseteq Starts /\ sub \subseteq Starts
    OBVIOUS
<1> HIDE DEF was, sub
<1> DEFINE q == [start[s] EXCEPT !.exam = e, !.user = u, !.key = k, !.there = was, !.spent = sub,
                                 !.pc = p, !.result = r]
<1>2. /\ q \in Start /\ q.pc = p /\ q.result = r /\ q.exam = e /\ q.user = u /\ q.key = k
      /\ q.consumed = start[s].consumed
    <2>1. start[s] \in Start
        BY <1>0, Fields
    <2> QED BY <2>1, <1>a DEF Start
<1>3. start' = [start EXCEPT ![s] = q]
    BY <1>1
<1> HIDE DEF q
<1>4. ~ start[s].consumed /\ ~ q.consumed
    BY <1>0, <1>2 DEF Ready
<1>5. Ready(q, holders')
    BY <1>1, <1>2, <1>4 DEF Ready
<1>6. taken' \in [Keys -> Nat] /\ holders' \in [Keys -> SUBSET Users]
    BY <1>0 DEF TypeOK
<1> QED BY <1>0, <1>2, <1>3, <1>4, <1>5, <1>6, StartMoves

(* The statements of a start that leave the keys and the tables alone.        *)
LEMMA StatementsKeep ==
    ASSUME AttemptInv, NEW s \in Starts,
           \/ StartGate(s) \/ StartCount(s) \/ StartFind(s) \/ StartExam(s) \/ StartAforo(s)
           \/ StartWinner(s) \/ StartFails(s)
    PROVE  AttemptInv'
<1>0. /\ TypeOK /\ Ready(start[s], holders) /\ start[s].pc \notin {"idle", "done"}
      /\ UNCHANGED <<tables, open, keys, write, finish, now>>
      /\ start[s].result = "none"
    <2>1. /\ TypeOK /\ Ready(start[s], holders) /\ start[s].pc \notin {"idle", "done"}
          /\ UNCHANGED <<tables, open, keys, write, finish, now>>
        BY DEF AttemptInv, StartGate, StartCount, StartFind, StartExam, StartAforo, StartWinner,
               StartFails, InStart
    <2> QED BY <2>1 DEF Ready
<1>1. CASE StartGate(s)
    <2>1. PICK p \in {"count", "find"} : StartTo(s, p)
        BY <1>1 DEF StartGate
    <2>2. ~ start[s].consumed
        BY <1>0, <1>1 DEF StartGate, InStart, Ready
    <2> QED BY <2>1, <2>2, <1>0, StartGoes
<1>2. CASE StartCount(s)
    <2>1. StartEnds(s, "refused") \/ StartTo(s, "find")
        BY <1>2 DEF StartCount
    <2>2. ~ start[s].consumed
        BY <1>0, <1>2 DEF StartCount, InStart, Ready
    <2> QED BY <2>1, <2>2, <1>0, StartGoes
<1>3. CASE StartFind(s)
    <2>1. (\E a \in Starts : Reuse(s, a)) \/ StartTo(s, "exam")
        BY <1>3 DEF StartFind, Active
    <2>2. ~ start[s].consumed
        BY <1>0, <1>3 DEF StartFind, InStart, Ready
    <2> QED BY <2>1, <2>2, <1>0, StartGoes
<1>4. CASE StartExam(s)
    <2>1. \/ StartEnds(s, "refused")
          \/ start[s].key # {} /\ StartTo(s, "consume")
          \/ start[s].key = {} /\ (StartTo(s, "aforo") \/ StartTo(s, "save"))
        BY <1>4 DEF StartExam
    <2>2. ~ start[s].consumed
        BY <1>0, <1>4 DEF StartExam, InStart, Ready
    <2>3. CASE StartEnds(s, "refused")
        BY <2>2, <2>3, <1>0, StartGoes
    <2>4. CASE start[s].key # {} /\ StartTo(s, "consume")
        BY <2>2, <2>4, <1>0, StartGoes
    <2>5. CASE start[s].key = {} /\ (StartTo(s, "aforo") \/ StartTo(s, "save"))
        BY <2>2, <2>5, <1>0, StartGoes
    <2> QED BY <2>1, <2>3, <2>4, <2>5
<1>5. CASE StartAforo(s)
    <2>1. StartEnds(s, "refused") \/ StartTo(s, "save")
        BY <1>5 DEF StartAforo
    <2>2. ~ start[s].consumed /\ start[s].key = {}
        BY <1>0, <1>5 DEF StartAforo, InStart, Ready
    <2> QED BY <2>1, <2>2, <1>0, StartGoes
<1>6. CASE StartWinner(s)
    <2>1. (\E a \in Starts : Reuse(s, a)) \/ StartEnds(s, "failed")
        BY <1>6 DEF StartWinner, Active
    <2> QED BY <2>1, <1>0, StartGoes
<1>7. CASE StartFails(s)
    <2>1. StartEnds(s, "failed")
        BY <1>7 DEF StartFails
    <2> QED BY <2>1, <1>0, StartGoes
<1> QED BY <1>1, <1>2, <1>3, <1>4, <1>5, <1>6, <1>7

(* The calls to keys_service: who is served holds a seat of the key.         *)
LEMMA ConsumeKeeps ==
    ASSUME AttemptInv, NEW s \in Starts, StartConsume(s) \/ StartUsage(s)
    PROVE  AttemptInv'
<1> DEFINE u == start[s].user
<1>0. /\ TypeOK /\ Ready(start[s], holders) /\ start[s].pc \in {"consume", "usage"}
      /\ UNCHANGED <<tables, open, usable, write, finish, now>>
      /\ start[s].result = "none" /\ start[s].exam \in Exams /\ u \in Users
      /\ start[s] \in Start
    <2>1. /\ TypeOK /\ Ready(start[s], holders) /\ start[s].pc \in {"consume", "usage"}
          /\ UNCHANGED <<tables, open, usable, write, finish, now>>
        BY DEF AttemptInv, StartConsume, StartUsage, InStart
    <2>2. start[s] \in Start
        BY <2>1, Fields
    <2> QED BY <2>1, <2>2 DEF Ready
<1>1. PICK k \in start[s].key :
         \/ u \in holders[k] /\ Served(s) /\ UNCHANGED <<taken, holders>>
         \/ TakesSeat(s, k) /\ UNCHANGED holders
         \/ /\ start[s].pc = "consume" /\ StartEnds(s, "refused")
            /\ UNCHANGED <<taken, holders>>
         \/ /\ holders' = [holders EXCEPT ![k] = @ \cup {u}] /\ UNCHANGED taken
            /\ Served(s) \/ StartEnds(s, "failed")
            /\ start[s].pc = "usage"
    BY DEF StartConsume, StartUsage, InStart
<1>2. k \in Keys /\ start[s].key = {k}
    <2>1. start[s].key \in Ptr(Keys)
        BY <1>0, Fields
    <2> QED BY <2>1 DEF Ptr
<1> HIDE DEF u
<1>3. taken \in [Keys -> Nat] /\ holders \in [Keys -> SUBSET Users]
    BY <1>0 DEF TypeOK
<1>4. CASE /\ start[s].pc = "consume" /\ StartEnds(s, "refused")
           /\ UNCHANGED <<taken, holders>>
    <2>1. ~ start[s].consumed
        BY <1>0, <1>4 DEF Ready
    <2> QED BY <2>1, <1>0, <1>4, StartGoes DEF keys
<1>5. ASSUME taken' \in [Keys -> Nat],
             holders' = holders \/ holders' = [holders EXCEPT ![k] = @ \cup {u}],
             NEW q \in Start, start' = [start EXCEPT ![s] = q], q.consumed,
             q.exam = start[s].exam, q.user = u, q.key = start[s].key,
             \/ q.pc = "done" /\ q.result = "failed"
             \/ q.pc = "usage" /\ q.result = "none"
             \/ q.pc = "save" /\ q.result = "none" /\ u \in holders'[k]
      PROVE  AttemptInv'
    <2>1. /\ holders' \in [Keys -> SUBSET Users] /\ \A j \in Keys : holders[j] \subseteq holders'[j]
          /\ \A j \in Keys : \A v \in holders'[j] : v \in holders[j] \/ (j = k /\ v = u)
        BY <1>0, <1>2, <1>3, <1>5
    <2>2. \A j \in Keys : \A v \in holders'[j] :
              v \in holders[j] \/ (q.key = {j} /\ q.user = v /\ q.consumed)
        BY <2>1, <1>2, <1>5
    <2>3. Ready(q, holders')
        BY <1>0, <1>2, <1>5 DEF Ready
    <2> QED BY <2>1, <2>2, <2>3, <1>0, <1>5, StartMoves DEF u
<1> DEFINE c == [start[s] EXCEPT !.pc = "save", !.consumed = TRUE]
           d == [start[s] EXCEPT !.pc = "usage", !.consumed = TRUE]
           e == [start[s] EXCEPT !.pc = "done", !.result = "failed"]
<1>6. /\ c \in Start /\ c.consumed /\ c.exam = start[s].exam /\ c.user = u
      /\ c.key = start[s].key /\ c.pc = "save" /\ c.result = "none"
    BY <1>0 DEF Start, u
<1>7. /\ d \in Start /\ d.consumed /\ d.exam = start[s].exam /\ d.user = u
      /\ d.key = start[s].key /\ d.pc = "usage" /\ d.result = "none"
    BY <1>0 DEF Start, u
<1>8. /\ e \in Start /\ e.consumed = start[s].consumed /\ e.exam = start[s].exam /\ e.user = u
      /\ e.key = start[s].key /\ e.pc = "done" /\ e.result = "failed"
    BY <1>0 DEF Start, u
<1>9. /\ Served(s) => start' = [start EXCEPT ![s] = c]
      /\ TakesSeat(s, k) => start' = [start EXCEPT ![s] = d]
      /\ StartEnds(s, "failed") => start' = [start EXCEPT ![s] = e]
    BY DEF Served, TakesSeat, StartEnds
<1> HIDE DEF c, d, e
<1>10. CASE u \in holders[k] /\ Served(s) /\ UNCHANGED <<taken, holders>>
    BY <1>3, <1>5, <1>6, <1>9, <1>10
<1>11. CASE TakesSeat(s, k) /\ UNCHANGED holders
    <2>1. taken' \in [Keys -> Nat]
        BY <1>2, <1>3, <1>11 DEF TakesSeat
    <2> QED BY <2>1, <1>5, <1>7, <1>9, <1>11
<1>12. CASE /\ holders' = [holders EXCEPT ![k] = @ \cup {u}] /\ UNCHANGED taken /\ Served(s)
    <2>1. u \in holders'[k]
        BY <1>2, <1>3, <1>12
    <2> QED BY <2>1, <1>3, <1>5, <1>6, <1>9, <1>12
<1>13. CASE /\ holders' = [holders EXCEPT ![k] = @ \cup {u}] /\ UNCHANGED taken
            /\ StartEnds(s, "failed") /\ start[s].pc = "usage"
    <2>1. start[s].consumed
        BY <1>0, <1>13 DEF Ready
    <2> QED BY <2>1, <1>3, <1>5, <1>8, <1>9, <1>13
<1> QED BY <1>1, <1>4, <1>10, <1>11, <1>12, <1>13 DEF u

(* The row is inserted, under a key whose seat its student holds.            *)
LEMMA SaveKeeps ==
    ASSUME AttemptInv, NEW s \in Starts, StartSave(s)
    PROVE  AttemptInv'
<1>0. /\ TypeOK /\ Ready(start[s], holders) /\ start[s].pc = "save" /\ start[s] \in Start
      /\ UNCHANGED <<answer, open, keys, write, finish, now>> /\ start[s].result = "none"
      /\ UNCHANGED <<usable, taken, holders>>
    <2>1. /\ TypeOK /\ Ready(start[s], holders) /\ start[s].pc = "save" /\ start[s] \in Start
          /\ UNCHANGED <<answer, open, keys, write, finish, now>>
        BY Fields DEF AttemptInv, StartSave, InStart
    <2> QED BY <2>1 DEF Ready, keys
<1>1. CASE StartTo(s, "winner") /\ UNCHANGED attempt
    BY <1>0, <1>1, StartGoes DEF tables
<1>2. CASE /\ attempt' = [attempt EXCEPT ![s] =
               [st |-> "open", exam |-> start[s].exam, user |-> start[s].user,
                key |-> start[s].key, startedAt |-> now,
                timer |-> ExamOf[start[s].exam].timer, grade |-> {}]]
           /\ start' = [start EXCEPT ![s].pc = "done", ![s].got = {s}, ![s].result = "created"]
    <2> DEFINE a == [st |-> "open", exam |-> start[s].exam, user |-> start[s].user,
                     key |-> start[s].key, startedAt |-> now,
                     timer |-> ExamOf[start[s].exam].timer, grade |-> {}]
               q == [start[s] EXCEPT !.pc = "done", !.got = {s}, !.result = "created"]
    <2>1. /\ start[s].exam \in Exams /\ start[s].user \in Users /\ start[s].key \in Ptr(Keys)
          /\ now \in Nat /\ {} \in Ptr(Sheet) /\ {s} \in Ptr(Starts)
        <3>1. start[s].key \in Ptr(Keys)
            BY <1>0, Fields
        <3>2. now \in Nat
            BY <1>0, TimeAssumption DEF TypeOK
        <3> QED BY <3>1, <3>2, <1>0 DEF Ready, Ptr
    <2>2. ExamOf[start[s].exam].timer \in Nat
        BY <2>1, ExamsAssumption
    <2>3. a \in Attempt /\ a.key = start[s].key /\ a.user = start[s].user
        BY <2>1, <2>2 DEF Attempt
    <2>4. /\ q \in Start /\ q.pc = "done" /\ q.result = "created" /\ q.exam = start[s].exam
          /\ q.user = start[s].user /\ q.key = start[s].key /\ q.consumed = start[s].consumed
        BY <2>1, <1>0 DEF Start
    <2>5. attempt' = [attempt EXCEPT ![s] = a] /\ start' = [start EXCEPT ![s] = q]
        BY <1>2
    <2> HIDE DEF a, q
    <2>6. /\ attempt' \in [Starts -> Attempt] /\ attempt'[s] = a
          /\ \A t \in Starts : t # s => attempt'[t] = attempt[t]
        BY <2>3, <2>5, <1>0 DEF TypeOK
    <2>7. /\ start' \in [Starts -> Start] /\ start'[s] = q
          /\ \A t \in Starts : t # s => start'[t] = start[t]
        BY <2>4, <2>5, <1>0 DEF TypeOK
    <2>8. TypeOK'
        BY <2>6, <2>7, <1>0 DEF TypeOK
    <2>9. ASSUME NEW t \in Starts PROVE Ready(start'[t], holders') /\ Rowed(t)'
        <3>1. CASE t = s
            BY <3>1, <2>1, <2>3, <2>4, <2>6, <2>7, <1>0 DEF Ready, Rowed
        <3>2. CASE t # s
            BY <3>2, <2>6, <2>7, <1>0 DEF AttemptInv, Ready, Rowed
        <3> QED BY <3>1, <3>2
    <2>10. HoldersBought'
        <3> SUFFICES ASSUME NEW k \in Keys, NEW u \in holders[k]
                     PROVE  \E t \in Starts : /\ start'[t].key = {k} /\ start'[t].user = u
                                              /\ start'[t].consumed /\ start'[t].result # "refused"
            BY <1>0 DEF HoldersBought
        <3>1. PICK t \in Starts : /\ start[t].key = {k} /\ start[t].user = u
                                  /\ start[t].consumed /\ start[t].result # "refused"
            BY DEF AttemptInv, HoldersBought
        <3>2. CASE t = s
            BY <3>1, <3>2, <2>4, <2>7
        <3>3. CASE t # s
            BY <3>1, <3>3, <2>7
        <3> QED BY <3>2, <3>3
    <2>11. (\A w \in Writes : Writing(w)') /\ \A f \in Finishes : Finishing(f)'
        BY <1>0 DEF AttemptInv, Writing, Finishing
    <2> QED BY <2>8, <2>9, <2>10, <2>11 DEF AttemptInv
<1> QED BY <1>1, <1>2 DEF StartSave

(* An Answer takes its next record and perhaps changes answers: attempts,    *)
(* starts and keys do not change.                                            *)
LEMMA WriteMoves ==
    ASSUME AttemptInv, NEW w \in Writes, NEW q \in Write, write' = [write EXCEPT ![w] = q],
           UNCHANGED <<attempt, open, keys, start, finish, now>>, answer' \in [Starts -> Sheet],
           q.pc \in {"delete", "insert"} => q.att \in Starts /\ q.q \in Questions
    PROVE  AttemptInv'
<1>1. TypeOK /\ UNCHANGED <<usable, taken, holders>>
    BY DEF AttemptInv, keys
<1>2. /\ write' \in [Writes -> Write] /\ write'[w] = q
      /\ \A v \in Writes : v # w => write'[v] = write[v]
    BY <1>1 DEF TypeOK
<1>3. TypeOK'
    BY <1>1, <1>2 DEF TypeOK
<1>4. (\A s \in Starts : Ready(start'[s], holders') /\ Rowed(s)') /\ HoldersBought'
    BY <1>1 DEF AttemptInv, Rowed, HoldersBought
<1>5. \A v \in Writes : Writing(v)'
    BY <1>2 DEF AttemptInv, Writing
<1>6. \A f \in Finishes : Finishing(f)'
    BY DEF AttemptInv, Finishing
<1> QED BY <1>3, <1>4, <1>5, <1>6 DEF AttemptInv

(* Answer, statement by statement.                                           *)
LEMMA AnswerKeeps ==
    ASSUME AttemptInv, NEW w \in Writes, AnswerBegin(w) \/ AnswerStep(w) \/ AnswerFails(w)
    PROVE  AttemptInv'
<1>0. /\ TypeOK /\ Writing(w) /\ write[w] \in Write /\ answer \in [Starts -> Sheet]
      /\ UNCHANGED <<attempt, open, keys, start, finish, now>>
      /\ write[w].rows \subseteq Rows /\ write[w].gone \subseteq Rows
    BY Fields DEF AttemptInv, TypeOK, AnswerBegin, AnswerStep, AnswerDelete, AnswerInsert,
                  AnswerFails, tables
<1>1. CASE AnswerBegin(w)
    <2>1. PICK a \in Starts, i \in Inputs, p \in {"delete", "done"}, r \in {"none", "refused"} :
             write' = [write EXCEPT ![w] = [write[w] EXCEPT !.att = a, !.q = i.q, !.rows = i.rows,
                                                            !.pc = p, !.result = r]]
        <3>1. PICK a \in Starts, i \in Inputs, taking \in BOOLEAN :
                 write' = [write EXCEPT ![w] =
                             [write[w] EXCEPT !.att = a, !.q = i.q, !.rows = i.rows,
                                       !.pc = IF taking THEN "delete" ELSE "done",
                                       !.result = IF taking THEN "none"
                                                  ELSE "refused"]]
            BY <1>1 DEF AnswerBegin
        <3> QED BY <3>1
    <2>2. i.q \in Questions /\ i.rows \subseteq Rows
        BY InputsAssumption
    <2> DEFINE q == [write[w] EXCEPT !.att = a, !.q = i.q, !.rows = i.rows, !.pc = p, !.result = r]
    <2>3. q \in Write /\ q.att = a /\ q.q = i.q
        BY <2>2, <1>0 DEF Write
    <2>4. write' = [write EXCEPT ![w] = q]
        BY <2>1
    <2> HIDE DEF q
    <2>5. answer' = answer
        BY <1>1 DEF AnswerBegin, tables
    <2> QED BY <2>2, <2>3, <2>4, <2>5, <1>0, WriteMoves
<1>2. CASE AnswerDelete(w)
    <2> DEFINE q == [write[w] EXCEPT !.pc = "insert", !.gone = Cell(w)]
    <2>1. write[w].att \in Starts /\ write[w].q \in Questions
        BY <1>0, <1>2 DEF AnswerDelete, Writing
    <2>2. Cell(w) \subseteq Rows
        BY <2>1, <1>0 DEF Cell, Sheet
    <2>3. q \in Write /\ q.att = write[w].att /\ q.q = write[w].q
        BY <2>2, <1>0 DEF Write
    <2>4. write' = [write EXCEPT ![w] = q]
        BY <1>2 DEF AnswerDelete
    <2> HIDE DEF q
    <2>5. answer' = answer
        BY <1>2 DEF AnswerDelete, tables
    <2> QED BY <2>1, <2>3, <2>4, <2>5, <1>0, WriteMoves
<1>3. ASSUME NEW r \in {"ok", "failed"}, answer' \in [Starts -> Sheet],
             write' = [write EXCEPT ![w].pc = "done", ![w].result = r]
      PROVE  AttemptInv'
    <2> DEFINE q == [write[w] EXCEPT !.pc = "done", !.result = r]
    <2>1. q \in Write /\ q.pc = "done"
        BY <1>0 DEF Write
    <2>2. write' = [write EXCEPT ![w] = q]
        BY <1>3
    <2> HIDE DEF q
    <2> QED BY <2>1, <2>2, <1>0, <1>3, WriteMoves
<1>4. CASE AnswerInsert(w)
    <2>1. write[w].att \in Starts /\ write[w].q \in Questions
        BY <1>0, <1>4 DEF AnswerInsert, Writing
    <2>2. CASE /\ answer' = [answer EXCEPT ![write[w].att][write[w].q] =
                                              (Cell(w) \ write[w].gone) \cup write[w].rows]
               /\ write' = [write EXCEPT ![w].pc = "done", ![w].result = "ok"]
        <3> DEFINE rows == (Cell(w) \ write[w].gone) \cup write[w].rows
                   sheet == [answer[write[w].att] EXCEPT ![write[w].q] = rows]
        <3>1. rows \subseteq Rows
            BY <2>1, <1>0 DEF Cell, Sheet
        <3> HIDE DEF rows
        <3>2. sheet \in Sheet
            BY <2>1, <3>1, <1>0 DEF Sheet
        <3>3. answer' = [answer EXCEPT ![write[w].att] = sheet]
            BY <2>2 DEF rows
        <3> HIDE DEF sheet
        <3>4. answer' \in [Starts -> Sheet]
            BY <2>1, <3>2, <3>3, <1>0
        <3> QED BY <2>2, <3>4, <1>3
    <2>3. CASE /\ write' = [write EXCEPT ![w].pc = "done", ![w].result = "failed"]
               /\ answer' = answer
        BY <2>3, <1>0, <1>3
    <2> QED BY <2>2, <2>3, <1>4 DEF AnswerInsert
<1>5. CASE AnswerFails(w)
    <2>1. answer' = answer
        BY <1>5 DEF AnswerFails, tables
    <2> QED BY <2>1, <1>0, <1>3, <1>5 DEF AnswerFails
<1> QED BY <1>1, <1>2, <1>4, <1>5 DEF AnswerStep

(* A Finish takes its next record, and perhaps submits an attempt.            *)
LEMMA FinishMoves ==
    ASSUME AttemptInv, NEW f \in Finishes, NEW q \in Finish, finish' = [finish EXCEPT ![f] = q],
           UNCHANGED <<answer, open, keys, start, write, now>>, attempt' \in [Starts -> Attempt],
           \A s \in Starts : /\ attempt'[s].key = attempt[s].key
                             /\ attempt'[s].user = attempt[s].user
                             /\ attempt[s].st = "none" => attempt'[s].st = "none",
           q.pc \in {"list", "write"} => q.att \in Starts
    PROVE  AttemptInv'
<1>1. TypeOK /\ UNCHANGED <<usable, taken, holders>>
    BY DEF AttemptInv, keys
<1>2. /\ finish' \in [Finishes -> Finish] /\ finish'[f] = q
      /\ \A g \in Finishes : g # f => finish'[g] = finish[g]
    BY <1>1 DEF TypeOK
<1>3. TypeOK'
    BY <1>1, <1>2 DEF TypeOK
<1>4. (\A s \in Starts : Ready(start'[s], holders')) /\ HoldersBought'
    BY <1>1 DEF AttemptInv, HoldersBought
<1>5. \A s \in Starts : Rowed(s)'
    BY <1>1 DEF AttemptInv, Rowed
<1>6. \A g \in Finishes : Finishing(g)'
    BY <1>2 DEF AttemptInv, Finishing
<1>7. \A w \in Writes : Writing(w)'
    BY DEF AttemptInv, Writing
<1> QED BY <1>3, <1>4, <1>5, <1>6, <1>7 DEF AttemptInv

(* FinishAttempt, statement by statement.                                    *)
LEMMA FinishKeeps ==
    ASSUME AttemptInv, NEW f \in Finishes, FinishBegin(f) \/ FinishStep(f) \/ FinishFails(f)
    PROVE  AttemptInv'
<1>0. /\ TypeOK /\ Finishing(f) /\ finish[f] \in Finish /\ finish[f].read \in Ptr(Sheet)
      /\ UNCHANGED <<answer, open, keys, start, write, now>>
      /\ attempt \in [Starts -> Attempt]
    BY Fields DEF AttemptInv, TypeOK, FinishBegin, FinishStep, FinishList, FinishWrite,
                  FinishFails, tables
<1>1. ASSUME NEW r \in {"won", "notFound", "scanError", "failed"}, FinishEnds(f, r)
      PROVE  \E q \in Finish : finish' = [finish EXCEPT ![f] = q] /\ q.pc = "done"
    <2> DEFINE q == [finish[f] EXCEPT !.pc = "done", !.result = r]
    <2>1. q \in Finish /\ q.pc = "done"
        BY <1>0 DEF Finish
    <2>2. finish' = [finish EXCEPT ![f] = q]
        BY <1>1 DEF FinishEnds
    <2> HIDE DEF q
    <2> QED BY <2>1, <2>2
<1>2. ASSUME attempt' = attempt, NEW r \in {"won", "notFound", "scanError", "failed"},
             FinishEnds(f, r)
      PROVE  AttemptInv'
    <2>1. PICK q \in Finish : finish' = [finish EXCEPT ![f] = q] /\ q.pc = "done"
        BY <1>1, <1>2
    <2> QED BY <2>1, <1>0, <1>2, FinishMoves
<1>3. CASE FinishBegin(f)
    <2>1. PICK a \in Starts, already \in BOOLEAN :
             finish' = [finish EXCEPT ![f] =
                [finish[f] EXCEPT !.att = a,
                          !.before = { w \in Writes : write[w].result = "ok" },
                          !.pc = IF already THEN "done" ELSE "list",
                          !.result = IF already THEN "already" ELSE "none"]]
        BY <1>3 DEF FinishBegin
    <2>2. PICK p \in {"done", "list"}, r \in {"already", "none"} :
             finish' = [finish EXCEPT ![f] =
                [finish[f] EXCEPT !.att = a,
                          !.before = { w \in Writes : write[w].result = "ok" },
                          !.pc = p, !.result = r]]
        BY <2>1
    <2> DEFINE q == [finish[f] EXCEPT !.att = a,
                         !.before = { w \in Writes : write[w].result = "ok" },
                         !.pc = p, !.result = r]
    <2>3. q \in Finish /\ q.att = a
        <3>1. { w \in Writes : write[w].result = "ok" } \subseteq Writes
            OBVIOUS
        <3> QED BY <3>1, <1>0 DEF Finish
    <2>4. finish' = [finish EXCEPT ![f] = q] /\ attempt' = attempt
        BY <2>2, <1>3 DEF FinishBegin, tables
    <2> HIDE DEF q
    <2> QED BY <2>3, <2>4, <1>0, FinishMoves
<1>4. CASE FinishList(f)
    <2>1. attempt' = attempt /\ finish[f].att \in Starts
        BY <1>0, <1>4 DEF FinishList, tables, Finishing
    <2>2. CASE FinishEnds(f, "scanError")
        BY <2>1, <2>2, <1>2
    <2>3. CASE finish' = [finish EXCEPT ![f].pc = "write", ![f].read = {answer[finish[f].att]}]
        <3>1. {answer[finish[f].att]} \in Ptr(Sheet)
            BY <2>1, <1>0, Fields DEF Ptr
        <3> DEFINE q == [finish[f] EXCEPT !.pc = "write", !.read = {answer[finish[f].att]}]
        <3>2. q \in Finish /\ q.att = finish[f].att
            BY <3>1, <1>0 DEF Finish
        <3>3. finish' = [finish EXCEPT ![f] = q]
            BY <2>3
        <3> HIDE DEF q
        <3> QED BY <2>1, <3>2, <3>3, <1>0, FinishMoves
    <2> QED BY <2>2, <2>3, <1>4 DEF FinishList
<1>5. CASE FinishWrite(f)
    <2> DEFINE a == finish[f].att
               row == [attempt[a] EXCEPT !.st = "submitted", !.grade = finish[f].read]
    <2>1. a \in Starts
        BY <1>0, <1>5 DEF FinishWrite, Finishing
    <2>2. CASE /\ attempt[a].st = "open" /\ FinishEnds(f, "won")
               /\ attempt' = [attempt EXCEPT ![a].st = "submitted", ![a].grade = finish[f].read]
        <3>1. attempt[a] \in Attempt
            BY <2>1, <1>0
        <3>2. row \in Attempt /\ row.key = attempt[a].key /\ row.user = attempt[a].user
            BY <3>1, <1>0 DEF Attempt
        <3>3. attempt' = [attempt EXCEPT ![a] = row]
            BY <2>2
        <3> HIDE DEF a, row
        <3>4. /\ attempt' \in [Starts -> Attempt] /\ attempt'[a] = row
              /\ \A s \in Starts : s # a => attempt'[s] = attempt[s]
            BY <2>1, <3>2, <3>3, <1>0
        <3>5. PICK q \in Finish : finish' = [finish EXCEPT ![f] = q] /\ q.pc = "done"
            BY <2>2, <1>1
        <3>6. \A s \in Starts : /\ attempt'[s].key = attempt[s].key
                                /\ attempt'[s].user = attempt[s].user
                                /\ attempt[s].st = "none" => attempt'[s].st = "none"
            BY <2>1, <2>2, <3>2, <3>4
        <3> QED BY <3>4, <3>5, <3>6, <1>0, FinishMoves
    <2>3. CASE FinishEnds(f, "notFound") /\ attempt' = attempt
        BY <2>3, <1>2
    <2> QED BY <2>2, <2>3, <1>5 DEF FinishWrite
<1>6. CASE FinishFails(f)
    BY <1>2, <1>6 DEF FinishFails, tables
<1> QED BY <1>3, <1>4, <1>5, <1>6 DEF FinishStep

(* The surroundings touch neither attempts nor seats.                         *)
LEMMA SurroundingsKeep ==
    ASSUME AttemptInv,
           \/ \E e \in Exams : ExamToggles(e)
           \/ \E k \in Keys : KeyCloses(k)
           \/ Tick
           \/ UNCHANGED vars
    PROVE  AttemptInv'
<1>1. TypeOK /\ MaxTime \in Nat
    BY TimeAssumption DEF AttemptInv
<1>2. /\ UNCHANGED <<attempt, answer, taken, holders, start, write, finish>>
      /\ open' \subseteq Exams /\ usable' \subseteq Keys /\ now' \in 0..MaxTime
    <2>1. CASE \E e \in Exams : ExamToggles(e)
        BY <2>1, <1>1 DEF ExamToggles, TypeOK, tables, keys
    <2>2. CASE \E k \in Keys : KeyCloses(k)
        BY <2>2, <1>1 DEF KeyCloses, TypeOK, tables
    <2>3. CASE Tick
        BY <2>3, <1>1 DEF Tick, TypeOK, tables, keys
    <2>4. CASE UNCHANGED vars
        BY <2>4, <1>1 DEF vars, TypeOK, tables, keys
    <2> QED BY <2>1, <2>2, <2>3, <2>4
<1>3. TypeOK'
    BY <1>1, <1>2 DEF TypeOK
<1>4. (\A s \in Starts : Ready(start'[s], holders') /\ Rowed(s)') /\ HoldersBought'
    BY <1>2 DEF AttemptInv, Rowed, HoldersBought
<1>5. (\A w \in Writes : Writing(w)') /\ \A f \in Finishes : Finishing(f)'
    BY <1>2 DEF AttemptInv, Writing, Finishing
<1> QED BY <1>3, <1>4, <1>5 DEF AttemptInv

(* Whatever runs, the invariant stays.                                       *)
LEMMA AttemptNext == AttemptInv /\ [Next]_vars => AttemptInv'
BY BeginKeeps, StatementsKeep, ConsumeKeeps, SaveKeeps, AnswerKeeps, FinishKeeps,
   SurroundingsKeep DEF Next, StartStep

(* Every reachable state is well typed; a start inserts its own row, last,   *)
(* under a key whose seat its student holds, and a seat is never refused.    *)
THEOREM AttemptsInvariant == Spec => []AttemptInv
BY AttemptInit, AttemptNext, PTL DEF Spec

(* For any students, keys and requests, an attempt under a key is of a       *)
(* student that keys_service has admitted to that key.                       *)
THEOREM AttemptsHoldSeatsTheorem == Spec => []AttemptsHoldSeats
<1>1. AttemptInv => AttemptsHoldSeats
    BY DEF AttemptInv, Rowed, AttemptsHoldSeats
<1> QED BY <1>1, AttemptsInvariant, PTL

(* Who runs touches whose rows: a start inserts its own, a Finish submits one  *)
(* that is open, and an Answer changes none.                                 *)
LEMMA RowsMove ==
    ASSUME AttemptInv, [Next]_vars, NEW s \in Starts
    PROVE  /\ attempt[s].st = "submitted" => attempt'[s] = attempt[s]
           /\ attempt[s].st # "none" => /\ attempt'[s].st # "none"
                                        /\ attempt'[s].startedAt = attempt[s].startedAt
                                        /\ attempt'[s].timer = attempt[s].timer
                                        /\ attempt'[s].exam = attempt[s].exam
                                        /\ attempt'[s].user = attempt[s].user
                                        /\ attempt'[s].key = attempt[s].key
           /\ attempt'[s].st = "none" => attempt'[s] = attempt[s]
<1>1. TypeOK /\ Rowed(s) /\ attempt \in [Starts -> Attempt]
    BY DEF AttemptInv, TypeOK
<1>2. ASSUME NEW t \in Starts, StartSave(t)
      PROVE  attempt'[s] = attempt[s] \/ (attempt[s].st = "none" /\ attempt'[s].st = "open")
    <2>1. CASE attempt' = attempt
        BY <2>1
    <2>2. CASE attempt' # attempt
        <3>1. start[t].pc = "save" /\ \E r : r.st = "open" /\ attempt' = [attempt EXCEPT ![t] = r]
            BY <1>2, <2>2 DEF StartSave, InStart
        <3>2. attempt[t].st = "none"
            BY <3>1 DEF AttemptInv, Rowed
        <3> QED BY <3>1, <3>2, <1>1
    <2> QED BY <2>1, <2>2
<1>3. ASSUME NEW f \in Finishes, FinishWrite(f)
      PROVE  \/ attempt'[s] = attempt[s]
             \/ /\ attempt[s].st = "open" /\ attempt'[s].st = "submitted"
                /\ attempt'[s].startedAt = attempt[s].startedAt
                /\ attempt'[s].timer = attempt[s].timer
                /\ attempt'[s].exam = attempt[s].exam
                /\ attempt'[s].user = attempt[s].user
                /\ attempt'[s].key = attempt[s].key
    BY <1>1, <1>3 DEF FinishWrite, Attempt
<1>4. CASE \E t \in Starts : \/ StartBegin(t) \/ StartGate(t) \/ StartCount(t) \/ StartFind(t)
                             \/ StartExam(t) \/ StartAforo(t) \/ StartConsume(t)
                             \/ StartUsage(t) \/ StartWinner(t) \/ StartFails(t)
    BY <1>4 DEF StartBegin, StartGate, StartCount, StartFind, StartExam, StartAforo,
                StartConsume, StartUsage, StartWinner, StartFails, tables
<1>5. CASE \E w \in Writes : AnswerBegin(w) \/ AnswerStep(w) \/ AnswerFails(w)
    BY <1>5 DEF AnswerBegin, AnswerStep, AnswerDelete, AnswerInsert, AnswerFails, tables
<1>6. CASE \E f \in Finishes : FinishBegin(f) \/ FinishList(f) \/ FinishFails(f)
    BY <1>6 DEF FinishBegin, FinishList, FinishFails, tables
<1>7. CASE (\E e \in Exams : ExamToggles(e)) \/ (\E k \in Keys : KeyCloses(k)) \/ Tick
    BY <1>7 DEF ExamToggles, KeyCloses, Tick, tables
<1>8. CASE UNCHANGED vars
    BY <1>8 DEF vars
<1> QED BY <1>2, <1>3, <1>4, <1>5, <1>6, <1>7, <1>8 DEF Next, StartStep, FinishStep

(* For any requests, the grade and the state of a submitted attempt are      *)
(* final: no Finish that overlaps, and no start, writes the row again.        *)
THEOREM GradeTheorem == Spec => GradeFinal
<1>1. AttemptInv /\ [Next]_vars =>
        [\A s \in Starts : attempt[s].st = "submitted" => attempt'[s] = attempt[s]]_vars
    BY RowsMove
<1> QED BY <1>1, AttemptsInvariant, PTL DEF Spec, GradeFinal

-----------------------------------------------------------------------------
(***************************************************************************)
(* Limits                                                                   *)
(***************************************************************************)

\* What a start saw submitted is submitted, and what it saw there is there.
Known(s) == /\ \A a \in start[s].spent : attempt[a].st = "submitted"
            /\ \A a \in start[s].there : attempt[a].st # "none"

\* A start that is past the count.
Past(s) == \/ start[s].pc \in {"find", "exam", "aforo", "consume", "usage", "save", "winner"}
           \/ start[s].result = "created"

AtLimit(s, k) == KeyOf[k].perUser > 0 /\ ~ (Cardinality(SpentUnder(s, k)) < KeyOf[k].perUser)

Excuse(a, s) == /\ Hides(a, s) /\ attempt[a].st # "none"
                /\ start[s].result = "created" => attempt[a].st = "submitted"

\* A start got past the count of a key whose limit its student had reached only
\* because of an attempt that it saw; without a key it got past the limit of
\* participants only if that was not reached.
Limited(s) ==
    /\ Past(s) => \A k \in start[s].key : AtLimit(s, k) => \E a \in Starts : Excuse(a, s)
    /\ /\ start[s].pc \in {"save", "winner"} \/ start[s].result = "created"
       /\ start[s].key = {} /\ ExamOf[start[s].exam].max > 0
       => Cardinality(SeenIn(s)) < ExamOf[start[s].exam].max

LimitInv == \A s \in Starts : Known(s) /\ Limited(s)

Same(s) == /\ start'[s].exam = start[s].exam /\ start'[s].user = start[s].user
           /\ start'[s].key = start[s].key
           /\ start'[s].there = start[s].there /\ start'[s].spent = start[s].spent
           /\ start[s].consumed => start'[s].consumed

Seated(s) == start' = [start EXCEPT ![s].pc = "usage", ![s].consumed = TRUE]
Creates(s) == start' = [start EXCEPT ![s].pc = "done", ![s].got = {s}, ![s].result = "created"]

(* Where a start gets, and with which result: what it asks for it keeps.      *)
LEMMA StartGets ==
    ASSUME AttemptInv, NEW s \in Starts
    PROVE  /\ \A p : StartTo(s, p) =>
                 start'[s].pc = p /\ start'[s].result = start[s].result /\ Same(s)
           /\ \A r : StartEnds(s, r) =>
                 start'[s].pc = "done" /\ start'[s].result = r /\ Same(s)
           /\ \A a \in Starts : Reuse(s, a) =>
                 start'[s].pc = "done" /\ start'[s].result = "reused" /\ Same(s)
           /\ Served(s) =>
                 start'[s].pc = "save" /\ start'[s].result = start[s].result /\ Same(s)
           /\ Seated(s) =>
                 start'[s].pc = "usage" /\ start'[s].result = start[s].result /\ Same(s)
           /\ Creates(s) => start'[s].pc = "done" /\ start'[s].result = "created" /\ Same(s)
<1>1. start[s] \in Start /\ start \in [Starts -> Start]
    BY DEF AttemptInv, TypeOK
<1>2. ASSUME NEW p, StartTo(s, p)
      PROVE  start'[s].pc = p /\ start'[s].result = start[s].result /\ Same(s)
    <2> DEFINE q == [start[s] EXCEPT !.pc = p]
    <2>1. /\ q.pc = p /\ q.result = start[s].result /\ q.exam = start[s].exam
          /\ q.user = start[s].user /\ q.key = start[s].key
          /\ q.there = start[s].there /\ q.spent = start[s].spent /\ q.consumed = start[s].consumed
        BY <1>1 DEF Start
    <2>2. start' = [start EXCEPT ![s] = q]
        BY <1>2 DEF StartTo
    <2> HIDE DEF q
    <2> QED BY <1>1, <2>1, <2>2 DEF Same
<1>3. ASSUME NEW r, StartEnds(s, r)
      PROVE  start'[s].pc = "done" /\ start'[s].result = r /\ Same(s)
    <2> DEFINE q == [start[s] EXCEPT !.pc = "done", !.result = r]
    <2>1. /\ q.pc = "done" /\ q.result = r /\ q.exam = start[s].exam
          /\ q.user = start[s].user /\ q.key = start[s].key
          /\ q.there = start[s].there /\ q.spent = start[s].spent /\ q.consumed = start[s].consumed
        BY <1>1 DEF Start
    <2>2. start' = [start EXCEPT ![s] = q]
        BY <1>3 DEF StartEnds
    <2> HIDE DEF q
    <2> QED BY <1>1, <2>1, <2>2 DEF Same
<1>4. ASSUME NEW a \in Starts, Reuse(s, a)
      PROVE  start'[s].pc = "done" /\ start'[s].result = "reused" /\ Same(s)
    <2> DEFINE q == [start[s] EXCEPT !.pc = "done", !.got = {a}, !.result = "reused"]
    <2>1. /\ q.pc = "done" /\ q.result = "reused" /\ q.exam = start[s].exam
          /\ q.user = start[s].user /\ q.key = start[s].key
          /\ q.there = start[s].there /\ q.spent = start[s].spent /\ q.consumed = start[s].consumed
        BY <1>1 DEF Start
    <2>2. start' = [start EXCEPT ![s] = q]
        BY <1>4 DEF Reuse
    <2> HIDE DEF q
    <2> QED BY <1>1, <2>1, <2>2 DEF Same
<1>5. ASSUME Served(s)
      PROVE  start'[s].pc = "save" /\ start'[s].result = start[s].result /\ Same(s)
    <2> DEFINE q == [start[s] EXCEPT !.pc = "save", !.consumed = TRUE]
    <2>1. /\ q.pc = "save" /\ q.result = start[s].result /\ q.exam = start[s].exam
          /\ q.user = start[s].user /\ q.key = start[s].key
          /\ q.there = start[s].there /\ q.spent = start[s].spent /\ q.consumed
        BY <1>1 DEF Start
    <2>2. start' = [start EXCEPT ![s] = q]
        BY <1>5 DEF Served
    <2> HIDE DEF q
    <2> QED BY <1>1, <2>1, <2>2 DEF Same
<1>6. ASSUME Seated(s)
      PROVE  start'[s].pc = "usage" /\ start'[s].result = start[s].result /\ Same(s)
    <2> DEFINE q == [start[s] EXCEPT !.pc = "usage", !.consumed = TRUE]
    <2>1. /\ q.pc = "usage" /\ q.result = start[s].result /\ q.exam = start[s].exam
          /\ q.user = start[s].user /\ q.key = start[s].key
          /\ q.there = start[s].there /\ q.spent = start[s].spent /\ q.consumed
        BY <1>1 DEF Start
    <2>2. start' = [start EXCEPT ![s] = q]
        BY <1>6 DEF Seated
    <2> HIDE DEF q
    <2> QED BY <1>1, <2>1, <2>2 DEF Same
<1>7. ASSUME Creates(s)
      PROVE  start'[s].pc = "done" /\ start'[s].result = "created" /\ Same(s)
    <2> DEFINE q == [start[s] EXCEPT !.pc = "done", !.got = {s}, !.result = "created"]
    <2>1. /\ q.pc = "done" /\ q.result = "created" /\ q.exam = start[s].exam
          /\ q.user = start[s].user /\ q.key = start[s].key
          /\ q.there = start[s].there /\ q.spent = start[s].spent /\ q.consumed = start[s].consumed
        BY <1>1 DEF Start
    <2>2. start' = [start EXCEPT ![s] = q]
        BY <1>7 DEF Creates
    <2> HIDE DEF q
    <2> QED BY <1>1, <2>1, <2>2 DEF Same
<1> QED BY <1>2, <1>3, <1>4, <1>5, <1>6, <1>7

(* A step is of this start or leaves it alone; once a start came in, what it  *)
(* asks for and what it saw stay.                                            *)
LEMMA StartSteps ==
    ASSUME AttemptInv, [Next]_vars, NEW s \in Starts
    PROVE  \/ start'[s] = start[s]
           \/ StartBegin(s)
           \/ (StartStep(s) \/ StartFails(s)) /\ Same(s)
<1>1. start \in [Starts -> Start] /\ start[s] \in Start
    BY DEF AttemptInv, TypeOK
<1>2. ASSUME StartStep(s) \/ StartFails(s) PROVE Same(s)
    <2>1. \/ \E p : StartTo(s, p)
          \/ \E r : StartEnds(s, r)
          \/ \E a \in Starts : Reuse(s, a)
          \/ Served(s) \/ Seated(s) \/ Creates(s)
        BY <1>2 DEF StartStep, StartGate, StartCount, StartFind, StartExam, StartAforo,
              StartConsume, StartUsage, TakesSeat, StartSave, StartWinner, StartFails, Active,
              Seated, Creates
    <2> QED BY <2>1, StartGets
<1>3. ASSUME NEW t \in Starts, t # s, StartBegin(t) \/ StartStep(t) \/ StartFails(t)
      PROVE  start'[s] = start[s]
    BY <1>1, <1>3 DEF StartStep, StartBegin, StartGate, StartCount, StartFind, StartExam,
          StartAforo, StartConsume, StartSave, StartWinner, StartFails, StartTo, StartEnds, Reuse,
          Served, StartUsage, TakesSeat
<1>4. CASE UNCHANGED start
    BY <1>4
<1>5. \/ \E t \in Starts : StartBegin(t) \/ StartStep(t) \/ StartFails(t)
      \/ UNCHANGED start
    BY DEF Next, AnswerStep, FinishStep, AnswerBegin, AnswerDelete, AnswerInsert, AnswerFails,
           FinishBegin, FinishList, FinishWrite, FinishFails, ExamToggles, KeyCloses, Tick, vars
<1> QED BY <1>2, <1>3, <1>4, <1>5

(* What a start knows of the attempts stays true, whatever runs.              *)
LEMMA KnownStays ==
    ASSUME AttemptInv, [Next]_vars, NEW s \in Starts, Known(s), Same(s)
    PROVE  /\ Known(s)'
           /\ \A k \in Keys : SpentUnder(s, k)' = SpentUnder(s, k)
           /\ SeenIn(s)' = SeenIn(s)
           /\ \A a \in Starts : Hides(a, s) /\ attempt[a].st # "none" =>
                 /\ Hides(a, s)' /\ attempt'[a].st # "none"
                 /\ attempt[a].st = "submitted" => attempt'[a].st = "submitted"
<1>1. start[s].spent \subseteq Starts /\ start[s].there \subseteq Starts
    <2>1. start[s] \in Start
        BY DEF AttemptInv, TypeOK
    <2> QED BY <2>1 DEF Start
<1>2. \A a \in Starts :
         /\ attempt[a].st = "submitted" => attempt'[a].st = "submitted"
         /\ attempt[a].st # "none" => /\ attempt'[a].st # "none"
                                      /\ attempt'[a].exam = attempt[a].exam
                                      /\ attempt'[a].user = attempt[a].user
                                      /\ attempt'[a].key = attempt[a].key
    BY RowsMove
<1>3. Known(s)'
    BY <1>1, <1>2 DEF Known, Same
<1>4. ASSUME NEW k \in Keys PROVE SpentUnder(s, k)' = SpentUnder(s, k)
    <2>1. \A a \in start[s].spent : /\ attempt'[a].key = attempt[a].key
                                    /\ attempt'[a].user = attempt[a].user
        BY <1>1, <1>2 DEF Known
    <2> QED BY <2>1 DEF SpentUnder, Same
<1>5. SeenIn(s)' = SeenIn(s)
    <2>1. \A a \in start[s].there : /\ attempt'[a].exam = attempt[a].exam
                                    /\ attempt'[a].user = attempt[a].user
        BY <1>1, <1>2 DEF Known
    <2> QED BY <2>1 DEF SeenIn, Same
<1>6. ASSUME NEW a \in Starts, Hides(a, s), attempt[a].st # "none"
      PROVE  /\ Hides(a, s)' /\ attempt'[a].st # "none"
             /\ attempt[a].st = "submitted" => attempt'[a].st = "submitted"
    BY <1>2, <1>6 DEF Hides, Same
<1> QED BY <1>3, <1>4, <1>5, <1>6

(* The attempts a start saw, and the students it saw, are finitely many.      *)
LEMMA CountsFinite ==
    ASSUME AttemptInv, NEW s \in Starts, Known(s)
    PROVE  /\ \A k \in Keys : IsFiniteSet(Submitted(k, start[s].user))
           /\ \A k \in Keys : SpentUnder(s, k) \subseteq Submitted(k, start[s].user)
           /\ \A e \in Exams : IsFiniteSet(Participants(e))
           /\ SeenIn(s) \subseteq Participants(start[s].exam)
<1>1. start[s].spent \subseteq Starts /\ start[s].there \subseteq Starts
    <2>1. start[s] \in Start
        BY DEF AttemptInv, TypeOK
    <2> QED BY <2>1 DEF Start
<1>2. ASSUME NEW k \in Keys
      PROVE  /\ IsFiniteSet(Submitted(k, start[s].user))
             /\ SpentUnder(s, k) \subseteq Submitted(k, start[s].user)
    <2>1. Submitted(k, start[s].user) \subseteq Starts
        BY DEF Submitted
    <2>2. IsFiniteSet(Submitted(k, start[s].user))
        BY <2>1, StartsAssumption, FS_Subset
    <2>3. SpentUnder(s, k) \subseteq Submitted(k, start[s].user)
        BY <1>1 DEF Known, SpentUnder, Submitted
    <2> QED BY <2>2, <2>3
<1>3. ASSUME NEW e \in Exams PROVE IsFiniteSet(Participants(e))
    <2> DEFINE B == { b \in Starts : attempt[b].st # "none" /\ attempt[b].exam = e }
               f == [b \in B |-> attempt[b].user]
    <2>1. IsFiniteSet(B)
        <3>1. B \subseteq Starts
            OBVIOUS
        <3> QED BY <3>1, StartsAssumption, FS_Subset
    <2>2. Participants(e) = { attempt[a].user : a \in B }
        BY DEF Participants
    <2>3. f \in Surjection(B, { attempt[a].user : a \in B })
        BY DEF Surjection
    <2> QED BY <2>1, <2>2, <2>3, FS_Surjection
<1>4. SeenIn(s) \subseteq Participants(start[s].exam)
    BY <1>1 DEF Known, SeenIn, Participants
<1> QED BY <1>2, <1>3, <1>4

(* Past the count a start stays within its limits, unless it inserts its row. *)
LEMMA LimitsGo ==
    ASSUME AttemptInv, [Next]_vars, NEW s \in Starts, Known(s), Limited(s), Same(s), Past(s),
           start'[s].result # "created" \/ start'[s] = start[s],
           start'[s].pc \in {"save", "winner"} /\ start[s].pc \notin {"save", "winner"} =>
              \/ start[s].key # {}
              \/ ~ (ExamOf[start[s].exam].max > 0)
              \/ Cardinality(SeenIn(s)) < ExamOf[start[s].exam].max
    PROVE  Known(s)' /\ Limited(s)'
<1>1. /\ Known(s)'
      /\ \A k \in Keys : SpentUnder(s, k)' = SpentUnder(s, k)
      /\ SeenIn(s)' = SeenIn(s)
      /\ \A a \in Starts : Hides(a, s) /\ attempt[a].st # "none" =>
            /\ Hides(a, s)' /\ attempt'[a].st # "none"
            /\ attempt[a].st = "submitted" => attempt'[a].st = "submitted"
    BY KnownStays
<1>2. start[s].key \subseteq Keys
    BY Fields DEF AttemptInv, Ptr
<1>3. ASSUME NEW k \in start'[s].key, AtLimit(s, k)' PROVE \E a \in Starts : Excuse(a, s)'
    <2>1. k \in start[s].key /\ k \in Keys /\ AtLimit(s, k)
        BY <1>1, <1>2, <1>3 DEF Same, AtLimit
    <2>2. PICK a \in Starts : Excuse(a, s)
        BY <2>1 DEF Limited
    <2>3. Excuse(a, s)'
        BY <1>1, <2>2 DEF Excuse
    <2> QED BY <2>3
<1>4. ASSUME start'[s].pc \in {"save", "winner"} \/ start'[s].result = "created",
             start'[s].key = {}, ExamOf[start'[s].exam].max > 0
      PROVE  Cardinality(SeenIn(s)') < ExamOf[start'[s].exam].max
    <2>1. start[s].key = {} /\ start'[s].exam = start[s].exam /\ SeenIn(s)' = SeenIn(s)
        BY <1>1, <1>4 DEF Same
    <2>2. CASE start[s].pc \in {"save", "winner"} \/ start[s].result = "created"
        BY <1>4, <2>1, <2>2 DEF Limited
    <2>3. CASE ~ (start[s].pc \in {"save", "winner"} \/ start[s].result = "created")
        BY <1>4, <2>1, <2>3
    <2> QED BY <2>2, <2>3
<1>5. Limited(s)'
    BY <1>3, <1>4 DEF Limited
<1> QED BY <1>1, <1>5

(* A start that is not past the count, or ends without an attempt, is held to *)
(* nothing yet.                                                              *)
LEMMA LimitsFree ==
    ASSUME AttemptInv, [Next]_vars, NEW s \in Starts, Known(s), Same(s),
           ~ Past(s)', start'[s].pc \notin {"save", "winner"}
    PROVE  Known(s)' /\ Limited(s)'
BY KnownStays DEF Limited, Past

(* The count: a start passes it below the limit, or for an attempt it sees.   *)
LEMMA CountLimits ==
    ASSUME AttemptInv, [Next]_vars, NEW s \in Starts, Known(s), Same(s),
           StartGate(s) \/ StartCount(s)
    PROVE  Known(s)' /\ Limited(s)'
<1>0. /\ \A k \in Keys : IsFiniteSet(Submitted(k, start[s].user))
      /\ \A k \in Keys : SpentUnder(s, k) \subseteq Submitted(k, start[s].user)
    BY CountsFinite
<1>1. start[s] \in Start /\ start \in [Starts -> Start] /\ start[s].result = "none"
      /\ attempt' = attempt /\ Rowed(s)
    BY DEF AttemptInv, TypeOK, Ready, StartGate, StartCount, InStart, tables
<1>2. start[s].key \subseteq Keys
    BY Fields DEF AttemptInv, Ptr
<1>3. /\ Known(s)'
      /\ \A k \in Keys : SpentUnder(s, k)' = SpentUnder(s, k)
      /\ \A a \in Starts : Hides(a, s) /\ attempt[a].st # "none" =>
            /\ Hides(a, s)' /\ attempt'[a].st # "none"
    BY KnownStays
<1>4. CASE start'[s].pc \in {"count", "done"}
    <2>1. start'[s].result # "created"
        BY <1>1, StartGets DEF StartGate, StartCount
    <2> QED BY <1>4, <2>1, LimitsFree DEF Past
<1>5. CASE start'[s].pc = "find"
    <2>1. start'[s].result = "none"
        BY <1>1, <1>5, StartGets DEF StartGate, StartCount
    <2>2. ASSUME NEW k \in start'[s].key, AtLimit(s, k)' PROVE \E a \in Starts : Excuse(a, s)'
        <3>1. k \in start[s].key /\ k \in Keys /\ AtLimit(s, k)
            BY <1>2, <1>3, <2>2 DEF Same, AtLimit
        <3>2. KeyOf[k].perUser \in Nat /\ KeyOf[k].perUser > 0
            BY <3>1, KeysAssumption DEF AtLimit
        <3>3. CASE StartGate(s)
            <4>1. Active(s) # {}
                BY <1>1, <1>5, <3>1, <3>2, <3>3, StartGets DEF StartGate
            <4>2. PICK a \in Starts : a \in Active(s)
                BY <4>1 DEF Active
            <4>3. a # s
                BY <1>1, <3>3, <4>2 DEF Active, Rowed, StartGate, InStart
            <4>4. a \notin start[s].spent
                BY <4>2 DEF Known, Active
            <4>5. Hides(a, s) /\ attempt[a].st # "none"
                BY <4>2, <4>3, <4>4 DEF Hides, Active
            <4>6. Excuse(a, s)'
                BY <1>3, <2>1, <4>5 DEF Excuse
            <4> QED BY <4>6
        <3>4. CASE StartCount(s)
            <4> DEFINE S == Submitted(k, start[s].user)
            <4>1. ~ StartEnds(s, "refused")
                BY <1>5, StartGets
            <4>2. ~ (Cardinality(S) >= KeyOf[k].perUser)
                BY <3>1, <3>4, <4>1 DEF StartCount
            <4>a. IsFiniteSet(S) /\ SpentUnder(s, k) \subseteq S
                BY <3>1, <1>0
            <4> HIDE DEF S
            <4>3. /\ IsFiniteSet(SpentUnder(s, k))
                  /\ Cardinality(SpentUnder(s, k)) <= Cardinality(S)
                BY <4>a, FS_Subset
            <4>4. Cardinality(S) \in Nat /\ Cardinality(SpentUnder(s, k)) \in Nat
                BY <4>3, <4>a, FS_CardinalityType
            <4>5. Cardinality(SpentUnder(s, k)) < KeyOf[k].perUser
                BY <3>2, <4>2, <4>3, <4>4
            <4> QED BY <3>1, <4>5 DEF AtLimit
        <3> QED BY <3>3, <3>4
    <2>3. Limited(s)'
        BY <1>5, <2>1, <2>2 DEF Limited
    <2> QED BY <1>3, <2>3
<1>6. start'[s].pc \in {"count", "done", "find"}
    BY StartGets DEF StartGate, StartCount
<1> QED BY <1>4, <1>5, <1>6

(* The statements between the count and the INSERT.                           *)
LEMMA ChecksLimit ==
    ASSUME AttemptInv, [Next]_vars, NEW s \in Starts, Known(s), Limited(s), Same(s),
           \/ StartFind(s) \/ StartExam(s) \/ StartAforo(s) \/ StartConsume(s)
           \/ StartUsage(s) \/ StartWinner(s) \/ StartFails(s)
    PROVE  Known(s)' /\ Limited(s)'
<1>1. /\ start[s] \in Start /\ start \in [Starts -> Start] /\ start[s].result = "none"
      /\ start[s].pc \notin {"idle", "done"} /\ Ready(start[s], holders)
    BY DEF AttemptInv, TypeOK, Ready, StartFind, StartExam, StartAforo, StartConsume, StartUsage,
           StartWinner, StartFails, InStart
<1>2. CASE StartFind(s) \/ StartWinner(s) \/ StartFails(s)
    <2>1. \/ start'[s].pc = "done" /\ start'[s].result \in {"reused", "failed"}
          \/ StartFind(s) /\ start'[s].pc = "exam" /\ start'[s].result = "none"
        BY <1>1, <1>2, StartGets DEF StartFind, StartWinner, StartFails, Active
    <2>2. CASE start'[s].pc = "done" /\ start'[s].result \in {"reused", "failed"}
        BY <2>2, LimitsFree DEF Past
    <2>3. CASE StartFind(s) /\ start'[s].pc = "exam" /\ start'[s].result = "none"
        <3>1. Past(s)
            BY <2>3 DEF StartFind, InStart, Past
        <3> QED BY <2>3, <3>1, LimitsGo
    <2> QED BY <2>1, <2>2, <2>3
<1>3. CASE StartExam(s)
    <2>1. Past(s) /\ start'[s].result \in {"none", "refused"}
        BY <1>1, <1>3, StartGets DEF StartExam, InStart, Past
    <2>2. start'[s].pc \in {"save", "winner"} =>
              start[s].key # {} \/ ~ (ExamOf[start[s].exam].max > 0)
        BY <1>1, <1>3, StartGets DEF StartExam
    <2> QED BY <2>1, <2>2, LimitsGo
<1>4. CASE StartAforo(s)
    <2> DEFINE e == start[s].exam
    <2>1. Past(s) /\ start'[s].result \in {"none", "refused"}
        BY <1>1, <1>4, StartGets DEF StartAforo, InStart, Past
    <2>2. e \in Exams /\ ExamOf[e].max \in Nat
        BY <1>1, <1>4, ExamsAssumption DEF Ready, StartAforo, InStart
    <2>3. /\ IsFiniteSet(SeenIn(s)) /\ Cardinality(SeenIn(s)) <= Cardinality(Participants(e))
          /\ Cardinality(SeenIn(s)) \in Nat /\ Cardinality(Participants(e)) \in Nat
        BY <2>2, CountsFinite, FS_Subset, FS_CardinalityType
    <2>4. start'[s].pc \in {"save", "winner"} => ~ (Cardinality(Participants(e)) >= ExamOf[e].max)
        BY <1>1, <1>4, StartGets DEF StartAforo
    <2>5. start'[s].pc \in {"save", "winner"} => Cardinality(SeenIn(s)) < ExamOf[e].max
        BY <2>2, <2>3, <2>4
    <2> QED BY <2>1, <2>5, LimitsGo
<1>5. CASE StartConsume(s) \/ StartUsage(s)
    <2>1. /\ Past(s) /\ start[s].key # {}
          /\ Served(s) \/ Seated(s) \/ StartEnds(s, "refused") \/ StartEnds(s, "failed")
        BY <1>5 DEF StartConsume, StartUsage, TakesSeat, InStart, Past, Seated
    <2>2. start'[s].result # "created"
        BY <1>1, <2>1, StartGets
    <2> QED BY <2>1, <2>2, LimitsGo
<1> QED BY <1>2, <1>3, <1>4, <1>5

(* The INSERT: an attempt that let the start past the count is submitted, as  *)
(* none of the exam is open.                                                 *)
LEMMA SaveLimits ==
    ASSUME AttemptInv, [Next]_vars, NEW s \in Starts, Known(s), Limited(s), Same(s), StartSave(s)
    PROVE  Known(s)' /\ Limited(s)'
<1>1. /\ start[s] \in Start /\ start \in [Starts -> Start] /\ start[s].result = "none"
      /\ start[s].pc = "save" /\ Past(s) /\ attempt \in [Starts -> Attempt]
    BY DEF AttemptInv, TypeOK, Ready, StartSave, InStart, Past
<1>2. CASE StartTo(s, "winner")
    <2>1. start'[s].result # "created"
        BY <1>1, <1>2, StartGets
    <2> QED BY <1>1, <2>1, LimitsGo
<1>3. CASE ~ StartTo(s, "winner")
    <2>1. /\ Active(s) = {} /\ \A a \in Starts : a # s => attempt'[a] = attempt[a]
          /\ start'[s].result = "created"
        <3>1. Active(s) = {} /\ Creates(s)
            BY <1>3 DEF StartSave, Creates
        <3>2. \E r : attempt' = [attempt EXCEPT ![s] = r]
            BY <1>3 DEF StartSave
        <3> QED BY <1>1, <3>1, <3>2, StartGets
    <2>2. /\ Known(s)'
          /\ \A k \in Keys : SpentUnder(s, k)' = SpentUnder(s, k)
          /\ SeenIn(s)' = SeenIn(s)
          /\ \A a \in Starts : Hides(a, s) /\ attempt[a].st # "none" =>
                Hides(a, s)' /\ attempt'[a].st # "none"
        BY KnownStays
    <2>3. start[s].key \subseteq Keys
        BY Fields DEF AttemptInv, Ptr
    <2>4. ASSUME NEW k \in start'[s].key, AtLimit(s, k)' PROVE \E a \in Starts : Excuse(a, s)'
        <3>1. k \in start[s].key /\ AtLimit(s, k)
            BY <2>2, <2>3, <2>4 DEF Same, AtLimit
        <3>2. PICK a \in Starts : Excuse(a, s)
            BY <1>1, <3>1 DEF Limited
        <3>3. attempt[a].st \in {"none", "open", "submitted"}
            BY Fields DEF AttemptInv
        <3>4. a # s /\ attempt[a].st = "submitted"
            BY <2>1, <3>2, <3>3 DEF Excuse, Hides, Active
        <3>5. Excuse(a, s)'
            BY <2>1, <2>2, <3>2, <3>4 DEF Excuse
        <3> QED BY <3>5
    <2>5. start'[s].key = {} /\ ExamOf[start'[s].exam].max > 0 =>
              Cardinality(SeenIn(s)') < ExamOf[start'[s].exam].max
        BY <1>1, <2>2 DEF Limited, Same
    <2>6. Limited(s)'
        BY <2>4, <2>5 DEF Limited
    <2> QED BY <2>2, <2>6
<1> QED BY <1>2, <1>3

(* A request comes in, and sees what there is.                               *)
LEMMA BeginLimits ==
    ASSUME AttemptInv, NEW s \in Starts, StartBegin(s)
    PROVE  Known(s)' /\ Limited(s)'
<1>1. start[s] \in Start /\ start \in [Starts -> Start] /\ attempt' = attempt
    BY DEF AttemptInv, TypeOK, StartBegin, tables
<1>2. /\ start'[s].there = { a \in Starts : attempt[a].st # "none" }
      /\ start'[s].spent = { a \in Starts : attempt[a].st = "submitted" }
    BY <1>1 DEF StartBegin, Start
<1>3. /\ start'[s].pc \in {"find", "gate", "done"} /\ start'[s].result \in {"none", "refused"}
      /\ start'[s].pc = "find" => start'[s].key = {}
    BY <1>1 DEF StartBegin, Start
<1>4. Known(s)'
    BY <1>1, <1>2 DEF Known
<1>5. Limited(s)'
    BY <1>3 DEF Limited, Past
<1> QED BY <1>4, <1>5

LEMMA LimitNext == AttemptInv /\ LimitInv /\ [Next]_vars => LimitInv'
<1> SUFFICES ASSUME AttemptInv, LimitInv, [Next]_vars, NEW s \in Starts
             PROVE  Known(s)' /\ Limited(s)'
    BY DEF LimitInv
<1>1. Known(s) /\ Limited(s)
    BY DEF LimitInv
<1>2. CASE start'[s] = start[s]
    <2>1. Same(s)
        BY <1>2 DEF Same
    <2>2. CASE Past(s)
        BY <1>1, <1>2, <2>1, <2>2, LimitsGo
    <2>3. CASE ~ Past(s)
        BY <1>1, <1>2, <2>1, <2>3, LimitsFree DEF Past
    <2> QED BY <2>2, <2>3
<1>3. CASE StartBegin(s)
    BY <1>3, BeginLimits
<1>4. CASE (StartStep(s) \/ StartFails(s)) /\ Same(s)
    BY <1>1, <1>4, CountLimits, ChecksLimit, SaveLimits DEF StartStep
<1> QED BY <1>2, <1>3, <1>4, StartSteps

(* For any students, keys, exams and requests, and any limits, a start that   *)
(* comes in when its student has submitted all the attempts of its key gets  *)
(* another only past an attempt that hid the count, and one without a key    *)
(* gets none when the exam had its participants.                             *)
THEOREM LimitsTheorem == Spec => []LimitsBind
<1>1. Init => LimitInv
    <2> SUFFICES ASSUME Init, NEW s \in Starts PROVE Known(s) /\ Limited(s)
        BY DEF LimitInv
    <2>1. start[s].pc = "idle" /\ start[s].result = "none" /\ start[s].there = {}
          /\ start[s].spent = {}
        BY DEF Init
    <2> QED BY <2>1 DEF Known, Limited, Past
<1>2. AttemptInv /\ LimitInv => LimitsBind
    <2> SUFFICES ASSUME AttemptInv, LimitInv, NEW s \in Starts, start[s].result = "created"
                 PROVE  /\ \A k \in start[s].key : KeyOf[k].perUser > 0 =>
                             \/ Cardinality(SpentUnder(s, k)) < KeyOf[k].perUser
                             \/ \E a \in Starts : Hides(a, s) /\ attempt[a].st = "submitted"
                        /\ start[s].key = {} /\ ExamOf[start[s].exam].max > 0 =>
                             Cardinality(SeenIn(s)) < ExamOf[start[s].exam].max
        BY DEF LimitsBind
    <2>1. Limited(s) /\ Past(s)
        BY DEF LimitInv, Past
    <2> QED BY <2>1 DEF Limited, AtLimit, Excuse
<1> QED BY <1>1, <1>2, LimitNext, AttemptsInvariant, PTL DEF Spec

-----------------------------------------------------------------------------
(***************************************************************************)
(* Seats                                                                    *)
(***************************************************************************)

\* The starts that took a seat of a key and are yet to store its row.
Storing(k) == { s \in Starts : start[s].key = {k} /\ start[s].pc = "usage" }

\* The seats cover the students and those on their way, and have starts to show.
Counted(k) == /\ IsFiniteSet(holders[k])
              /\ Cardinality(holders[k]) + Cardinality(Storing(k)) <= taken[k]
              /\ taken[k] <= Cardinality(Spenders(k))

CountInv == \A k \in Keys : Counted(k)

\* A start takes a seat, or stores the row of the one it took.
Reserves(s, k) ==
    /\ SeatFor(k) /\ taken' = [taken EXCEPT ![k] = @ + 1] /\ UNCHANGED holders
    /\ start[s].key = {k} /\ start[s].pc = "consume" /\ Seated(s)
Admits(s, k) ==
    /\ holders' = [holders EXCEPT ![k] = @ \cup {start[s].user}] /\ UNCHANGED taken
    /\ start[s].key = {k} /\ start[s].pc = "usage" /\ start[s].user \in Users
    /\ start'[s].pc # "usage"
    /\ \A t \in Starts : t # s => start'[t] = start[t]

(* Only a start changes seats and students, and only by its two statements.  *)
LEMMA SeatMoves ==
    ASSUME AttemptInv, [Next]_vars
    PROVE  \/ /\ UNCHANGED <<taken, holders>>
              /\ \A t \in Starts : start'[t].pc = "usage" => start'[t] = start[t]
           \/ \E s \in Starts, k \in Keys : Reserves(s, k) \/ Admits(s, k)
<1>1. /\ start \in [Starts -> Start] /\ taken \in [Keys -> Nat]
      /\ \A s \in Starts : start[s] \in Start /\ start[s].key \in Ptr(Keys)
    BY Fields DEF AttemptInv, TypeOK
<1>2. ASSUME NEW s \in Starts, StartConsume(s) \/ StartUsage(s)
      PROVE  \/ UNCHANGED <<taken, holders>> /\ (Served(s) \/ StartEnds(s, "refused"))
             \/ \E k \in Keys : Reserves(s, k) \/ Admits(s, k)
    <2>1. PICK k \in start[s].key :
             \/ Served(s) /\ UNCHANGED <<taken, holders>>
             \/ start[s].pc = "consume" /\ TakesSeat(s, k) /\ UNCHANGED holders
             \/ StartEnds(s, "refused") /\ UNCHANGED <<taken, holders>>
             \/ /\ holders' = [holders EXCEPT ![k] = @ \cup {start[s].user}] /\ UNCHANGED taken
                /\ Served(s) \/ StartEnds(s, "failed")
                /\ start[s].pc = "usage"
        BY <1>2 DEF StartConsume, StartUsage, InStart
    <2>2. k \in Keys /\ start[s].key = {k}
        BY <1>1 DEF Ptr
    <2>3. CASE start[s].pc = "consume" /\ TakesSeat(s, k) /\ UNCHANGED holders
        BY <2>2, <2>3 DEF TakesSeat, Reserves, Seated
    <2>4. CASE /\ holders' = [holders EXCEPT ![k] = @ \cup {start[s].user}] /\ UNCHANGED taken
               /\ Served(s) \/ StartEnds(s, "failed")
               /\ start[s].pc = "usage"
        <3>1. start[s].user \in Users
            BY <2>4 DEF AttemptInv, Ready
        <3>2. start'[s].pc # "usage"
            BY <2>4, StartGets
        <3>3. \A t \in Starts : t # s => start'[t] = start[t]
            BY <2>4, <1>1 DEF Served, StartEnds
        <3> QED BY <2>2, <2>4, <3>1, <3>2, <3>3 DEF Admits
    <2> QED BY <2>1, <2>3, <2>4
<1>3. ASSUME NEW s \in Starts, StartBegin(s)
      PROVE  /\ UNCHANGED <<taken, holders>> /\ start'[s].pc # "usage"
             /\ \A t \in Starts : t # s => start'[t] = start[t]
    BY <1>1, <1>3 DEF StartBegin, Start, keys
<1>4. ASSUME NEW s \in Starts,
             \/ StartGate(s) \/ StartCount(s) \/ StartFind(s) \/ StartExam(s)
             \/ StartAforo(s) \/ StartSave(s) \/ StartWinner(s) \/ StartFails(s)
      PROVE  /\ UNCHANGED <<taken, holders>>
             /\ \/ \E p : p # "usage" /\ StartTo(s, p)
                \/ \E r : StartEnds(s, r)
                \/ \E a \in Starts : Reuse(s, a)
                \/ Creates(s)
    BY <1>4 DEF StartGate, StartCount, StartFind, StartExam, StartAforo, StartSave, StartWinner,
                StartFails, Active, Creates, keys
<1>5. ASSUME NEW s \in Starts,
             \/ \E p : p # "usage" /\ StartTo(s, p)
             \/ \E r : StartEnds(s, r)
             \/ \E a \in Starts : Reuse(s, a)
             \/ Creates(s) \/ Served(s)
      PROVE  /\ start'[s].pc # "usage"
             /\ \A t \in Starts : t # s => start'[t] = start[t]
    <2>1. start'[s].pc # "usage"
        BY <1>5, StartGets
    <2>2. \A t \in Starts : t # s => start'[t] = start[t]
        BY <1>1, <1>5 DEF StartTo, StartEnds, Reuse, Creates, Served
    <2> QED BY <2>1, <2>2
<1>6. CASE \E s \in Starts : StartBegin(s) \/ StartStep(s) \/ StartFails(s)
    <2>1. PICK s \in Starts : StartBegin(s) \/ StartStep(s) \/ StartFails(s)
        BY <1>6
    <2>2. \/ \E k \in Keys : Reserves(s, k) \/ Admits(s, k)
          \/ /\ UNCHANGED <<taken, holders>> /\ start'[s].pc # "usage"
             /\ \A t \in Starts : t # s => start'[t] = start[t]
        <3>1. CASE StartBegin(s)
            BY <1>3, <3>1
        <3>2. CASE StartConsume(s) \/ StartUsage(s)
            BY <1>2, <1>5, <3>2
        <3>3. CASE \/ StartGate(s) \/ StartCount(s) \/ StartFind(s) \/ StartExam(s)
                   \/ StartAforo(s) \/ StartSave(s) \/ StartWinner(s) \/ StartFails(s)
            BY <1>4, <1>5, <3>3
        <3> QED BY <2>1, <3>1, <3>2, <3>3 DEF StartStep
    <2> QED BY <2>2
<1>7. CASE UNCHANGED <<start, taken, holders>>
    BY <1>7
<1>8. \/ \E s \in Starts : StartBegin(s) \/ StartStep(s) \/ StartFails(s)
      \/ UNCHANGED <<start, taken, holders>>
    BY DEF Next, AnswerStep, FinishStep, AnswerBegin, AnswerDelete, AnswerInsert, AnswerFails,
           FinishBegin, FinishList, FinishWrite, FinishFails, ExamToggles, KeyCloses, Tick, vars,
           keys
<1> QED BY <1>6, <1>7, <1>8

(* A start that took a seat, or was served, keeps it and is not refused.      *)
LEMMA SpendersStay ==
    ASSUME AttemptInv, [Next]_vars, NEW k \in Keys
    PROVE  Spenders(k) \subseteq Spenders(k)'
<1> SUFFICES ASSUME NEW s \in Spenders(k) PROVE s \in Spenders(k)'
    OBVIOUS
<1>1. s \in Starts /\ start[s].key = {k} /\ start[s].consumed /\ start[s].result # "refused"
    BY DEF Spenders
<1>2. start[s].pc # "idle"
    BY <1>1 DEF AttemptInv, Ready
<1>3. start'[s].key = {k} /\ start'[s].consumed
    BY <1>1, <1>2, StartSteps DEF StartBegin, InStart, Same
<1>4. Ready(start'[s], holders')
    BY <1>1, AttemptNext DEF AttemptInv
<1> QED BY <1>1, <1>3, <1>4 DEF Ready, Spenders

(* Each seat, and each student, is counted once.                              *)
LEMMA CountNext == AttemptInv /\ CountInv /\ [Next]_vars => CountInv'
<1> SUFFICES ASSUME AttemptInv, CountInv, [Next]_vars, NEW k \in Keys PROVE Counted(k)'
    BY DEF CountInv
<1>1. /\ Counted(k) /\ taken \in [Keys -> Nat] /\ holders \in [Keys -> SUBSET Users]
      /\ start \in [Starts -> Start] /\ Spenders(k) \subseteq Spenders(k)'
    BY SpendersStay DEF AttemptInv, TypeOK, CountInv
<1>2. /\ IsFiniteSet(Storing(k)) /\ IsFiniteSet(Storing(k)')
      /\ IsFiniteSet(Spenders(k)) /\ IsFiniteSet(Spenders(k)')
    <2>1. /\ Storing(k) \subseteq Starts /\ Storing(k)' \subseteq Starts
          /\ Spenders(k) \subseteq Starts /\ Spenders(k)' \subseteq Starts
        BY DEF Storing, Spenders
    <2> QED BY <2>1, StartsAssumption, FS_Subset
<1>3. /\ Cardinality(Storing(k)) \in Nat /\ Cardinality(Storing(k)') \in Nat
      /\ Cardinality(Spenders(k)) \in Nat /\ Cardinality(Spenders(k)') \in Nat
      /\ Cardinality(holders[k]) \in Nat /\ taken[k] \in Nat
      /\ Cardinality(Spenders(k)) <= Cardinality(Spenders(k)')
    BY <1>1, <1>2, FS_CardinalityType, FS_Subset DEF Counted
<1>4. CASE /\ taken'[k] = taken[k] /\ holders'[k] = holders[k]
           /\ Storing(k)' \subseteq Storing(k)
    <2>1. Cardinality(Storing(k)') <= Cardinality(Storing(k))
        BY <1>2, <1>4, FS_Subset
    <2> QED BY <1>1, <1>3, <1>4, <2>1 DEF Counted
<1>5. CASE /\ UNCHANGED <<taken, holders>>
           /\ \A t \in Starts : start'[t].pc = "usage" => start'[t] = start[t]
    BY <1>4, <1>5 DEF Storing
<1>6. ASSUME NEW s \in Starts, NEW j \in Keys, Reserves(s, j) PROVE Counted(k)'
    <2>1. /\ start'[s].pc = "usage" /\ start'[s].result = start[s].result /\ Same(s)
          /\ start'[s].consumed /\ start[s].key = {j} /\ start[s].pc = "consume"
        <3>1. start'[s].pc = "usage" /\ start'[s].result = start[s].result /\ Same(s)
            BY <1>6, StartGets DEF Reserves
        <3>2. Ready(start'[s], holders')
            BY AttemptNext DEF AttemptInv
        <3> QED BY <3>1, <3>2, <1>6 DEF Ready, Reserves
    <2>2. ~ start[s].consumed /\ start[s].result = "none"
        BY <2>1 DEF AttemptInv, Ready
    <2>3. \A t \in Starts : t # s => start'[t] = start[t]
        BY <1>1, <1>6 DEF Reserves, Seated
    <2>4. CASE j # k
        <3>1. s \notin Storing(k)'
            BY <2>1, <2>4 DEF Storing, Same
        <3>2. Storing(k)' \subseteq Storing(k)
            BY <2>3, <3>1 DEF Storing
        <3> QED BY <1>1, <1>4, <1>6, <2>4, <3>2 DEF Reserves
    <2>5. CASE j = k
        <3>1. /\ s \notin Storing(k) /\ Storing(k)' \subseteq Storing(k) \cup {s}
              /\ s \notin Spenders(k) /\ s \in Spenders(k)'
            BY <2>1, <2>2, <2>3, <2>5 DEF Storing, Spenders, Same
        <3>2. /\ Cardinality(Storing(k)') <= Cardinality(Storing(k)) + 1
              /\ Cardinality(Spenders(k)) + 1 <= Cardinality(Spenders(k)')
            <4>1. /\ IsFiniteSet(Storing(k) \cup {s})
                  /\ Cardinality(Storing(k) \cup {s}) = Cardinality(Storing(k)) + 1
                  /\ IsFiniteSet(Spenders(k) \cup {s})
                  /\ Cardinality(Spenders(k) \cup {s}) = Cardinality(Spenders(k)) + 1
                BY <1>2, <3>1, FS_AddElement
            <4>2. Spenders(k) \cup {s} \subseteq Spenders(k)'
                BY <1>1, <3>1
            <4>3. Cardinality(Storing(k)') <= Cardinality(Storing(k) \cup {s})
                BY <4>1, <3>1, FS_Subset
            <4>4. Cardinality(Spenders(k) \cup {s}) <= Cardinality(Spenders(k)')
                BY <4>2, <1>2, FS_Subset
            <4> QED BY <4>1, <4>3, <4>4
        <3>3. taken'[k] = taken[k] + 1 /\ holders'[k] = holders[k]
            BY <1>1, <1>6, <2>5 DEF Reserves
        <3> QED BY <1>1, <1>3, <3>2, <3>3 DEF Counted
    <2> QED BY <2>4, <2>5
<1>7. ASSUME NEW s \in Starts, NEW j \in Keys, Admits(s, j) PROVE Counted(k)'
    <2>1. Storing(k)' \subseteq Storing(k) \ {s}
        BY <1>7 DEF Admits, Storing
    <2>2. CASE j # k
        BY <1>1, <1>4, <1>7, <2>1, <2>2 DEF Admits
    <2>3. CASE j = k
        <3>1. s \in Storing(k) /\ holders'[k] = holders[k] \cup {start[s].user}
            BY <1>1, <1>7, <2>3 DEF Admits, Storing
        <3>2. Cardinality(Storing(k)') <= Cardinality(Storing(k)) - 1
            <4>1. /\ IsFiniteSet(Storing(k) \ {s})
                  /\ Cardinality(Storing(k) \ {s}) = Cardinality(Storing(k)) - 1
                BY <1>2, <3>1, FS_RemoveElement
            <4>2. Cardinality(Storing(k)') <= Cardinality(Storing(k) \ {s})
                BY <4>1, <2>1, FS_Subset
            <4> QED BY <4>1, <4>2
        <3>3. /\ IsFiniteSet(holders'[k]) /\ Cardinality(holders'[k]) \in Nat
              /\ Cardinality(holders'[k]) <= Cardinality(holders[k]) + 1
            <4>1. IsFiniteSet(holders[k])
                BY <1>1 DEF Counted
            <4>2. CASE start[s].user \in holders[k]
                <5>1. holders'[k] = holders[k]
                    BY <3>1, <4>2
                <5> QED BY <5>1, <4>1, <1>3
            <4>3. CASE start[s].user \notin holders[k]
                <5> DEFINE more == holders[k] \cup {start[s].user}
                <5>1. IsFiniteSet(more) /\ Cardinality(more) = Cardinality(holders[k]) + 1
                    BY <4>1, <4>3, FS_AddElement
                <5> HIDE DEF more
                <5>2. holders'[k] = more
                    BY <3>1 DEF more
                <5> QED BY <5>1, <5>2, <1>3
            <4> QED BY <4>2, <4>3
        <3>4. taken'[k] = taken[k]
            BY <1>7 DEF Admits
        <3> QED BY <1>1, <1>3, <3>2, <3>3, <3>4 DEF Counted
    <2> QED BY <2>2, <2>3
<1> QED BY <1>5, <1>6, <1>7, SeatMoves

(* Every seat of a key has a student or a start about to store one, and a    *)
(* start to show for it, in every reachable state.                           *)
THEOREM SeatsCounted == Spec => []CountInv
<1>1. Init => CountInv
    <2> SUFFICES ASSUME Init, NEW k \in Keys PROVE Counted(k)
        BY DEF CountInv
    <2>1. Storing(k) = {} /\ holders[k] = {} /\ taken[k] = 0 /\ IsFiniteSet(Spenders(k))
        <3>1. Spenders(k) \subseteq Starts
            BY DEF Spenders
        <3> QED BY <3>1, StartsAssumption, FS_Subset DEF Init, Storing
    <2>2. Cardinality({}) = 0 /\ IsFiniteSet({}) /\ Cardinality(Spenders(k)) \in Nat
        BY <2>1, FS_EmptySet, FS_CardinalityType
    <2> QED BY <2>1, <2>2 DEF Counted
<1> QED BY <1>1, CountNext, AttemptsInvariant, PTL DEF Spec

(* For any students, keys, requests and failures, a seat is taken, and a     *)
(* student admitted, only by a start that was not refused.                   *)
THEOREM SeatsBuyAttemptsTheorem == Spec => []SeatsBuyAttempts
<1>1. AttemptInv /\ CountInv => SeatsBuyAttempts
    BY DEF AttemptInv, HoldersBought, CountInv, Counted, SeatsBuyAttempts, Spenders
<1> QED BY <1>1, SeatsCounted, AttemptsInvariant, PTL

(* For any students, keys, limits and requests, what the starts see of the   *)
(* keys implements the ledger of seats: seats are taken below the limit only *)
(* and students admitted while the seats cover them.                         *)
THEOREM SeatsLedgerTheorem == Spec => SeatsLedger
<1> DEFINE cap == [k \in Keys |-> KeyOf[k].max]
<1>1. Init => Seats!Init
    BY KeysAssumption DEF Init, Seats!Init
<1>2. AttemptInv /\ CountInv /\ [Next]_vars => [Seats!Next]_<<cap, taken, holders>>
    <2> SUFFICES ASSUME AttemptInv, CountInv, [Next]_vars
                 PROVE  Seats!Next \/ UNCHANGED <<cap, taken, holders>>
        OBVIOUS
    <2>1. ASSUME NEW s \in Starts, NEW k \in Keys, Reserves(s, k) PROVE Seats!TakeSeat(k)
        BY <2>1 DEF Reserves, SeatFor, Seats!TakeSeat
    <2>2. ASSUME NEW s \in Starts, NEW k \in Keys, Admits(s, k)
          PROVE  start[s].user \in Users /\ Seats!Admit(k, start[s].user)
        <3>1. Counted(k)' /\ IsFiniteSet(Storing(k)')
            <4>1. Storing(k)' \subseteq Starts
                BY DEF Storing
            <4> QED BY <4>1, CountNext, StartsAssumption, FS_Subset DEF CountInv
        <3>2. /\ holders \in [Keys -> SUBSET Users] /\ taken \in [Keys -> Nat]
              /\ holders'[k] = holders[k] \cup {start[s].user} /\ taken' = taken
            BY <2>2 DEF AttemptInv, TypeOK, Admits
        <3>3. Cardinality(holders'[k]) <= taken[k]
            BY <3>1, <3>2, FS_CardinalityType DEF Counted
        <3> QED BY <2>2, <3>2, <3>3 DEF Admits, Seats!Admit
    <2> QED BY <2>1, <2>2, SeatMoves DEF Seats!Next
<1> QED BY <1>1, <1>2, SeatsCounted, AttemptsInvariant, PTL DEF Spec, SeatsLedger, Seats!Spec

-----------------------------------------------------------------------------
(***************************************************************************)
(* Answers                                                                  *)
(***************************************************************************)

Takes(w) == /\ write[w].pc = "idle" /\ answer' = answer
            /\ write'[w].att \in Starts /\ write'[w].q \in Questions
            /\ \/ write'[w].pc = "delete" /\ write'[w].result = "none"
                  /\ ~ Closed(write'[w].att)
               \/ write'[w].pc = "done" /\ write'[w].result = "refused"

Stores(w) == answer' = [answer EXCEPT ![write[w].att][write[w].q] =
                            (Cell(w) \ write[w].gone) \cup write[w].rows]

Proceeds(w) ==
    /\ write[w].pc \in {"delete", "insert"}
    /\ write'[w].att = write[w].att /\ write'[w].q = write[w].q
    /\ write'[w].rows = write[w].rows
    /\ \/ write'[w].pc = "insert" /\ write'[w].result = write[w].result /\ answer' = answer
       \/ write'[w].pc = "done" /\ write'[w].result = "failed" /\ answer' = answer
       \/ write'[w].pc = "done" /\ write'[w].result = "ok" /\ Stores(w)

(* A step of an Answer is of that Answer: it comes in, on an attempt that is  *)
(* not closed or to be refused, or it goes on as it came in.                 *)
LEMMA AnswerMoves ==
    ASSUME AttemptInv, NEW w \in Writes, AnswerBegin(w) \/ AnswerStep(w) \/ AnswerFails(w)
    PROVE  /\ \A v \in Writes \ {w} : write'[v] = write[v]
           /\ Takes(w) \/ Proceeds(w)
<1>0. write \in [Writes -> Write] /\ write[w] \in Write
    BY DEF AttemptInv, TypeOK
<1>1. CASE AnswerBegin(w)
    <2>1. PICK a \in Starts, i \in Inputs, taking \in BOOLEAN :
             /\ taking => ~ Closed(a)
             /\ write' = [write EXCEPT ![w] =
                             [write[w] EXCEPT !.att = a, !.q = i.q, !.rows = i.rows,
                                       !.pc = IF taking THEN "delete" ELSE "done",
                                       !.result = IF taking THEN "none" ELSE "refused"]]
        BY <1>1 DEF AnswerBegin, Closed
    <2>2. PICK p \in {"delete", "done"}, r \in {"none", "refused"} :
             /\ p = "delete" => r = "none" /\ ~ Closed(a)
             /\ p = "done" => r = "refused"
             /\ write' = [write EXCEPT ![w] =
                             [write[w] EXCEPT !.att = a, !.q = i.q, !.rows = i.rows,
                                       !.pc = p, !.result = r]]
        BY <2>1
    <2> DEFINE q == [write[w] EXCEPT !.att = a, !.q = i.q, !.rows = i.rows, !.pc = p, !.result = r]
    <2>3. q.att = a /\ q.q = i.q /\ q.pc = p /\ q.result = r
        BY <1>0 DEF Write
    <2>4. write' = [write EXCEPT ![w] = q]
        BY <2>2
    <2> HIDE DEF q
    <2>5. i.q \in Questions
        BY InputsAssumption
    <2>6. write[w].pc = "idle" /\ answer' = answer
        BY <1>1 DEF AnswerBegin, tables
    <2>7. write'[w] = q /\ \A v \in Writes \ {w} : write'[v] = write[v]
        BY <1>0, <2>4
    <2> QED BY <2>2, <2>3, <2>5, <2>6, <2>7 DEF Takes
<1>2. CASE AnswerDelete(w)
    BY <1>0, <1>2 DEF AnswerDelete, Write, Proceeds, tables
<1>3. CASE AnswerInsert(w)
    BY <1>0, <1>3 DEF AnswerInsert, Write, Proceeds, Stores
<1>4. CASE AnswerFails(w)
    BY <1>0, <1>4 DEF AnswerFails, Write, Proceeds, tables
<1> QED BY <1>1, <1>2, <1>3, <1>4 DEF AnswerStep

(* Every other step leaves the answers alone.                                *)
LEMMA AnswerOrNot ==
    ASSUME [Next]_vars
    PROVE  \/ \E w \in Writes : AnswerBegin(w) \/ AnswerStep(w) \/ AnswerFails(w)
           \/ UNCHANGED <<answer, write>>
BY DEF Next, StartStep, FinishStep, StartBegin, StartGate, StartCount, StartFind, StartExam,
       StartAforo, StartConsume, StartUsage, StartSave, StartWinner, StartFails, FinishBegin,
       FinishList,
       FinishWrite, FinishFails, ExamToggles, KeyCloses, Tick, vars, tables, keys

\* An Answer that runs on has no result; a cell that holds something was stored
\* by an Answer that said so, and an attempt that is not there has no limit.
AnswerInv ==
    /\ \A w \in Writes : /\ write[w].pc # "done" => write[w].result = "none"
                         /\ write[w].pc # "idle" =>
                               write[w].att \in Starts /\ write[w].q \in Questions
                         /\ write[w].result = "ok" /\ AloneInCell(w) => Cell(w) = write[w].rows
    /\ \A s \in Starts : attempt[s].st = "none" => attempt[s].timer = 0
    /\ \A s \in Starts, q \in Questions : answer[s][q] # {} =>
          \E w \in Writes : write[w].att = s /\ write[w].q = q /\ write[w].result = "ok"

LEMMA AnswerInit == Init => AnswerInv
<1> SUFFICES ASSUME Init PROVE AnswerInv
    OBVIOUS
<1>1. \A w \in Writes : write[w].pc = "idle" /\ write[w].result = "none"
    BY DEF Init
<1>2. \A s \in Starts : attempt[s].timer = 0
    BY DEF Init, NoAttempt
<1>3. \A s \in Starts, q \in Questions : answer[s][q] = {}
    BY DEF Init
<1> QED BY <1>1, <1>2, <1>3 DEF AnswerInv

(* What an Answer has said it goes on saying, and if it is alone in its cell  *)
(* it was before.                                                           *)
LEMMA SaidStays ==
    ASSUME AttemptInv, AnswerInv, [Next]_vars, NEW w \in Writes, write[w].pc = "done"
    PROVE  /\ write'[w] = write[w]
           /\ AloneInCell(w)' => AloneInCell(w)
<1>1. CASE UNCHANGED <<answer, write>>
    BY <1>1 DEF AloneInCell, SameCell
<1>2. ASSUME NEW v \in Writes, AnswerBegin(v) \/ AnswerStep(v) \/ AnswerFails(v)
      PROVE  /\ write'[w] = write[w]
             /\ AloneInCell(w)' => AloneInCell(w)
    <2>1. /\ \A u \in Writes \ {v} : write'[u] = write[u]
          /\ Takes(v) \/ Proceeds(v)
        BY <1>2, AnswerMoves
    <2>2. v # w /\ write'[w] = write[w]
        BY <2>1 DEF Takes, Proceeds
    <2>3. ASSUME AloneInCell(w)', NEW u \in Writes \ {w}
          PROVE  write[u].pc = "idle" \/ ~ SameCell(u, w)
        <3>1. CASE u # v
            BY <2>1, <2>2, <2>3, <3>1 DEF AloneInCell, SameCell
        <3>2. CASE u = v
            BY <2>1, <2>2, <2>3, <3>2 DEF AloneInCell, SameCell, Takes, Proceeds
        <3> QED BY <3>1, <3>2
    <2> QED BY <2>2, <2>3 DEF AloneInCell
<1> QED BY <1>1, <1>2, AnswerOrNot

LEMMA AnswerNext ==
    ASSUME AttemptInv, AnswerInv, [Next]_vars
    PROVE  AnswerInv'
<1>0. answer \in [Starts -> Sheet]
    BY DEF AttemptInv, TypeOK
<1>1. \A s \in Starts : attempt'[s].st = "none" => attempt'[s].timer = 0
    BY RowsMove DEF AnswerInv
<1>2. CASE UNCHANGED <<answer, write>>
    BY <1>1, <1>2 DEF AnswerInv, AloneInCell, SameCell, Cell
<1>3. ASSUME NEW v \in Writes, AnswerBegin(v) \/ AnswerStep(v) \/ AnswerFails(v)
      PROVE  AnswerInv'
    <2>1. /\ \A u \in Writes \ {v} : write'[u] = write[u]
          /\ Takes(v) \/ Proceeds(v)
        BY <1>3, AnswerMoves
    <2>2. ASSUME NEW w \in Writes
          PROVE  /\ write'[w].pc # "done" => write'[w].result = "none"
                 /\ write'[w].pc # "idle" =>
                       write'[w].att \in Starts /\ write'[w].q \in Questions
        BY <2>1 DEF AnswerInv, Takes, Proceeds
    <2>3. \A w \in Writes : write[w].result = "ok" => write[w].pc = "done" /\ write'[w] = write[w]
        BY SaidStays DEF AnswerInv
    <2>4. CASE answer' = answer /\ write'[v].result # "ok"
        <3>1. \A w \in Writes : write'[w].result = "ok" => write[w].result = "ok"
            BY <2>1, <2>4
        <3>2. ASSUME NEW w \in Writes, write'[w].result = "ok", AloneInCell(w)'
              PROVE  Cell(w)' = write'[w].rows
            <4>1. /\ write'[w] = write[w] /\ write[w].result = "ok" /\ write[w].pc = "done"
                  /\ AloneInCell(w)
                BY <2>3, <3>1, <3>2, SaidStays
            <4> QED BY <4>1, <2>4 DEF AnswerInv, Cell
        <3>3. ASSUME NEW s \in Starts, NEW q \in Questions, answer'[s][q] # {}
              PROVE  \E w \in Writes :
                        write'[w].att = s /\ write'[w].q = q /\ write'[w].result = "ok"
            BY <2>3, <2>4, <3>3 DEF AnswerInv
        <3> QED BY <1>1, <2>2, <3>2, <3>3 DEF AnswerInv
    <2>5. CASE Proceeds(v) /\ write'[v].pc = "done" /\ write'[v].result = "ok" /\ Stores(v)
        <3> DEFINE a == write[v].att
                   c == write[v].q
        <3>1. a \in Starts /\ c \in Questions /\ write[v].result = "none"
            BY <2>5 DEF AnswerInv, Proceeds
        <3>2. /\ answer'[a][c] = (answer[a][c] \ write[v].gone) \cup write[v].rows
              /\ \A s \in Starts, q \in Questions : s # a \/ q # c => answer'[s][q] = answer[s][q]
            BY <1>0, <2>5, <3>1 DEF Stores, Cell, Sheet
        <3>3. write'[v].att = a /\ write'[v].q = c /\ write'[v].rows = write[v].rows
            BY <2>5 DEF Proceeds
        <3> HIDE DEF a, c
        <3>4. ASSUME NEW w \in Writes, write'[w].result = "ok", AloneInCell(w)'
              PROVE  Cell(w)' = write'[w].rows
            <4>1. CASE w = v
                <5>1. answer[a][c] = {}
                    <6> SUFFICES ASSUME answer[a][c] # {} PROVE FALSE
                        OBVIOUS
                    <6>1. PICK u \in Writes : /\ write[u].att = a /\ write[u].q = c
                                              /\ write[u].result = "ok"
                        BY <3>1 DEF AnswerInv
                    <6>2. u # v /\ write'[u] = write[u] /\ write[u].pc = "done"
                        BY <6>1, <2>3, <3>1
                    <6> QED BY <6>1, <6>2, <3>3, <3>4, <4>1 DEF AloneInCell, SameCell
                <5> QED BY <5>1, <4>1, <3>2, <3>3 DEF Cell
            <4>2. CASE w # v
                <5>1. /\ write'[w] = write[w] /\ write[w].result = "ok" /\ write[w].pc = "done"
                      /\ AloneInCell(w)
                    BY <4>2, <2>1, <3>4, SaidStays DEF AnswerInv
                <5>2. ~ SameCell(v, w) /\ Cell(w) = write[w].rows
                    BY <5>1, <4>2, <2>5 DEF AloneInCell, Proceeds, AnswerInv
                <5>3. write[w].att \in Starts /\ write[w].q \in Questions
                    BY <5>1 DEF AnswerInv
                <5>4. write[w].att # a \/ write[w].q # c
                    BY <5>2 DEF SameCell, a, c
                <5> QED BY <5>1, <5>2, <5>3, <5>4, <3>2 DEF Cell
            <4> QED BY <4>1, <4>2
        <3>5. ASSUME NEW s \in Starts, NEW q \in Questions, answer'[s][q] # {}
              PROVE  \E w \in Writes :
                        write'[w].att = s /\ write'[w].q = q /\ write'[w].result = "ok"
            <4>1. CASE s = a /\ q = c
                BY <4>1, <3>3, <2>5
            <4>2. CASE s # a \/ q # c
                BY <4>2, <3>2, <3>5, <2>3 DEF AnswerInv
            <4> QED BY <4>1, <4>2
        <3> QED BY <1>1, <2>2, <3>4, <3>5 DEF AnswerInv
    <2>6. write[v].pc # "done" => write[v].result = "none"
        BY DEF AnswerInv
    <2> QED BY <2>1, <2>4, <2>5, <2>6 DEF Takes, Proceeds
<1> QED BY <1>2, <1>3, AnswerOrNot

(* Every Answer that said its rows are stored stored them, and they are there *)
(* as long as no other came to the same question.                           *)
LEMMA AnswersInvariant == Spec => []AnswerInv
<1>1. AttemptInv /\ AnswerInv /\ [Next]_vars => AnswerInv'
    BY AnswerNext
<1> QED BY <1>1, AnswerInit, AttemptsInvariant, PTL DEF Spec

\* An attempt that is closed stays closed, and an Answer that had not come in
\* when it was is not of this attempt, or refused.
Late(w, a) == /\ Closed(a)
              /\ write[w].att = a /\ write[w].pc # "idle" =>
                    write[w].pc = "done" /\ write[w].result # "ok"

LEMMA ClosedStays ==
    ASSUME AttemptInv, AnswerInv, [Next]_vars, NEW a \in Starts, Closed(a)
    PROVE  Closed(a)'
<1>1. now' \in Int /\ now \in Int /\ now <= now'
    <2>1. now \in 0..MaxTime /\ MaxTime \in Nat
        BY TimeAssumption DEF AttemptInv, TypeOK
    <2>2. now' = now \/ now' = now + 1
        BY DEF Next, StartStep, AnswerStep, FinishStep, StartBegin, StartGate, StartCount,
               StartFind, StartExam, StartAforo, StartConsume, StartUsage, StartSave, StartWinner,
               StartFails, AnswerBegin, AnswerDelete, AnswerInsert, AnswerFails, FinishBegin,
               FinishList, FinishWrite, FinishFails, ExamToggles, KeyCloses, Tick, vars
    <2> QED BY <2>1, <2>2
<1>2. CASE attempt[a].st = "submitted"
    BY <1>2, RowsMove DEF Closed
<1>3. CASE TimeIsUp(a)
    <2>1. attempt[a] \in Attempt
        BY DEF AttemptInv, TypeOK
    <2>2. attempt[a].timer \in Nat /\ attempt[a].startedAt \in Nat /\ Grace \in Nat
        BY <2>1, TimeAssumption DEF Attempt
    <2>3. attempt[a].st # "none"
        BY <1>3, <2>2 DEF TimeIsUp, AnswerInv
    <2>4. attempt'[a].timer = attempt[a].timer /\ attempt'[a].startedAt = attempt[a].startedAt
        BY <2>3, RowsMove
    <2> QED BY <1>1, <1>3, <2>2, <2>4 DEF TimeIsUp, Closed
<1> QED BY <1>2, <1>3 DEF Closed

LEMMA LateStays ==
    ASSUME AttemptInv, AnswerInv, [Next]_vars, NEW w \in Writes, NEW a \in Starts, Late(w, a)
    PROVE  Late(w, a)'
<1>1. Closed(a) /\ Closed(a)'
    BY ClosedStays DEF Late
<1>2. CASE UNCHANGED <<answer, write>>
    BY <1>1, <1>2 DEF Late
<1>3. ASSUME NEW v \in Writes, AnswerBegin(v) \/ AnswerStep(v) \/ AnswerFails(v)
      PROVE  Late(w, a)'
    <2>1. /\ \A u \in Writes \ {v} : write'[u] = write[u]
          /\ Takes(v) \/ Proceeds(v)
        BY <1>3, AnswerMoves
    <2>2. CASE v # w
        BY <1>1, <2>1, <2>2 DEF Late
    <2>3. CASE v = w /\ Takes(v)
        BY <1>1, <2>3 DEF Late, Takes
    <2>4. CASE v = w /\ Proceeds(v)
        BY <1>1, <2>4 DEF Late, Proceeds
    <2> QED BY <2>1, <2>2, <2>3, <2>4
<1> QED BY <1>2, <1>3, AnswerOrNot

(* For any requests, an Answer that comes in after the attempt was submitted, *)
(* or after its limit and the grace, is never stored.                       *)
THEOREM LateTheorem == Spec => LateAnswersRefused
<1>1. ASSUME NEW w \in Writes, NEW a \in Starts
      PROVE  Spec => [](write[w].pc = "idle" /\ Closed(a) =>
                          [](write[w].att = a => write[w].result # "ok"))
    <2>1. write[w].pc = "idle" /\ Closed(a) => Late(w, a)
        BY DEF Late
    <2>2. AttemptInv /\ AnswerInv /\ Late(w, a) /\ [Next]_vars => Late(w, a)'
        BY LateStays
    <2>3. AnswerInv /\ Late(w, a) => (write[w].att = a => write[w].result # "ok")
        BY DEF Late, AnswerInv
    <2> QED BY <2>1, <2>2, <2>3, AttemptsInvariant, AnswersInvariant, PTL DEF Spec
<1> QED BY <1>1 DEF LateAnswersRefused
\* What a Finish read, and what counted, holds the answers of those who had been
\* told so when it came in and are alone in their cell.
Holds(f, sheets) == \A w \in finish[f].before :
                        write[w].att = finish[f].att /\ AloneInCell(w) =>
                            \A sheet \in sheets : sheet[write[w].q] = write[w].rows

KeptInv ==
    \A f \in Finishes :
        /\ finish[f].before \subseteq { w \in Writes : write[w].result = "ok" }
        /\ finish[f].pc = "write" => Holds(f, finish[f].read)
        /\ finish[f].result = "won" => /\ finish[f].pc = "done" /\ finish[f].att \in Starts
                                       /\ attempt[finish[f].att].st = "submitted"
                                       /\ Holds(f, attempt[finish[f].att].grade)

LEMMA KeptInit == Init => KeptInv
BY DEF Init, KeptInv

(* What an answer sheet holds of the answers acknowledged is not lost by a step  *)
(* that leaves the Finish where it is.                                       *)
LEMMA HoldsStays ==
    ASSUME AttemptInv, AnswerInv, [Next]_vars, NEW f \in Finishes, NEW sheets,
           finish[f].before \subseteq { w \in Writes : write[w].result = "ok" },
           finish'[f].before = finish[f].before, finish'[f].att = finish[f].att
    PROVE  /\ \A w \in finish[f].before :
                 write'[w] = write[w] /\ (AloneInCell(w)' => AloneInCell(w))
           /\ Holds(f, sheets) => \A w \in finish'[f].before :
                 write'[w].att = finish'[f].att /\ AloneInCell(w)' =>
                     \A sheet \in sheets : sheet[write'[w].q] = write'[w].rows
<1>1. ASSUME NEW w \in finish[f].before
      PROVE  write'[w] = write[w] /\ (AloneInCell(w)' => AloneInCell(w))
    <2>1. w \in Writes /\ write[w].pc = "done"
        BY DEF AnswerInv
    <2> QED BY <2>1, SaidStays
<1> QED BY <1>1 DEF Holds

(* A Finish that does not move keeps what it holds.                          *)
LEMMA KeptStays ==
    ASSUME AttemptInv, AnswerInv, KeptInv, [Next]_vars, NEW f \in Finishes, finish'[f] = finish[f]
    PROVE  /\ finish'[f].before \subseteq { w \in Writes : write'[w].result = "ok" }
           /\ finish'[f].pc = "write" => Holds(f, finish[f].read)'
           /\ finish'[f].result = "won" => /\ finish'[f].pc = "done" /\ finish'[f].att \in Starts
                                           /\ attempt'[finish'[f].att].st = "submitted"
                                           /\ Holds(f, attempt[finish[f].att].grade)'
<1>1. finish[f].before \subseteq { w \in Writes : write[w].result = "ok" }
    BY DEF KeptInv
<1>2. \A w \in finish[f].before : write'[w] = write[w]
    BY <1>1, HoldsStays
<1>3. ASSUME finish[f].pc = "write" PROVE Holds(f, finish[f].read)'
    <2>1. Holds(f, finish[f].read)
        BY <1>3 DEF KeptInv
    <2> QED BY <1>1, <2>1, HoldsStays DEF Holds
<1>4. ASSUME finish[f].result = "won"
      PROVE  /\ finish'[f].pc = "done" /\ finish'[f].att \in Starts
             /\ attempt'[finish'[f].att].st = "submitted"
             /\ Holds(f, attempt[finish[f].att].grade)'
    <2>1. /\ finish[f].pc = "done" /\ finish[f].att \in Starts
          /\ attempt[finish[f].att].st = "submitted"
          /\ Holds(f, attempt[finish[f].att].grade)
        BY <1>4 DEF KeptInv
    <2>2. attempt'[finish[f].att] = attempt[finish[f].att]
        BY <2>1, RowsMove
    <2> QED BY <1>1, <2>1, <2>2, HoldsStays DEF Holds
<1> QED BY <1>1, <1>2, <1>3, <1>4

LEMMA KeptNext ==
    ASSUME AttemptInv, AnswerInv, KeptInv, [Next]_vars
    PROVE  KeptInv'
<1>0. finish \in [Finishes -> Finish] /\ attempt \in [Starts -> Attempt]
    BY DEF AttemptInv, TypeOK
<1>1. CASE finish' = finish
    BY <1>1, KeptStays DEF KeptInv
<1>2. ASSUME NEW g \in Finishes, FinishBegin(g) \/ FinishStep(g) \/ FinishFails(g)
      PROVE  KeptInv'
    <2>1. \A f \in Finishes \ {g} : finish'[f] = finish[f]
        BY <1>0, <1>2 DEF FinishBegin, FinishStep, FinishList, FinishWrite, FinishFails, FinishEnds
    <2>2. finish[g] \in Finish
        BY <1>0
    <2>3. write' = write /\ answer' = answer
        BY <1>2 DEF FinishBegin, FinishStep, FinishList, FinishWrite, FinishFails, tables
    <2>4. SUFFICES /\ finish'[g].before \subseteq { w \in Writes : write[w].result = "ok" }
                   /\ finish'[g].pc = "write" => Holds(g, finish[g].read)'
                   /\ finish'[g].result = "won" =>
                          /\ finish'[g].pc = "done" /\ finish'[g].att \in Starts
                          /\ attempt'[finish'[g].att].st = "submitted"
                          /\ Holds(g, attempt[finish[g].att].grade)'
        BY <2>1, <2>3, KeptStays DEF KeptInv
    <2>5. CASE FinishBegin(g)
        <3>1. PICK p \in {"done", "list"}, r \in {"already", "none"}, a \in Starts :
                 finish' = [finish EXCEPT ![g] =
                    [finish[g] EXCEPT !.att = a,
                              !.before = { w \in Writes : write[w].result = "ok" },
                              !.pc = p, !.result = r]]
            BY <2>5, Zenon DEF FinishBegin
        <3> QED BY <1>0, <2>2, <3>1 DEF Finish
    <2>6. ASSUME NEW r \in {"notFound", "scanError", "failed"}, FinishEnds(g, r)
          PROVE  /\ finish'[g].before = finish[g].before
                 /\ finish'[g].pc = "done" /\ finish'[g].result = r
        BY <1>0, <2>2, <2>6 DEF FinishEnds, Finish
    <2>7. CASE FinishFails(g)
        BY <2>6, <2>7 DEF FinishFails, KeptInv
    <2>8. CASE FinishList(g)
        <3> DEFINE a == finish[g].att
        <3>1. CASE FinishEnds(g, "scanError")
            BY <2>6, <3>1 DEF KeptInv
        <3>2. CASE finish' = [finish EXCEPT ![g].pc = "write", ![g].read = {answer[a]}]
            <4>1. /\ finish'[g].pc = "write" /\ finish'[g].read = {answer[a]}
                  /\ finish'[g].before = finish[g].before /\ finish'[g].att = a
                  /\ finish'[g].result = finish[g].result
                BY <1>0, <2>2, <3>2 DEF Finish
            <4>2. finish[g].result # "won"
                BY <2>8 DEF FinishList, KeptInv
            <4>3. \A w \in finish[g].before :
                     write[w].att = a /\ AloneInCell(w) => answer[a][write[w].q] = write[w].rows
                BY DEF KeptInv, AnswerInv, Cell
            <4>4. Holds(g, {answer[a]})
                BY <4>3 DEF Holds
            <4> QED BY <2>3, <4>1, <4>2, <4>4 DEF KeptInv, Holds, AloneInCell, SameCell
        <3> QED BY <2>8, <3>1, <3>2 DEF FinishList
    <2>9. CASE FinishWrite(g)
        <3> DEFINE a == finish[g].att
        <3>1. a \in Starts
            BY <2>9 DEF FinishWrite, AttemptInv, Finishing
        <3>2. CASE FinishEnds(g, "notFound")
            BY <2>6, <3>2 DEF KeptInv
        <3>3. CASE /\ FinishEnds(g, "won")
                   /\ attempt' = [attempt EXCEPT ![a].st = "submitted", ![a].grade = finish[g].read]
            <4>1. /\ finish'[g].pc = "done" /\ finish'[g].before = finish[g].before
                  /\ finish'[g].att = a /\ finish'[g].read = finish[g].read
                BY <1>0, <2>2, <3>3 DEF Finish, FinishEnds
            <4>2. attempt[a] \in Attempt
                BY <1>0, <3>1
            <4>3. attempt'[a].st = "submitted" /\ attempt'[a].grade = finish[g].read
                BY <1>0, <3>1, <3>3, <4>2 DEF Attempt
            <4>4. Holds(g, finish[g].read)
                BY <2>9 DEF FinishWrite, KeptInv
            <4> QED BY <2>3, <3>1, <4>1, <4>3, <4>4 DEF KeptInv, Holds, AloneInCell, SameCell
        <3> QED BY <2>9, <3>2, <3>3 DEF FinishWrite
    <2> QED BY <1>2, <2>5, <2>7, <2>8, <2>9 DEF FinishStep
<1> QED BY <1>1, <1>2
        DEF Next, StartStep, AnswerStep, StartBegin, StartGate, StartCount, StartFind, StartExam,
            StartAforo, StartConsume, StartUsage, StartSave, StartWinner, StartFails, AnswerBegin,
            AnswerDelete, AnswerInsert, AnswerFails, ExamToggles, KeyCloses, Tick, vars

(* For any requests, the grade holds every answer that was acknowledged before *)
(* the Finish call came in and whose question no other Answer came to.       *)
THEOREM KeepsAnswersTheorem == Spec => []GradeKeepsAnswers
<1>1. AttemptInv /\ AnswerInv /\ KeptInv /\ [Next]_vars => KeptInv'
    BY KeptNext
<1>2. KeptInv => GradeKeepsAnswers
    BY DEF KeptInv, Holds, GradeKeepsAnswers
<1> QED BY <1>1, <1>2, KeptInit, AttemptsInvariant, AnswersInvariant, PTL DEF Spec
=============================================================================
