--------------------------- MODULE AttemptService ---------------------------
(***************************************************************************)
(* exams_service: the attempts of the students, from StartAttempt, which    *)
(* spends a seat of a key of keys_service, through Answer to FinishAttempt. *)
(*                                                                         *)
(* The shared state is the tables exam_attempt and attempt_answer, and what *)
(* this service sees of the keys.  A handler runs one SQL statement, here   *)
(* or in keys_service, per action; any other may run in between, and any    *)
(* may fail.  The call a start made names the row it inserted.              *)
(*                                                                         *)
(* The questions, their options and their points are constant here: the    *)
(* score is a function of the answers Finish read, so the answers stand     *)
(* for it (`grade`).  An optional value is a set of at most one element.    *)
(***************************************************************************)
EXTENDS Integers, FiniteSets

CONSTANTS
    Users, Questions,
    Exams, ExamOf,    \* [Exams -> [type, nacional, max, timer]]
    Keys, KeyOf,      \* [Keys -> [type, masivo, max, perUser]]
    OptionsOf,        \* [Questions -> set of options]
    NullOption,       \* the option of the row that holds a free text
    Starts, Writes, Finishes,   \* the StartAttempt, Answer, Finish requests
    Inputs,           \* what an Answer may carry: a question and rows
    Grace,            \* answerGrace
    MaxTime,          \* last instant of the clock
    NoOne             \* neither a user, an exam, a question nor a start

Ptr(S) == { p \in SUBSET S : \A v, w \in p : v = w }

Rows == UNION { OptionsOf[q] : q \in Questions } \cup {NullOption}

Sheet == [Questions -> SUBSET Rows]

ASSUME StartsAssumption == IsFiniteSet(Starts)
ASSUME InputsAssumption == Inputs \subseteq [q: Questions, rows: SUBSET Rows]
ASSUME NoOneAssumption == NoOne \notin Users \cup Exams \cup Questions \cup Starts
ASSUME ExamsAssumption ==
    ExamOf \in [Exams -> [type: Nat, nacional: BOOLEAN, max: Nat, timer: Nat]]
ASSUME KeysAssumption ==
    KeyOf \in [Keys -> [type: Nat, masivo: BOOLEAN, max: Nat, perUser: Nat]]
ASSUME TimeAssumption == MaxTime \in Nat /\ Grace \in Nat

VARIABLES
    attempt,   \* table exam_attempt
    answer,    \* table attempt_answer: the rows of each attempt and question
    open,      \* the exams that are published, active and in their window
    usable,    \* the keys that are active and in their window
    taken,     \* seats handed out of each key
    holders,   \* students of each key with a row in key_usage
    start, write, finish,     \* the requests
    now

tables == <<attempt, answer>>
keys == <<usable, taken, holders>>
vars == <<attempt, answer, open, keys, start, write, finish, now>>

Attempt == [st: {"none", "open", "submitted"}, exam: Exams \cup {NoOne},
            user: Users \cup {NoOne}, key: Ptr(Keys), startedAt: Nat,
            timer: Nat, grade: Ptr(Sheet)]

\* `there` and `spent` are history: the attempts there were, and those that were
\* submitted, when the request came in.
Start == [pc: {"idle", "gate", "count", "find", "exam", "aforo", "consume",
               "usage", "save", "winner", "done"},
          exam: Exams \cup {NoOne}, user: Users \cup {NoOne}, key: Ptr(Keys),
          consumed: BOOLEAN, got: Ptr(Starts),
          there: SUBSET Starts, spent: SUBSET Starts,
          result: {"none", "created", "reused", "refused", "failed"}]

Write == [pc: {"idle", "delete", "insert", "done"}, att: Starts \cup {NoOne},
          q: Questions \cup {NoOne}, rows: SUBSET Rows, gone: SUBSET Rows,
          result: {"none", "ok", "refused", "failed"}]

\* `before` is history: the Answers acknowledged when the Finish came in.
Finish == [pc: {"idle", "list", "write", "done"}, att: Starts \cup {NoOne},
           read: Ptr(Sheet), before: SUBSET Writes,
           result: {"none", "won", "already", "notFound", "scanError", "failed"}]

NoAttempt == [st |-> "none", exam |-> NoOne, user |-> NoOne, key |-> {},
              startedAt |-> 0, timer |-> 0, grade |-> {}]

Init ==
    /\ attempt = [s \in Starts |-> NoAttempt]
    /\ answer = [s \in Starts |-> [q \in Questions |-> {}]]
    /\ open \in SUBSET Exams
    /\ usable = Keys
    /\ taken = [k \in Keys |-> 0]
    /\ holders = [k \in Keys |-> {}]
    /\ start = [s \in Starts |-> [pc |-> "idle", exam |-> NoOne, user |-> NoOne,
                                  key |-> {}, consumed |-> FALSE, got |-> {},
                                  there |-> {}, spent |-> {}, result |-> "none"]]
    /\ write = [w \in Writes |-> [pc |-> "idle", att |-> NoOne, q |-> NoOne,
                                  rows |-> {}, gone |-> {}, result |-> "none"]]
    /\ finish = [f \in Finishes |-> [pc |-> "idle", att |-> NoOne, read |-> {},
                                     before |-> {}, result |-> "none"]]
    /\ now = 0

(***************************************************************************)
(* The surroundings: time, the exams' administration, keys_service          *)
(***************************************************************************)

Tick == /\ now < MaxTime
        /\ now' = now + 1
        /\ UNCHANGED <<tables, open, keys, start, write, finish>>

\* An exam is published, closed, reopened, or enters or leaves its window.
ExamToggles(e) == /\ open' = IF e \in open THEN open \ {e} ELSE open \cup {e}
                  /\ UNCHANGED <<tables, keys, start, write, finish, now>>

\* A key is deactivated or its window ends.
KeyCloses(k) == /\ k \in usable
                /\ usable' = usable \ {k}
                /\ UNCHANGED <<tables, open, taken, holders, start, write,
                               finish, now>>

(***************************************************************************)
(* StartAttempt                                                            *)
(***************************************************************************)

InStart(s, p) == start[s].pc = p
StartTo(s, p) == start' = [start EXCEPT ![s].pc = p]
StartEnds(s, r) == start' = [start EXCEPT ![s].pc = "done", ![s].result = r]

\* FindActiveByExamUser
Active(s) == { a \in Starts : /\ attempt[a].st = "open"
                              /\ attempt[a].exam = start[s].exam
                              /\ attempt[a].user = start[s].user }

\* CountSubmittedByKeyUser
Submitted(k, u) == { a \in Starts : /\ attempt[a].st = "submitted"
                                    /\ attempt[a].key = {k}
                                    /\ attempt[a].user = u }

\* CountActiveByExam: the distinct students with any attempt of the exam.
Participants(e) == { attempt[a].user : a \in { b \in Starts :
                        attempt[b].st # "none" /\ attempt[b].exam = e } }

Reuse(s, a) == start' = [start EXCEPT ![s].pc = "done", ![s].got = {a},
                                      ![s].result = "reused"]

\* The request comes in; with a code, Validate looks at the key, not at seats.
StartBegin(s) ==
    /\ InStart(s, "idle")
    /\ \E e \in Exams, u \in Users, k \in Ptr(Keys) :
         start' = [start EXCEPT ![s] =
                     [@ EXCEPT !.exam = e, !.user = u, !.key = k,
                               !.there = { a \in Starts : attempt[a].st # "none" },
                               !.spent = { a \in Starts : attempt[a].st = "submitted" },
                               !.pc = IF k = {} THEN "find"
                                      ELSE IF k \subseteq usable THEN "gate"
                                      ELSE "done",
                               !.result = IF k \subseteq usable THEN "none"
                                          ELSE "refused"]]
    /\ UNCHANGED <<tables, open, keys, write, finish, now>>

\* GetActiveByExamUser: only a student without an active attempt is counted.
StartGate(s) ==
    /\ InStart(s, "gate")
    /\ StartTo(s, IF /\ Active(s) = {}
                     /\ \E k \in start[s].key : KeyOf[k].perUser > 0
                  THEN "count" ELSE "find")
    /\ UNCHANGED <<tables, open, keys, write, finish, now>>

\* Variant: one attempt more is let through.
CountOneMore(s) ==
    /\ InStart(s, "count")
    /\ IF \E k \in start[s].key : /\ Cardinality(Submitted(k, start[s].user))
                                       > KeyOf[k].perUser
       THEN StartEnds(s, "refused") ELSE StartTo(s, "find")
    /\ UNCHANGED <<tables, open, keys, write, finish, now>>

StartCount(s) ==
    /\ InStart(s, "count")
    /\ IF \E k \in start[s].key : /\ Cardinality(Submitted(k, start[s].user))
                                       >= KeyOf[k].perUser
       THEN StartEnds(s, "refused") ELSE StartTo(s, "find")
    /\ UNCHANGED <<tables, open, keys, write, finish, now>>

\* Variant: the seat is spent before the exam is looked at.
ConsumeFirst(s) ==
    /\ InStart(s, "find")
    /\ \/ \E a \in Active(s) : Reuse(s, a) /\ UNCHANGED <<taken, holders>>
       \/ /\ Active(s) = {}
          /\ start' = [start EXCEPT ![s].pc = "exam", ![s].consumed = TRUE]
          /\ taken' = [k \in Keys |-> IF k \in start[s].key
                                      THEN taken[k] + 1 ELSE taken[k]]
          /\ holders' = [k \in Keys |-> IF k \in start[s].key
                            THEN holders[k] \cup {start[s].user} ELSE holders[k]]
    /\ UNCHANGED <<tables, open, usable, write, finish, now>>

StartFind(s) ==
    /\ InStart(s, "find")
    /\ \/ \E a \in Active(s) : Reuse(s, a)
       \/ Active(s) = {} /\ StartTo(s, "exam")
    /\ UNCHANGED <<tables, open, keys, write, finish, now>>

\* The key's type is the exam's, and a masivo key never opens the Nacional.
KeyFits(k, e) == /\ KeyOf[k].type \in {0, ExamOf[e].type}
                 /\ ~ (KeyOf[k].masivo /\ ExamOf[e].nacional)

StartExam(s) ==
    /\ InStart(s, "exam")
    /\ LET e == start[s].exam IN
       IF e \in open /\ \A k \in start[s].key : KeyFits(k, e)
       THEN StartTo(s, IF start[s].key # {} THEN "consume"
                       ELSE IF ExamOf[e].max > 0 THEN "aforo" ELSE "save")
       ELSE StartEnds(s, "refused")
    /\ UNCHANGED <<tables, open, keys, write, finish, now>>

StartAforo(s) ==
    /\ InStart(s, "aforo")
    /\ LET e == start[s].exam IN
       IF Cardinality(Participants(e)) >= ExamOf[e].max
       THEN StartEnds(s, "refused") ELSE StartTo(s, "save")
    /\ UNCHANGED <<tables, open, keys, write, finish, now>>

\* Variant: a seat too many.
SeatTooMany(k) == k \in usable /\ (KeyOf[k].max = 0 \/ taken[k] <= KeyOf[k].max)

SeatFor(k) == k \in usable /\ (KeyOf[k].max = 0 \/ taken[k] < KeyOf[k].max)

Served(s) == start' = [start EXCEPT ![s].pc = "save", ![s].consumed = TRUE]

TakesSeat(s, k) ==
    /\ SeatFor(k)
    /\ taken' = [taken EXCEPT ![k] = @ + 1]
    /\ start' = [start EXCEPT ![s].pc = "usage", ![s].consumed = TRUE]

\* Variant: the error of IncrementUsage is ignored.
ConsumeIgnored(s) ==
    /\ InStart(s, "consume")
    /\ \E k \in start[s].key :
         \/ TakesSeat(s, k)
         \/ ~ SeatFor(k) /\ Served(s) /\ UNCHANGED taken
    /\ UNCHANGED <<tables, open, usable, holders, write, finish, now>>

\* IncrementUsage, its first statement: a student with a row in key_usage is
\* served, another takes a seat, and nobody else is served.
StartConsume(s) ==
    /\ InStart(s, "consume")
    /\ \E k \in start[s].key :
         \/ start[s].user \in holders[k] /\ Served(s) /\ UNCHANGED taken
         \/ start[s].user \notin holders[k] /\ TakesSeat(s, k)
         \/ /\ start[s].user \notin holders[k] /\ ~ SeatFor(k)
            /\ StartEnds(s, "refused")
            /\ UNCHANGED taken
    /\ UNCHANGED <<tables, open, usable, holders, write, finish, now>>

\* IncrementUsage, its last: the row of key_usage; the answer may be lost.
StartUsage(s) ==
    /\ InStart(s, "usage")
    /\ \E k \in start[s].key :
         holders' = [holders EXCEPT ![k] = @ \cup {start[s].user}]
    /\ Served(s) \/ StartEnds(s, "failed")
    /\ UNCHANGED <<tables, open, usable, taken, write, finish, now>>

\* Save: INSERT, refused by uq_exam_attempt_active.
StartSave(s) ==
    /\ InStart(s, "save")
    /\ \/ /\ Active(s) # {}
          /\ StartTo(s, "winner")
          /\ UNCHANGED attempt
       \/ /\ Active(s) = {}
          /\ attempt' = [attempt EXCEPT ![s] =
               [st |-> "open", exam |-> start[s].exam, user |-> start[s].user,
                key |-> start[s].key, startedAt |-> now,
                timer |-> ExamOf[start[s].exam].timer, grade |-> {}]]
          /\ start' = [start EXCEPT ![s].pc = "done", ![s].got = {s},
                                    ![s].result = "created"]
    /\ UNCHANGED <<answer, open, keys, write, finish, now>>

\* The retry-find of the winner, which may have been submitted meanwhile.
StartWinner(s) ==
    /\ InStart(s, "winner")
    /\ \/ \E a \in Active(s) : Reuse(s, a)
       \/ Active(s) = {} /\ StartEnds(s, "failed")
    /\ UNCHANGED <<tables, open, keys, write, finish, now>>

\* A statement or the call to keys_service fails, or the pod dies.
StartFails(s) ==
    /\ start[s].pc \notin {"idle", "done"}
    /\ StartEnds(s, "failed")
    /\ UNCHANGED <<tables, open, keys, write, finish, now>>

(***************************************************************************)
(* Answer                                                                  *)
(***************************************************************************)

\* The limit of started_at plus the locked duration and the grace has passed.
TimeIsUp(a) == /\ attempt[a].timer > 0
               /\ now > attempt[a].startedAt + attempt[a].timer + Grace

\* Variant: the timer is checked, submitted_at is not.
AnswerBeginAnyState(w) ==
    /\ write[w].pc = "idle"
    /\ \E a \in Starts, i \in Inputs :
         /\ attempt[a].st # "none" /\ ~ TimeIsUp(a)
         /\ i.rows \ {NullOption} \subseteq OptionsOf[i.q]
         /\ write' = [write EXCEPT ![w] = [@ EXCEPT !.att = a, !.q = i.q,
                                              !.rows = i.rows, !.pc = "delete"]]
    /\ UNCHANGED <<tables, open, keys, start, finish, now>>

\* FindByID, submitted_at, the timer, and the options of the question.
AnswerBegin(w) ==
    /\ write[w].pc = "idle"
    /\ \E a \in Starts, i \in Inputs :
         /\ attempt[a].st # "none"
         /\ LET taking == /\ attempt[a].st = "open"
                          /\ ~ TimeIsUp(a)
                          /\ i.rows \ {NullOption} \subseteq OptionsOf[i.q]
            IN write' = [write EXCEPT ![w] =
                           [@ EXCEPT !.att = a, !.q = i.q, !.rows = i.rows,
                                     !.pc = IF taking THEN "delete" ELSE "done",
                                     !.result = IF taking THEN "none"
                                                ELSE "refused"]]
    /\ UNCHANGED <<tables, open, keys, start, finish, now>>

SameCell(v, w) == write[v].att = write[w].att /\ write[v].q = write[w].q

\* Rows deleted by an open transaction are locked until it ends.
Locked(w) == \E v \in Writes \ {w} : /\ write[v].pc = "insert"
                                     /\ write[v].gone # {}
                                     /\ SameCell(v, w)

Cell(w) == answer[write[w].att][write[w].q]

\* ReplaceAnswer: DELETE; it waits for locked rows, and locks those it finds.
AnswerDelete(w) ==
    /\ write[w].pc = "delete"
    /\ ~ Locked(w)
    /\ write' = [write EXCEPT ![w].pc = "insert", ![w].gone = Cell(w)]
    /\ UNCHANGED <<tables, open, keys, start, finish, now>>

\* Variant: the transaction is not committed.
InsertUncommitted(w) ==
    /\ write[w].pc = "insert"
    /\ write' = [write EXCEPT ![w].pc = "done", ![w].result = "ok"]
    /\ UNCHANGED <<tables, open, keys, start, finish, now>>

\* Variant: an INSERT that is refused is tried again.
InsertRetries(w) ==
    /\ write[w].pc = "insert"
    /\ write[w].rows \cap (Cell(w) \ write[w].gone) = {}
    /\ answer' = [answer EXCEPT ![write[w].att][write[w].q] =
                     (@ \ write[w].gone) \cup write[w].rows]
    /\ write' = [write EXCEPT ![w].pc = "done", ![w].result = "ok"]
    /\ UNCHANGED <<attempt, open, keys, start, finish, now>>

\* ReplaceAnswer: INSERT and COMMIT; pk_attempt_answer refuses an option that
\* is there, and the transaction is rolled back.  submitted_at is not read.
AnswerInsert(w) ==
    /\ write[w].pc = "insert"
    /\ LET rest == Cell(w) \ write[w].gone IN
       \/ /\ write[w].rows \cap rest = {}
          /\ answer' = [answer EXCEPT ![write[w].att][write[w].q] =
                                         rest \cup write[w].rows]
          /\ write' = [write EXCEPT ![w].pc = "done", ![w].result = "ok"]
       \/ /\ write[w].rows \cap rest # {}
          /\ write' = [write EXCEPT ![w].pc = "done", ![w].result = "failed"]
          /\ UNCHANGED answer
    /\ UNCHANGED <<attempt, open, keys, start, finish, now>>

\* The statement fails, or the pod dies: the transaction is rolled back.
AnswerFails(w) ==
    /\ write[w].pc \in {"delete", "insert"}
    /\ write' = [write EXCEPT ![w].pc = "done", ![w].result = "failed"]
    /\ UNCHANGED <<tables, open, keys, start, finish, now>>

(***************************************************************************)
(* Finish                                                                  *)
(***************************************************************************)

FinishEnds(f, r) == finish' = [finish EXCEPT ![f].pc = "done", ![f].result = r]

\* FindByID: a submitted attempt is returned as it is.
FinishBegin(f) ==
    /\ finish[f].pc = "idle"
    /\ \E a \in Starts :
         /\ attempt[a].st # "none"
         /\ LET already == attempt[a].st = "submitted" IN
            finish' = [finish EXCEPT ![f] =
               [@ EXCEPT !.att = a,
                         !.before = { w \in Writes : write[w].result = "ok" },
                         !.pc = IF already THEN "done" ELSE "list",
                         !.result = IF already THEN "already" ELSE "none"]]
    /\ UNCHANGED <<tables, open, keys, start, write, now>>

\* ListAnswers scans the option of every row into a string: NULL fails.
Unreadable(sheet) == \E q \in Questions : NullOption \in sheet[q]

\* The exam, its questions and the answers are read, and the score computed.
FinishList(f) ==
    /\ finish[f].pc = "list"
    /\ LET sheet == answer[finish[f].att] IN
       IF Unreadable(sheet)
       THEN FinishEnds(f, "scanError")
       ELSE finish' = [finish EXCEPT ![f].pc = "write", ![f].read = {sheet}]
    /\ UNCHANGED <<tables, open, keys, start, write, now>>

\* Variant: the UPDATE does not look at submitted_at.
FinishOverwrites(f) ==
    /\ finish[f].pc = "write"
    /\ attempt' = [attempt EXCEPT ![finish[f].att].st = "submitted",
                                  ![finish[f].att].grade = finish[f].read]
    /\ FinishEnds(f, "won")
    /\ UNCHANGED <<answer, open, keys, start, write, now>>

\* Finish of the repository: UPDATE ... WHERE submitted_at IS NULL.
FinishWrite(f) ==
    /\ finish[f].pc = "write"
    /\ LET a == finish[f].att IN
       \/ /\ attempt[a].st = "open"
          /\ attempt' = [attempt EXCEPT ![a].st = "submitted",
                                        ![a].grade = finish[f].read]
          /\ FinishEnds(f, "won")
       \/ /\ attempt[a].st = "submitted"
          /\ FinishEnds(f, "notFound")
          /\ UNCHANGED attempt
    /\ UNCHANGED <<answer, open, keys, start, write, now>>

FinishFails(f) ==
    /\ finish[f].pc \in {"list", "write"}
    /\ FinishEnds(f, "failed")
    /\ UNCHANGED <<tables, open, keys, start, write, now>>

-----------------------------------------------------------------------------

StartStep(s) == \/ StartGate(s) \/ StartCount(s) \/ StartFind(s) \/ StartExam(s)
                \/ StartAforo(s) \/ StartConsume(s) \/ StartUsage(s)
                \/ StartSave(s) \/ StartWinner(s)

AnswerStep(w) == AnswerDelete(w) \/ AnswerInsert(w)

FinishStep(f) == FinishList(f) \/ FinishWrite(f)

Next == \/ \E s \in Starts : StartBegin(s) \/ StartStep(s) \/ StartFails(s)
        \/ \E w \in Writes : AnswerBegin(w) \/ AnswerStep(w) \/ AnswerFails(w)
        \/ \E f \in Finishes : FinishBegin(f) \/ FinishStep(f) \/ FinishFails(f)
        \/ \E e \in Exams : ExamToggles(e)
        \/ \E k \in Keys : KeyCloses(k)
        \/ Tick

\* A request that came in runs on: a statement that is not blocked ends, or
\* fails and ends the request.
Fairness == /\ \A s \in Starts : WF_vars(StartStep(s))
            /\ \A w \in Writes : WF_vars(AnswerStep(w))
            /\ \A f \in Finishes : WF_vars(FinishStep(f))

Spec == Init /\ [][Next]_vars
FairSpec == Spec /\ Fairness
-----------------------------------------------------------------------------
(***************************************************************************)
(* Properties                                                              *)
(***************************************************************************)

TypeOK == /\ attempt \in [Starts -> Attempt]
          /\ answer \in [Starts -> Sheet]
          /\ open \subseteq Exams
          /\ usable \subseteq Keys
          /\ taken \in [Keys -> Nat]
          /\ holders \in [Keys -> SUBSET Users]
          /\ start \in [Starts -> Start]
          /\ write \in [Writes -> Write]
          /\ finish \in [Finishes -> Finish]
          /\ now \in 0..MaxTime

(* Every attempt started with a key belongs to a student keys_service has   *)
(* admitted to that key, so the limit of the key bounds the students who    *)
(* take its exams: no order of Validate, IncrementUsage and the INSERT, and *)
(* no error of the call, lets one in without a seat.                       *)
AttemptsHoldSeats ==
    \A s \in Starts : \A k \in attempt[s].key : attempt[s].user \in holders[k]

(* A seat is taken, and a student admitted, only by a StartAttempt whose     *)
(* checks it passed: it has an attempt to show for it, one about to be      *)
(* inserted, one that another call inserted first, or a call that failed    *)
(* after the seat was taken.  A refused call never costs a seat.           *)
Spenders(k) == { s \in Starts : /\ start[s].key = {k} /\ start[s].consumed
                                /\ start[s].result # "refused" }

SeatsBuyAttempts ==
    \A k \in Keys : /\ taken[k] <= Cardinality(Spenders(k))
                    /\ holders[k] \subseteq { start[s].user : s \in Spenders(k) }

(* What a start sees of keys_service is what keys_service promises: no      *)
(* order of the calls of a student, and no call that fails halfway, hands  *)
(* out a seat past the limit or admits more students than it has handed    *)
(* out seats.                                                              *)
Seats == INSTANCE SeatLedger WITH
    KeyIds <- Keys, cap <- [k \in Keys |-> KeyOf[k].max], Size <- Cardinality

SeatsLedger == Seats!Spec

(* The limits bind who comes in after they were reached.  A start whose      *)
(* student had by then submitted all the attempts of its key gets no other, *)
(* unless an attempt of the same exam that was not submitted yet hid the    *)
(* count from it and was submitted while it ran; and one without a key gets *)
(* none when the exam had its participants.                                *)
SpentUnder(s, k) == { a \in start[s].spent : /\ attempt[a].key = {k}
                                              /\ attempt[a].user = start[s].user }
SeenIn(s) == { attempt[a].user : a \in { b \in start[s].there :
                                            attempt[b].exam = start[s].exam } }
Hides(a, s) == /\ a \notin start[s].spent \cup {s}
               /\ attempt[a].exam = start[s].exam /\ attempt[a].user = start[s].user

LimitsBind ==
    \A s \in Starts : start[s].result = "created" =>
        /\ \A k \in start[s].key : KeyOf[k].perUser > 0 =>
             \/ Cardinality(SpentUnder(s, k)) < KeyOf[k].perUser
             \/ \E a \in Starts : Hides(a, s) /\ attempt[a].st = "submitted"
        /\ start[s].key = {} /\ ExamOf[start[s].exam].max > 0 =>
             Cardinality(SeenIn(s)) < ExamOf[start[s].exam].max

(* Two Finish calls that read different answers never both count: the       *)
(* grade and the state of a submitted attempt are final.                   *)
GradeFinal ==
    [][\A s \in Starts : attempt[s].st = "submitted" =>
                              attempt'[s] = attempt[s]]_vars

(* No acknowledged answer is lost: the grade holds every answer that was    *)
(* acknowledged before the Finish call came in, when no other Answer of the *)
(* question overlapped it or came after it.                                *)
AloneInCell(w) == \A v \in Writes \ {w} : write[v].pc = "idle" \/ ~ SameCell(v, w)

GradeKeepsAnswers ==
    \A f \in Finishes : finish[f].result = "won" =>
        \A w \in finish[f].before :
            write[w].att = finish[f].att /\ AloneInCell(w) =>
                \A sheet \in attempt[finish[f].att].grade :
                    sheet[write[w].q] = write[w].rows

(* An Answer that comes in after the attempt was submitted, or after its    *)
(* limit and the grace, is never stored, whatever runs beside it.          *)
Closed(a) == attempt[a].st = "submitted" \/ TimeIsUp(a)

LateAnswersRefused ==
    \A w \in Writes, a \in Starts :
        [](write[w].pc = "idle" /\ Closed(a) =>
             [](write[w].att = a => write[w].result # "ok"))

(* Answers to one question wait for each other's rows, and none waits for   *)
(* ever: every Answer is stored, refused or reported failed.               *)
AnswersSettle == \A w \in Writes : write[w].pc # "idle" ~> write[w].pc = "done"

(* What keys_service's max_attempts_per_user is documented to govern: a     *)
(* student never submits more attempts under a key than it allows.         *)
AttemptLimit ==
    \A k \in Keys, u \in Users :
        KeyOf[k].perUser > 0 => Cardinality(Submitted(k, u)) <= KeyOf[k].perUser

(* What the comment of StartAttempt says: with an active attempt it answers *)
(* Reused and spends no seat.                                              *)
ReusedSpendsNothing ==
    \A s \in Starts : start[s].result = "reused" => ~ start[s].consumed

(* What the header of the commands says of Start without a key: it checks   *)
(* that the limit of participants of the exam is not reached.              *)
ExamLimit ==
    \A e \in Exams :
        ExamOf[e].max > 0 => Cardinality(Participants(e)) <= ExamOf[e].max

(* What the header says: once submitted, no Answer.                         *)
SubmittedIsClosed ==
    [][\A s \in Starts : attempt[s].st = "submitted" =>
                              answer'[s] = answer[s]]_vars

(* What the header says of Answer: a new answer overwrites the one before,  *)
(* so the rows of a question are those of one call.                        *)
OneAnswerPerQuestion ==
    \A s \in Starts, q \in Questions : answer[s][q] # {} =>
        \E w \in Writes : /\ write[w].att = s /\ write[w].q = q
                         /\ write[w].rows = answer[s][q]

(* What the comment of Finish says: it is idempotent.                       *)
FinishIdempotent == \A f \in Finishes : finish[f].result # "notFound"

(* What the comment of Answer says: the student can always submit.          *)
AlwaysSubmits == \A f \in Finishes : finish[f].result # "scanError"
=============================================================================
