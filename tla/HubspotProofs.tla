--------------------------- MODULE HubspotProofs ----------------------------
(***************************************************************************)
(* Theorems about hubspot_service, for any requests, jobs, workers, sizes   *)
(* and numbers of retries: a task of the engine is in one place, what its   *)
(* caller is told is true; upserts recover, and a mail is never built from  *)
(* an older code; data of one id takes effect in the order of acceptance.   *)
(***************************************************************************)
EXTENDS RequestsEngine, SyncJobs, SequenceTheorems, FiniteSetTheorems, TLAPS

(***************************************************************************)
(* The engine                                                               *)
(*                                                                         *)
(* InOnePlace and OutcomeTrue are not inductive: that a task is not queued  *)
(* twice rests on a call that was not made having left no trace, and the    *)
(* bound on what is sent on the attempts counting what was sent.            *)
(***************************************************************************)

Distinct == \A i, j \in DOMAIN tasks : tasks[i] = tasks[j] => i = j
Channel == Len(tasks) <= QueueSize /\ Distinct

\* A task has one worker at most, and only a worker that is at work has one.
Single == \A v, w \in Workers :
             worker[v].task = worker[w].task /\ worker[v].task # NoCall => v = w
AtWork(w) ==
    /\ worker[w].pc \in {"idle", "exited"} <=> worker[w].task = NoCall
    /\ worker[w].pc \in {"acquire", "send"} =>
          sent[worker[w].task] <= worker[w].attempt
    /\ worker[w].pc = "answer" => worker[w].answer # "none"
    /\ worker[w].pc = "answer" /\ worker[w].answer = "ok" =>
          worker[w].task \in applied

\* A call that was not made, or panicked, left nothing behind.
Unseen(c) == ~ Queued(c) /\ ~ Held(c) /\ sent[c] = 0
Placed(c) ==
    /\ Queued(c) => ~ Held(c) /\ sent[c] = 0
    /\ Queued(c) \/ Held(c) => respC[c] = "none"
    /\ call[c].pc = "wait" => Queued(c) \/ Held(c) \/ respC[c] # "none"
    /\ call[c].pc = "idle" => call[c].result = "none" /\ respC[c] = "none" /\ Unseen(c)
    /\ call[c].pc # "done" => call[c].result = "none"
    /\ call[c].result = "panic" => Unseen(c)
    /\ respC[c] = "ok" \/ call[c].result = "ok" => c \in applied
    /\ sent[c] <= MaxRetries + 1

EngineInv == /\ TypeOK /\ Channel /\ Single
             /\ \A w \in Workers : AtWork(w)
             /\ \A c \in Calls : Placed(c)

(* What the invariant is for.                                                *)
LEMMA EngineInvImplies == EngineInv => InOnePlace /\ OutcomeTrue
<1> SUFFICES ASSUME EngineInv PROVE InOnePlace /\ OutcomeTrue
    OBVIOUS
<1>1. ASSUME NEW c \in Calls, NEW v \in Workers, NEW w \in Workers,
             Holds(v, c), Holds(w, c)
      PROVE  v = w
    BY <1>1, NoCallAssumption DEF EngineInv, Single, Holds
<1>2. InOnePlace
    BY <1>1 DEF EngineInv, InOnePlace, Channel, Distinct, Placed
<1>3. OutcomeTrue
    BY DEF EngineInv, OutcomeTrue, Placed, Unseen
<1> QED BY <1>2, <1>3

(* Nothing is in the channel and nobody works at first.                      *)
LEMMA EngineInvInit == Init => EngineInv
<1> SUFFICES ASSUME Init PROVE EngineInv
    OBVIOUS
<1> USE SizesAssumption, RPSAssumption, NoCallAssumption
<1> DEFINE i == [pc |-> "idle", task |-> NoCall, attempt |-> 0, answer |-> "none"]
           n == [pc |-> "idle", result |-> "none"]
<1>7. i \in Worker /\ n \in Call
    BY DEF Worker, Call, Answers
<1>8. worker = [w \in Workers |-> i] /\ call = [c \in Calls |-> n]
    BY DEF Init, Idle
<1> HIDE DEF i, n
<1>9. worker \in [Workers -> Worker] /\ call \in [Calls -> Call]
    BY <1>7, <1>8
<1>1. TypeOK
    <2>1. tasks \in Seq(Calls) /\ closed \in BOOLEAN /\ applied \subseteq Calls
        BY EmptySeq DEF Init
    <2>2. respC \in [Calls -> Answers \cup {"none"}] /\ sent \in [Calls -> Nat]
        BY DEF Init
    <2>3. others \in 0..MaxOthers /\ backlog \in [Tokens -> 0..RPS]
        BY DEF Init, PoolInit
    <2> QED BY <1>9, <2>1, <2>2, <2>3 DEF TypeOK, PoolTypeOK
<1>2. Channel /\ \A c \in Calls : ~ Queued(c)
    BY DEF Init, Channel, Distinct, Queued
<1>3. \A w \in Workers : worker[w].task = NoCall /\ worker[w].pc = "idle"
    BY DEF Init, Idle
<1>4. \A c \in Calls : ~ Held(c)
    BY <1>3 DEF Held, Holds
<1>5. Single /\ \A w \in Workers : AtWork(w)
    BY <1>3 DEF Single, AtWork
<1>6. \A c \in Calls : Placed(c)
    BY <1>2, <1>4 DEF Init, Placed, Unseen
<1> QED BY <1>1, <1>2, <1>5, <1>6 DEF EngineInv

(* What Append and Tail do to the channel.                                   *)
LEMMA AppendQueued ==
    ASSUME tasks \in Seq(Calls), NEW c \in Calls, tasks' = Append(tasks, c)
    PROVE  /\ tasks' \in Seq(Calls) /\ Len(tasks') = Len(tasks) + 1
           /\ \A d \in Calls : Queued(d)' <=> Queued(d) \/ d = c
           /\ Distinct /\ ~ Queued(c) => Distinct'
<1>1. /\ tasks' \in Seq(Calls) /\ Len(tasks') = Len(tasks) + 1
      /\ DOMAIN tasks' = 1..(Len(tasks) + 1) /\ DOMAIN tasks = 1..Len(tasks)
      /\ Len(tasks) \in Nat
      /\ \A i \in 1..Len(tasks) : tasks'[i] = tasks[i]
      /\ tasks'[Len(tasks) + 1] = c
    BY AppendProperties
<1>2. \A d \in Calls : Queued(d)' <=> Queued(d) \/ d = c
    BY <1>1 DEF Queued
<1>3. Distinct /\ ~ Queued(c) => Distinct'
    BY <1>1 DEF Queued, Distinct
<1> QED BY <1>1, <1>2, <1>3

(* What is in the channel after a receive was there before.                  *)
LEMMA TailQueued ==
    ASSUME tasks \in Seq(Calls), tasks # <<>>, tasks' = Tail(tasks), Distinct
    PROVE  /\ tasks' \in Seq(Calls) /\ Len(tasks') = Len(tasks) - 1
           /\ Head(tasks) \in Calls /\ Queued(Head(tasks))
           /\ \A d \in Calls : Queued(d)' <=> Queued(d) /\ d # Head(tasks)
           /\ Distinct'
<1>1. /\ tasks' \in Seq(Calls) /\ Len(tasks') = Len(tasks) - 1
      /\ DOMAIN tasks' = 1..(Len(tasks) - 1) /\ DOMAIN tasks = 1..Len(tasks)
      /\ Len(tasks) \in Nat /\ Len(tasks) > 0
      /\ \A i \in 1..(Len(tasks) - 1) : tasks'[i] = tasks[i + 1]
      /\ Head(tasks) = tasks[1] /\ Head(tasks) \in Calls
    BY HeadTailProperties, EmptySeq
<1>2. Queued(Head(tasks))
    BY <1>1 DEF Queued
<1>3. ASSUME NEW d \in Calls PROVE Queued(d)' <=> Queued(d) /\ d # Head(tasks)
    <2>1. ASSUME Queued(d)' PROVE Queued(d) /\ d # Head(tasks)
        <3>1. PICK i \in DOMAIN tasks' : tasks'[i] = d
            BY <2>1 DEF Queued
        <3>2. i + 1 \in DOMAIN tasks /\ tasks[i + 1] = d /\ 1 \in DOMAIN tasks /\ i + 1 # 1
            BY <3>1, <1>1
        <3> QED BY <3>2, <1>1 DEF Queued, Distinct
    <2>2. ASSUME Queued(d), d # Head(tasks) PROVE Queued(d)'
        <3>1. PICK i \in DOMAIN tasks : tasks[i] = d
            BY <2>2 DEF Queued
        <3>2. i - 1 \in DOMAIN tasks' /\ tasks'[i - 1] = d
            BY <3>1, <2>2, <1>1
        <3> QED BY <3>2 DEF Queued
    <2> QED BY <2>1, <2>2
<1>4. Distinct'
    <2> SUFFICES ASSUME NEW i \in DOMAIN tasks', NEW j \in DOMAIN tasks', tasks'[i] = tasks'[j]
                 PROVE  i = j
        BY DEF Distinct
    <2>1. /\ i \in Int /\ j \in Int /\ i + 1 \in DOMAIN tasks /\ j + 1 \in DOMAIN tasks
          /\ tasks[i + 1] = tasks[j + 1]
        BY <1>1
    <2>2. i + 1 = j + 1
        BY <2>1 DEF Distinct
    <2> QED BY <2>1, <2>2
<1> QED BY <1>1, <1>2, <1>3, <1>4

(* The types of the parts of the state.                                      *)
LEMMA EngineTypes ==
    ASSUME EngineInv
    PROVE  /\ call \in [Calls -> Call] /\ tasks \in Seq(Calls) /\ closed \in BOOLEAN
           /\ worker \in [Workers -> Worker]
           /\ respC \in [Calls -> Answers \cup {"none"}]
           /\ sent \in [Calls -> Nat] /\ applied \subseteq Calls
           /\ others \in 0..MaxOthers /\ backlog \in [Tokens -> 0..RPS]
BY DEF EngineInv, TypeOK, PoolTypeOK

(* A call whose record is changed, with the channel and the workers as they  *)
(* were, keeps the invariant when what it is told is so.                     *)
LEMMA CallKeeps ==
    ASSUME EngineInv, NEW c \in Calls, NEW q \in Call,
           call' = [call EXCEPT ![c] = q],
           UNCHANGED <<tasks, closed, worker, respC, sent, applied, others, backlog>>,
           q.pc = "done",
           q.result = "panic" => Unseen(c),
           q.result = "ok" => c \in applied
    PROVE  EngineInv'
<1>1. call' \in [Calls -> Call] /\ call'[c] = q
      /\ \A d \in Calls \ {c} : call'[d] = call[d]
    BY EngineTypes
<1>2. TypeOK'
    BY <1>1, EngineTypes DEF TypeOK, PoolTypeOK
<1>3. Channel' /\ Single' /\ \A w \in Workers : AtWork(w)'
    BY DEF EngineInv, Channel, Distinct, Single, AtWork
<1>4. \A d : (Queued(d)' <=> Queued(d)) /\ (Held(d)' <=> Held(d)) /\ (Unseen(d)' <=> Unseen(d))
    BY DEF Queued, Held, Holds, Unseen
<1>5. ASSUME NEW d \in Calls PROVE Placed(d)'
    <2>1. CASE d = c
        BY <2>1, <1>1, <1>4 DEF EngineInv, Placed
    <2>2. CASE d # c
        BY <2>2, <1>1, <1>4 DEF EngineInv, Placed
    <2> QED BY <2>1, <2>2
<1> QED BY <1>2, <1>3, <1>5 DEF EngineInv

(* The steps of a call after it was queued, and those that never queue it.   *)
LEMMA EnqueueClosedKeeps ==
    ASSUME EngineInv, NEW c \in Calls, EnqueueClosed(c) PROVE EngineInv'
<1> DEFINE q == [pc |-> "done", result |-> "panic"]
<1>1. q \in Call /\ q.pc = "done" /\ q.result = "panic" /\ call' = [call EXCEPT ![c] = q]
    BY DEF Call, EnqueueClosed, Returns
<1>2. Unseen(c)
    BY DEF EnqueueClosed, EngineInv, Placed
<1> HIDE DEF q
<1> QED BY <1>1, <1>2, CallKeeps DEF EnqueueClosed

(* A worker takes the task at the head of the channel.                       *)
LEMMA ReceiveKeeps ==
    ASSUME EngineInv, NEW c \in Calls, Receive(c) PROVE EngineInv'
<1> DEFINE q == [pc |-> "done", result |-> respC[c]]
<1>1. respC[c] \in Answers
    BY EngineTypes DEF Receive
<1>2. /\ q \in Call /\ q.pc = "done" /\ q.result = respC[c] /\ call' = [call EXCEPT ![c] = q]
      /\ q.result # "panic"
    BY <1>1 DEF Call, Receive, Returns, Answers
<1>3. respC[c] = "ok" => c \in applied
    BY DEF EngineInv, Placed
<1> HIDE DEF q
<1> QED BY <1>2, <1>3, CallKeeps DEF Receive

(* The context of a caller that waits ends.                                  *)
LEMMA ExpireKeeps ==
    ASSUME EngineInv, NEW c \in Calls, Expire(c) PROVE EngineInv'
<1> DEFINE q == [pc |-> "done", result |-> "ctx"]
<1>1. /\ q \in Call /\ q.pc = "done" /\ q.result = "ctx" /\ call' = [call EXCEPT ![c] = q]
    BY DEF Call, Expire, Returns
<1> HIDE DEF q
<1> QED BY <1>1, CallKeeps DEF Expire

(* A call puts its task in the channel, or finds it closed.                  *)
LEMMA EnqueueKeeps ==
    ASSUME EngineInv, NEW c \in Calls, Enqueue(c) PROVE EngineInv'
<1> USE SizesAssumption
<1>1. /\ call[c].pc = "idle" /\ Len(tasks) < QueueSize /\ tasks' = Append(tasks, c)
      /\ call' = [call EXCEPT ![c] = [call[c] EXCEPT !.pc = "wait"]]
      /\ UNCHANGED <<closed, worker, respC, sent, applied, others, backlog>>
    BY DEF Enqueue
<1>2. call[c].result = "none" /\ respC[c] = "none" /\ Unseen(c)
    BY <1>1 DEF EngineInv, Placed
<1> DEFINE q == [call[c] EXCEPT !.pc = "wait"]
<1>3. q \in Call /\ q.pc = "wait"
    BY EngineTypes DEF Call
<1>4. q.result = "none"
    BY <1>2, EngineTypes DEF Call
<1>12. call' = [call EXCEPT ![c] = q]
    BY <1>1
<1> HIDE DEF q
<1>5. call' \in [Calls -> Call] /\ call'[c] = q /\ \A d \in Calls \ {c} : call'[d] = call[d]
    BY <1>3, <1>12, EngineTypes
<1>6. /\ tasks' \in Seq(Calls) /\ Len(tasks') = Len(tasks) + 1 /\ Distinct'
      /\ \A d \in Calls : Queued(d)' <=> Queued(d) \/ d = c
    BY <1>1, <1>2, AppendQueued, EngineTypes DEF EngineInv, Channel, Unseen
<1>7. TypeOK'
    BY <1>1, <1>5, <1>6, EngineTypes DEF TypeOK, PoolTypeOK
<1>8. Channel'
    BY <1>1, <1>6, EngineTypes, LenProperties DEF Channel
<1>9. Single' /\ \A w \in Workers : AtWork(w)'
    BY <1>1 DEF EngineInv, Single, AtWork
<1>10. \A d : Held(d)' <=> Held(d)
    BY <1>1 DEF Held, Holds
<1>11. ASSUME NEW d \in Calls PROVE Placed(d)'
    <2>1. CASE d = c
        <3>1. /\ Queued(c)' /\ ~ Held(c)' /\ sent'[c] = 0 /\ respC'[c] = "none"
              /\ call'[c].pc = "wait" /\ call'[c].result = "none"
            BY <1>1, <1>2, <1>3, <1>4, <1>5, <1>6, <1>10 DEF Unseen
        <3>2. sent'[c] <= MaxRetries + 1
            BY <3>1
        <3> QED BY <2>1, <3>1, <3>2 DEF Placed
    <2>2. CASE d # c
        <3>1. /\ Queued(d)' <=> Queued(d)
              /\ Held(d)' <=> Held(d)
              /\ call'[d] = call[d] /\ UNCHANGED <<sent, respC, applied>>
            BY <2>2, <1>1, <1>5, <1>6, <1>10
        <3>2. Placed(d)
            BY DEF EngineInv
        <3> QED BY <3>1, <3>2 DEF Placed, Unseen
    <2> QED BY <2>1, <2>2
<1> QED BY <1>7, <1>8, <1>9, <1>11 DEF EngineInv

(* Close, and what other replicas and time do to the pool.                   *)
LEMMA PoolKeeps ==
    ASSUME EngineInv, closed' \in BOOLEAN, others' \in 0..MaxOthers,
           backlog' \in [Tokens -> 0..RPS],
           UNCHANGED <<call, tasks, worker, respC, sent, applied>>
    PROVE  EngineInv'
<1>1. TypeOK'
    BY EngineTypes DEF TypeOK, PoolTypeOK
<1>2. Channel' /\ Single' /\ \A w \in Workers : AtWork(w)'
    BY DEF EngineInv, Channel, Distinct, Single, AtWork
<1>3. \A c \in Calls : Placed(c)'
    BY DEF EngineInv, Placed, Unseen, Queued, Held, Holds
<1> QED BY <1>1, <1>2, <1>3 DEF EngineInv

(* What a token is granted, and what time gives back, is within its burst.   *)
LEMMA GrantTypes ==
    ASSUME backlog \in [Tokens -> 0..RPS], NEW k \in Tokens, Grant(k)
    PROVE  backlog' \in [Tokens -> 0..RPS]
BY RPSAssumption DEF Grant, Allowed

(* The backlog of the limiter stays in its type as time goes on.             *)
LEMMA ElapseTypes ==
    ASSUME backlog \in [Tokens -> 0..RPS], Elapse
    PROVE  backlog' \in [Tokens -> 0..RPS]
BY RPSAssumption DEF Elapse

(* A worker that is changed, the others being as they were.                  *)
LEMMA WorkerChanges ==
    ASSUME EngineInv, NEW w \in Workers, NEW q \in Worker,
           worker' = [worker EXCEPT ![w] = q]
    PROVE  /\ worker' \in [Workers -> Worker] /\ worker'[w] = q
           /\ \A v \in Workers \ {w} : worker'[v] = worker[v]
BY EngineTypes

(* A worker at work goes on with its task: it counts what it sent, and an    *)
(* "ok" it got is true.                                                     *)
LEMMA WorkKeeps ==
    ASSUME EngineInv, NEW w \in Workers, NEW q \in Worker,
           worker' = [worker EXCEPT ![w] = q],
           worker[w].pc \in {"acquire", "send"},
           q.task = worker[w].task, q.pc \in {"acquire", "send", "answer"},
           UNCHANGED <<call, tasks, closed, respC, others>>,
           backlog' \in [Tokens -> 0..RPS],
           sent' \in [Calls -> Nat], applied \subseteq applied', applied' \subseteq Calls,
           \A c \in Calls : c # q.task => sent'[c] = sent[c],
           sent'[q.task] <= MaxRetries + 1,
           q.pc \in {"acquire", "send"} => sent'[q.task] <= q.attempt,
           q.pc = "answer" => q.answer # "none",
           q.pc = "answer" /\ q.answer = "ok" => q.task \in applied'
    PROVE  EngineInv'
<1>1. /\ worker' \in [Workers -> Worker] /\ worker'[w] = q
      /\ \A v \in Workers \ {w} : worker'[v] = worker[v]
    BY WorkerChanges
<1>2. q.task # NoCall /\ q.task \in Calls
    BY EngineTypes DEF EngineInv, AtWork, Worker
<1>3. \A v \in Workers : worker'[v].task = worker[v].task
    BY <1>1
<1>4. TypeOK'
    BY <1>1, EngineTypes DEF TypeOK, PoolTypeOK
<1>5. Channel' /\ Single'
    BY <1>3 DEF EngineInv, Channel, Distinct, Single
<1>6. ASSUME NEW v \in Workers PROVE AtWork(v)'
    <2>1. CASE v = w
        BY <2>1, <1>1, <1>2 DEF AtWork
    <2>2. CASE v # w
        <3>1. AtWork(v) /\ worker'[v] = worker[v]
            BY <2>2, <1>1 DEF EngineInv
        <3>2. worker[v].task = NoCall \/ sent'[worker[v].task] = sent[worker[v].task]
            <4>1. worker[v].task # q.task
                BY <2>2, <1>2 DEF EngineInv, Single
            <4> QED BY <4>1, EngineTypes DEF Worker
        <3>3. worker[v].pc \in {"acquire", "send"} =>
                 sent'[worker[v].task] <= worker[v].attempt
            BY <3>1, <3>2 DEF AtWork
        <3> QED BY <3>1, <3>3 DEF AtWork
    <2> QED BY <2>1, <2>2
<1>7. \A c : (Queued(c)' <=> Queued(c)) /\ (Held(c)' <=> Held(c))
    BY <1>3 DEF Queued, Held, Holds
<1>8. Held(q.task)
    BY DEF Held, Holds
<1>9. ASSUME NEW c \in Calls PROVE Placed(c)'
    <2>1. Placed(c)
        BY DEF EngineInv
    <2>2. CASE c = q.task
        <3>1. /\ ~ Queued(c)' /\ Held(c)' /\ respC'[c] = "none"
              /\ call'[c] = call[c] /\ call[c].pc # "idle" /\ call[c].result # "panic"
            BY <2>1, <2>2, <1>7, <1>8 DEF Placed, Unseen
        <3>2. /\ respC'[c] = "ok" \/ call'[c].result = "ok" => c \in applied'
              /\ call'[c].pc # "done" => call'[c].result = "none"
            BY <2>1 DEF Placed
        <3> QED BY <3>1, <3>2, <2>2 DEF Placed
    <2>3. CASE c # q.task
        <3>1. sent'[c] = sent[c]
            BY <2>3
        <3> QED BY <3>1, <2>1, <1>7 DEF Placed, Unseen
    <2> QED BY <2>2, <2>3
<1> QED BY <1>4, <1>5, <1>6, <1>9 DEF EngineInv

(* Retry counts an attempt, or gives up.                                     *)
LEMMA RetryChanges ==
    ASSUME EngineInv, NEW w \in Workers, worker[w].pc \in {"acquire", "send"}, Retry(w)
    PROVE  \E q \in Worker :
              /\ worker' = [worker EXCEPT ![w] = q] /\ q.task = worker[w].task
              /\ \/ q.pc = "acquire" /\ q.attempt = worker[w].attempt + 1
                 \/ q.pc = "answer" /\ q.answer = "error"
<1> USE SizesAssumption
<1>1. worker[w] \in Worker
    BY EngineTypes
<1>2. CASE worker[w].attempt < MaxRetries
    <2> DEFINE q == [worker[w] EXCEPT !.pc = "acquire", !.attempt = worker[w].attempt + 1]
    <2>1. /\ q \in Worker /\ q.task = worker[w].task
          /\ q.pc = "acquire" /\ q.attempt = worker[w].attempt + 1
        <3>1. worker[w].attempt + 1 \in 0..MaxRetries
            BY <1>1, <1>2 DEF Worker
        <3> QED BY <1>1, <3>1 DEF Worker
    <2>2. worker' = [worker EXCEPT ![w] = q]
        BY <1>2 DEF Retry
    <2> HIDE DEF q
    <2> QED BY <2>1, <2>2
<1>3. CASE ~ (worker[w].attempt < MaxRetries)
    <2> DEFINE q == [worker[w] EXCEPT !.pc = "answer", !.answer = "error"]
    <2>1. /\ q \in Worker /\ q.task = worker[w].task /\ q.pc = "answer" /\ q.answer = "error"
        BY <1>1 DEF Worker, Answers
    <2>2. worker' = [worker EXCEPT ![w] = q]
        BY <1>3 DEF Retry, AnswerWith
    <2> HIDE DEF q
    <2> QED BY <2>1, <2>2
<1> QED BY <1>2, <1>3

(* The record of a worker that has an answer to give.                        *)
LEMMA AnswerWithChanges ==
    ASSUME EngineInv, NEW w \in Workers, NEW a \in Answers, AnswerWith(w, a)
    PROVE  \E q \in Worker :
              /\ worker' = [worker EXCEPT ![w] = q] /\ q.task = worker[w].task
              /\ q.pc = "answer" /\ q.answer = a
<1> DEFINE q == [worker[w] EXCEPT !.pc = "answer", !.answer = a]
<1>1. worker[w] \in Worker
    BY EngineTypes
<1>2. /\ q \in Worker /\ q.task = worker[w].task /\ q.pc = "answer" /\ q.answer = a
    BY <1>1 DEF Worker
<1>3. worker' = [worker EXCEPT ![w] = q]
    BY DEF AnswerWith
<1> HIDE DEF q
<1> QED BY <1>2, <1>3

(* What a worker at work has sent for its task.                              *)
LEMMA WorkFacts ==
    ASSUME EngineInv, NEW w \in Workers, worker[w].pc \in {"acquire", "send"}
    PROVE  /\ worker[w].task \in Calls /\ sent[worker[w].task] \in Nat
           /\ worker[w].attempt \in 0..MaxRetries
           /\ sent[worker[w].task] <= worker[w].attempt
BY EngineTypes DEF EngineInv, AtWork, Worker

(* A worker gets its slot from the limiter.                                  *)
LEMMA AcquireKeeps ==
    ASSUME EngineInv, NEW w \in Workers, Acquire(w) PROVE EngineInv'
<1> USE SizesAssumption
<1> DEFINE q == [worker[w] EXCEPT !.pc = "send"]
<1>1. /\ q \in Worker /\ q.task = worker[w].task /\ q.pc = "send"
      /\ q.attempt = worker[w].attempt
    BY EngineTypes DEF Worker
<1>2. worker' = [worker EXCEPT ![w] = q] /\ worker[w].pc = "acquire"
    BY DEF Acquire
<1>3. backlog' \in [Tokens -> 0..RPS]
    BY GrantTypes, EngineTypes DEF Acquire
<1> HIDE DEF q
<1>4. UNCHANGED <<call, tasks, closed, respC, sent, applied, others>>
    BY DEF Acquire
<1>5. sent'[q.task] <= MaxRetries + 1 /\ sent'[q.task] <= q.attempt
    BY <1>1, <1>2, <1>4, WorkFacts
<1> QED BY <1>1, <1>2, <1>3, <1>4, <1>5, WorkKeeps, EngineTypes

(* The limiter fails, and the worker has an error to give.                   *)
LEMMA AcquireFailsKeeps ==
    ASSUME EngineInv, NEW w \in Workers, AcquireFails(w) PROVE EngineInv'
<1> USE SizesAssumption
<1>1. worker[w].pc = "acquire" /\ Retry(w)
      /\ UNCHANGED <<call, tasks, closed, respC, sent, applied, others, backlog>>
    BY DEF AcquireFails
<1>2. PICK q \in Worker :
              /\ worker' = [worker EXCEPT ![w] = q] /\ q.task = worker[w].task
              /\ \/ q.pc = "acquire" /\ q.attempt = worker[w].attempt + 1
                 \/ q.pc = "answer" /\ q.answer = "error"
    BY <1>1, RetryChanges
<1>3. sent'[q.task] <= MaxRetries + 1 /\ (q.pc = "acquire" => sent'[q.task] <= q.attempt)
    BY <1>1, <1>2, WorkFacts
<1> QED BY <1>1, <1>2, <1>3, WorkKeeps, EngineTypes

(* The request cannot be built.                                              *)
LEMMA BuildFailsKeeps ==
    ASSUME EngineInv, NEW w \in Workers, BuildFails(w) PROVE EngineInv'
<1> USE SizesAssumption
<1>1. worker[w].pc = "send" /\ AnswerWith(w, "error")
      /\ UNCHANGED <<call, tasks, closed, respC, sent, applied, others, backlog>>
    BY DEF BuildFails
<1>2. PICK q \in Worker : /\ worker' = [worker EXCEPT ![w] = q] /\ q.task = worker[w].task
                          /\ q.pc = "answer" /\ q.answer = "error"
    BY <1>1, AnswerWithChanges DEF Answers
<1>3. sent'[q.task] <= MaxRetries + 1
    BY <1>1, <1>2, WorkFacts
<1> QED BY <1>1, <1>2, <1>3, WorkKeeps, EngineTypes

(* The request is sent, and answered or lost.                                *)
LEMMA SendKeeps ==
    ASSUME EngineInv, NEW w \in Workers, Send(w) PROVE EngineInv'
<1> USE SizesAssumption
<1> DEFINE t == worker[w].task
<1>1. worker[w].pc = "send" /\ UNCHANGED <<call, tasks, closed, respC, others, backlog>>
    BY DEF Send
<1>2. sent' \in [Calls -> Nat] /\ sent'[t] = sent[t] + 1
      /\ \A c \in Calls : c # t => sent'[c] = sent[c]
    BY <1>1, WorkFacts, EngineTypes DEF Send
<1>3. applied \subseteq applied' /\ applied' \subseteq Calls
    BY <1>1, WorkFacts, EngineTypes DEF Send
<1>4. sent'[t] <= MaxRetries + 1 /\ sent'[t] <= worker[w].attempt + 1
    BY <1>1, <1>2, WorkFacts
<1>5. \E q \in Worker :
         /\ worker' = [worker EXCEPT ![w] = q] /\ q.task = t
         /\ \/ q.pc = "acquire" /\ q.attempt = worker[w].attempt + 1
            \/ q.pc = "answer" /\ q.answer # "none" /\ (q.answer = "ok" => t \in applied')
    <2>1. CASE AnswerWith(w, "ok") /\ applied' = applied \cup {t}
        BY <2>1, AnswerWithChanges DEF Answers
    <2>2. CASE AnswerWith(w, "refused")
        BY <2>2, AnswerWithChanges DEF Answers
    <2>3. CASE Retry(w)
        BY <2>3, <1>1, RetryChanges
    <2> QED BY <2>1, <2>2, <2>3 DEF Send
<1>6. PICK q \in Worker :
         /\ worker' = [worker EXCEPT ![w] = q] /\ q.task = t
         /\ \/ q.pc = "acquire" /\ q.attempt = worker[w].attempt + 1
            \/ q.pc = "answer" /\ q.answer # "none" /\ (q.answer = "ok" => t \in applied')
    BY <1>5
<1> QED BY <1>1, <1>2, <1>3, <1>4, <1>6, WorkKeeps, EngineTypes

(* An idle worker takes the task at the head of the channel.                 *)
LEMMA TakeKeeps ==
    ASSUME EngineInv, NEW w \in Workers, Take(w) PROVE EngineInv'
<1> USE SizesAssumption
<1> DEFINE t == Head(tasks)
           q == [Idle EXCEPT !.pc = "acquire", !.task = t]
<1>1. /\ worker[w].pc = "idle" /\ worker' = [worker EXCEPT ![w] = q]
      /\ tasks' = Tail(tasks) /\ tasks # <<>>
      /\ UNCHANGED <<call, closed, respC, sent, applied, others, backlog>>
    BY DEF Take
<1>2. /\ tasks' \in Seq(Calls) /\ Len(tasks') = Len(tasks) - 1
      /\ t \in Calls /\ Queued(t) /\ Distinct'
      /\ \A d \in Calls : Queued(d)' <=> Queued(d) /\ d # t
    BY <1>1, TailQueued, EngineTypes DEF EngineInv, Channel
<1>3. Idle \in Worker /\ Idle.attempt = 0
    BY DEF Idle, Worker
<1>4. /\ q \in Worker /\ q.pc = "acquire" /\ q.task = t /\ q.attempt = 0
    BY <1>2, <1>3 DEF Worker
<1> HIDE DEF q
<1>5. /\ worker' \in [Workers -> Worker] /\ worker'[w] = q
      /\ \A v \in Workers \ {w} : worker'[v] = worker[v]
    BY <1>1, <1>4, WorkerChanges
<1>6. worker[w].task = NoCall
    BY <1>1 DEF EngineInv, AtWork
<1>7. ~ Held(t) /\ sent[t] = 0 /\ respC[t] = "none" /\ call[t].pc # "idle"
      /\ call[t].result # "panic"
    BY <1>2 DEF EngineInv, Placed, Unseen
<1> HIDE DEF t
<1>8. TypeOK'
    BY <1>1, <1>2, <1>5, EngineTypes DEF TypeOK, PoolTypeOK
<1>9. Channel'
    BY <1>2, EngineTypes, LenProperties DEF EngineInv, Channel
<1>10. Single'
    <2> SUFFICES ASSUME NEW u \in Workers, NEW v \in Workers,
                        worker'[u].task = worker'[v].task, worker'[u].task # NoCall
                 PROVE  u = v
        BY DEF Single
    <2>1. \A x \in Workers : x # w => worker'[x].task # t
        BY <1>5, <1>7 DEF Held, Holds
    <2>2. worker'[w].task = t
        BY <1>4, <1>5
    <2>3. CASE u = w \/ v = w
        BY <2>1, <2>2, <2>3
    <2>4. CASE u # w /\ v # w
        BY <2>4, <1>5 DEF EngineInv, Single
    <2> QED BY <2>3, <2>4
<1>11. ASSUME NEW v \in Workers PROVE AtWork(v)'
    <2>1. CASE v = w
        <3>1. sent'[t] <= 0 /\ t # NoCall
            BY <1>1, <1>2, <1>7, NoCallAssumption
        <3> QED BY <2>1, <3>1, <1>4, <1>5 DEF AtWork
    <2>2. CASE v # w
        BY <2>2, <1>1, <1>5 DEF EngineInv, AtWork
    <2> QED BY <2>1, <2>2
<1>12. \A c \in Calls : Held(c)' <=> Held(c) \/ c = t
    <2> SUFFICES ASSUME NEW c \in Calls PROVE Held(c)' <=> Held(c) \/ c = t
        OBVIOUS
    <2>1. ASSUME Held(c) PROVE Held(c)'
        <3>1. PICK v \in Workers : worker[v].task = c
            BY <2>1 DEF Held, Holds
        <3>2. v # w
            BY <3>1, <1>6, NoCallAssumption
        <3> QED BY <3>1, <3>2, <1>5 DEF Held, Holds
    <2>2. ASSUME c = t PROVE Held(c)'
        BY <2>2, <1>4, <1>5 DEF Held, Holds
    <2>3. ASSUME Held(c)', c # t PROVE Held(c)
        BY <2>3, <1>4, <1>5 DEF Held, Holds
    <2> QED BY <2>1, <2>2, <2>3
<1>13. ASSUME NEW c \in Calls PROVE Placed(c)'
    <2>1. Placed(c) /\ UNCHANGED <<call, respC, sent, applied>>
        BY <1>1 DEF EngineInv
    <2>2. CASE c = t
        <3>1. ~ Queued(c)' /\ Held(c)'
            BY <2>2, <1>2, <1>12
        <3> QED BY <3>1, <2>1, <2>2, <1>7 DEF Placed
    <2>3. CASE c # t
        <3>1. (Queued(c)' <=> Queued(c)) /\ (Held(c)' <=> Held(c))
            BY <2>3, <1>2, <1>12
        <3> QED BY <3>1, <2>1 DEF Placed, Unseen
    <2> QED BY <2>2, <2>3
<1> QED BY <1>8, <1>9, <1>10, <1>11, <1>13 DEF EngineInv

(* An idle worker leaves.                                                    *)
LEMMA ExitKeeps ==
    ASSUME EngineInv, NEW w \in Workers, Exit(w) PROVE EngineInv'
<1> DEFINE q == [worker[w] EXCEPT !.pc = "exited"]
<1>1. /\ worker[w].pc = "idle" /\ worker' = [worker EXCEPT ![w] = q]
      /\ UNCHANGED <<call, tasks, closed, respC, sent, applied, others, backlog>>
    BY DEF Exit
<1>2. q \in Worker /\ q.pc = "exited" /\ q.task = worker[w].task
    BY EngineTypes DEF Worker
<1> HIDE DEF q
<1>3. /\ worker' \in [Workers -> Worker] /\ worker'[w] = q
      /\ \A v \in Workers \ {w} : worker'[v] = worker[v]
    BY <1>1, <1>2, WorkerChanges
<1>4. \A v \in Workers : worker'[v].task = worker[v].task
    BY <1>2, <1>3
<1>5. TypeOK'
    BY <1>1, <1>3, EngineTypes DEF TypeOK, PoolTypeOK
<1>6. Channel' /\ Single'
    BY <1>1, <1>4 DEF EngineInv, Channel, Distinct, Single
<1>7. ASSUME NEW v \in Workers PROVE AtWork(v)'
    <2>1. CASE v = w
        BY <2>1, <1>1, <1>2, <1>3 DEF EngineInv, AtWork
    <2>2. CASE v # w
        BY <2>2, <1>1, <1>3 DEF EngineInv, AtWork
    <2> QED BY <2>1, <2>2
<1>8. \A c : (Queued(c)' <=> Queued(c)) /\ (Held(c)' <=> Held(c))
    BY <1>1, <1>4 DEF Queued, Held, Holds
<1>9. \A c \in Calls : Placed(c)'
    BY <1>1, <1>8 DEF EngineInv, Placed, Unseen
<1> QED BY <1>5, <1>6, <1>7, <1>9 DEF EngineInv

(* The answer goes into the buffer of its task, and the worker is idle.      *)
LEMMA AnswerKeeps ==
    ASSUME EngineInv, NEW w \in Workers, Answer(w) PROVE EngineInv'
<1> DEFINE t == worker[w].task
           a == worker[w].answer
<1>1. /\ worker[w].pc = "answer" /\ worker' = [worker EXCEPT ![w] = Idle]
      /\ respC' = [respC EXCEPT ![t] = a]
      /\ UNCHANGED <<call, tasks, closed, sent, applied, others, backlog>>
    BY DEF Answer
<1>2. /\ t \in Calls /\ t # NoCall /\ a \in Answers /\ a # "none"
      /\ a = "ok" => t \in applied
    BY <1>1, EngineTypes DEF EngineInv, AtWork, Worker
<1>3. Idle \in Worker /\ Idle.task = NoCall /\ Idle.pc = "idle"
    BY SizesAssumption DEF Idle, Worker
<1>4. /\ worker' \in [Workers -> Worker] /\ worker'[w] = Idle
      /\ \A v \in Workers \ {w} : worker'[v] = worker[v]
    BY <1>1, <1>3, WorkerChanges
<1>5. /\ respC' \in [Calls -> Answers \cup {"none"}] /\ respC'[t] = a
      /\ \A c \in Calls \ {t} : respC'[c] = respC[c]
    BY <1>1, <1>2, EngineTypes
<1>6. Held(t)
    BY DEF Held, Holds
<1>7. \A v \in Workers \ {w} : worker[v].task # t
    BY <1>2 DEF EngineInv, Single
<1> HIDE DEF t, a
<1>8. TypeOK'
    BY <1>1, <1>4, <1>5, EngineTypes DEF TypeOK, PoolTypeOK
<1>9. Channel'
    BY <1>1 DEF EngineInv, Channel, Distinct
<1>10. Single'
    BY <1>3, <1>4 DEF EngineInv, Single
<1>11. ASSUME NEW v \in Workers PROVE AtWork(v)'
    <2>1. CASE v = w
        BY <2>1, <1>3, <1>4 DEF AtWork
    <2>2. CASE v # w
        BY <2>2, <1>1, <1>4 DEF EngineInv, AtWork
    <2> QED BY <2>1, <2>2
<1>12. \A c : Queued(c)' <=> Queued(c)
    BY <1>1 DEF Queued
<1>13. \A c \in Calls : Held(c)' <=> Held(c) /\ c # t
    <2> SUFFICES ASSUME NEW c \in Calls PROVE Held(c)' <=> Held(c) /\ c # t
        OBVIOUS
    <2>1. ASSUME Held(c)' PROVE Held(c) /\ c # t
        <3>1. PICK v \in Workers : worker'[v].task = c
            BY <2>1 DEF Held, Holds
        <3>2. v # w
            BY <3>1, <1>3, <1>4, NoCallAssumption
        <3> QED BY <3>1, <3>2, <1>4, <1>7 DEF Held, Holds
    <2>2. ASSUME Held(c), c # t PROVE Held(c)'
        <3>1. PICK v \in Workers : worker[v].task = c
            BY <2>2 DEF Held, Holds
        <3>2. v # w
            BY <3>1, <2>2 DEF t
        <3> QED BY <3>1, <3>2, <1>4 DEF Held, Holds
    <2> QED BY <2>1, <2>2
<1>14. ASSUME NEW c \in Calls PROVE Placed(c)'
    <2>1. Placed(c) /\ UNCHANGED <<call, sent, applied>>
        BY <1>1 DEF EngineInv
    <2>2. CASE c = t
        <3>1. /\ ~ Queued(c)' /\ ~ Held(c)' /\ respC'[c] = a
              /\ call[c].pc # "idle" /\ call[c].result # "panic"
            BY <2>1, <2>2, <1>5, <1>6, <1>12, <1>13 DEF Placed, Unseen
        <3> QED BY <3>1, <2>1, <2>2, <1>2 DEF Placed
    <2>3. CASE c # t
        <3>1. /\ (Queued(c)' <=> Queued(c)) /\ (Held(c)' <=> Held(c))
              /\ respC'[c] = respC[c]
            BY <2>3, <1>5, <1>12, <1>13
        <3> QED BY <3>1, <2>1 DEF Placed, Unseen
    <2> QED BY <2>2, <2>3
<1> QED BY <1>8, <1>9, <1>10, <1>11, <1>14 DEF EngineInv

(* Every step keeps the invariant.                                           *)
LEMMA EngineInvNext == EngineInv /\ [Next]_vars => EngineInv'
<1> SUFFICES ASSUME EngineInv, [Next]_vars PROVE EngineInv'
    OBVIOUS
<1>1. ASSUME NEW c \in Calls, Enqueue(c) \/ EnqueueClosed(c) \/ Receive(c) \/ Expire(c)
      PROVE  EngineInv'
    BY <1>1, EnqueueKeeps, EnqueueClosedKeeps, ReceiveKeeps, ExpireKeeps
<1>2. ASSUME NEW w \in Workers, WorkerStep(w) PROVE EngineInv'
    BY <1>2, TakeKeeps, ExitKeeps, AcquireKeeps, AcquireFailsKeeps, BuildFailsKeeps,
       SendKeeps, AnswerKeeps DEF WorkerStep
<1>3. CASE Close
    BY <1>3, PoolKeeps, EngineTypes DEF Close
<1>4. CASE OtherGrant
    <2>1. others' \in 0..MaxOthers
        BY <1>4, EngineTypes, SizesAssumption DEF OtherGrant
    <2>2. backlog' \in [Tokens -> 0..RPS]
        BY <1>4, EngineTypes, GrantTypes DEF OtherGrant
    <2> QED BY <1>4, <2>1, <2>2, PoolKeeps, EngineTypes DEF OtherGrant
<1>5. CASE Tick
    BY <1>5, PoolKeeps, ElapseTypes, EngineTypes DEF Tick
<1>6. CASE UNCHANGED vars
    BY <1>6, PoolKeeps, EngineTypes DEF vars
<1> QED BY <1>1, <1>2, <1>3, <1>4, <1>5, <1>6 DEF Next

(* Every reachable state of the engine satisfies the invariant.              *)
THEOREM EngineInvariant == Spec => []EngineInv
BY EngineInvInit, EngineInvNext, PTL DEF Spec

(* No task is processed twice, none is lost while its caller waits, and     *)
(* every answer is that of its own task.                                    *)
THEOREM InOnePlaceTheorem == Spec => []InOnePlace
BY EngineInvariant, EngineInvImplies, PTL

(* What a caller is told of HubSpot is so.                                   *)
THEOREM OutcomeTrueTheorem == Spec => []OutcomeTrue
BY EngineInvariant, EngineInvImplies, PTL

(* A call moves with the rest as it is: only what it was told changes.       *)
LEMMA BookCall ==
    ASSUME EngineInv, NEW c \in Calls, NEW r, Returns(c, r),
           UNCHANGED <<tasks, worker, respC>>
    PROVE  Told' = [Told EXCEPT ![c] = r] /\ Verdicts' = Verdicts /\ TakenOn' = TakenOn
<1>1. call \in [Calls -> Call]
    BY EngineTypes
<1>2. Told' = [Told EXCEPT ![c] = r]
    BY <1>1 DEF Told, Returns
<1>3. Verdicts' = Verdicts
    BY DEF Verdicts, Verdict, Holds
<1>4. TakenOn' = TakenOn
    BY DEF TakenOn, Queued, Held, Holds
<1> QED BY <1>2, <1>3, <1>4

(* A call that is being worked on was taken on, and has no verdict yet; the   *)
(* answer its worker gets is its verdict.                                    *)
LEMMA BookWork ==
    ASSUME EngineInv, NEW w \in Workers, NEW q \in Worker,
           worker' = [worker EXCEPT ![w] = q],
           worker[w].pc \in {"acquire", "send"},
           q.task = worker[w].task, q.pc \in {"acquire", "send", "answer"},
           q.pc = "answer" => q.answer # "none",
           UNCHANGED <<call, tasks, respC>>
    PROVE  /\ worker[w].task \in TakenOn /\ Verdicts[worker[w].task] = {}
           /\ q.pc = "answer" => Verdicts' = [Verdicts EXCEPT ![worker[w].task] = {q.answer}]
           /\ q.pc # "answer" => Verdicts' = Verdicts
           /\ TakenOn' = TakenOn /\ Told' = Told
<1>1. /\ worker'[w] = q /\ \A v \in Workers \ {w} : worker'[v] = worker[v]
      /\ worker[w].task \in Calls
    BY WorkerChanges, WorkFacts
<1>t. PICK t \in Calls : t = worker[w].task
    BY <1>1
<1>2. Held(t) /\ t # NoCall
    BY <1>t, NoCallAssumption DEF Held, Holds
<1>3. respC[t] = "none" /\ t \in TakenOn
    BY <1>1, <1>2 DEF EngineInv, Placed, TakenOn
<1>4. \A v \in Workers \ {w} : worker[v].task # t
    BY <1>2, <1>t DEF EngineInv, Single
<1>5. Verdicts[t] = {}
    BY <1>1, <1>t, <1>3, <1>4 DEF Verdicts, Verdict, Holds, Answers
<1>6. ASSUME NEW c \in Calls, c # t PROVE Verdict(c)' = Verdict(c)
    <2>1. \A v \in Workers : Holds(v, c)' /\ worker'[v].pc = "answer" <=>
                              Holds(v, c) /\ worker[v].pc = "answer"
        BY <1>1, <1>t, <1>6 DEF Holds
    <2>2. \A v \in Workers : Holds(v, c) => worker'[v].answer = worker[v].answer
        BY <1>1, <1>t, <1>6 DEF Holds
    <2> QED BY <2>1, <2>2 DEF Verdict
<1>7. ASSUME q.pc = "answer" PROVE Verdict(t)' = {q.answer}
    <2>1. q.answer \in Answers
        BY <1>7 DEF Worker
    <2>2. \A v \in Workers : Holds(v, t)' <=> v = w
        BY <1>1, <1>t, <1>4 DEF Holds
    <2> QED BY <1>1, <1>3, <1>7, <2>1, <2>2 DEF Verdict, Answers
<1>8. ASSUME q.pc # "answer" PROVE Verdict(t)' = {}
    BY <1>1, <1>t, <1>3, <1>4, <1>8 DEF Verdict, Holds, Answers
<1>9. TakenOn' = TakenOn /\ Told' = Told
    BY <1>1, <1>t DEF TakenOn, Queued, Held, Holds, Told
<1>10. q.pc = "answer" => Verdicts' = [Verdicts EXCEPT ![t] = {q.answer}]
    BY <1>1, <1>6, <1>7 DEF Verdicts
<1>11. q.pc # "answer" => Verdicts' = Verdicts
    BY <1>1, <1>5, <1>6, <1>8 DEF Verdicts
<1> QED BY <1>t, <1>3, <1>5, <1>9, <1>10, <1>11

(* A worker that takes a task, leaves, or hands its answer over: the book     *)
(* does not see it.                                                         *)
LEMMA BookStutters ==
    ASSUME EngineInv, NEW w \in Workers, Take(w) \/ Exit(w) \/ Answer(w) \/ Acquire(w)
    PROVE  UNCHANGED <<Told, Verdicts, TakenOn, closed, sent, applied>>
<1>1. UNCHANGED <<call, closed, sent, applied>> /\ Told' = Told
    BY DEF Take, Exit, Answer, Acquire, Told
<1>2. CASE Take(w)
    <2> DEFINE t == Head(tasks)
               q == [Idle EXCEPT !.pc = "acquire", !.task = t]
    <2>1. /\ t \in Calls /\ Queued(t)
          /\ \A d \in Calls : Queued(d)' <=> Queued(d) /\ d # t
        BY <1>2, TailQueued, EngineTypes DEF Take, EngineInv, Channel
    <2>2. q \in Worker /\ q.pc = "acquire" /\ q.task = t
        <3>1. Idle \in Worker
            BY SizesAssumption DEF Idle, Worker
        <3> QED BY <2>1, <3>1 DEF Worker
    <2>3. worker' = [worker EXCEPT ![w] = q] /\ respC' = respC /\ worker[w].pc = "idle"
        BY <1>2 DEF Take
    <2> HIDE DEF q, t
    <2>4. worker'[w] = q /\ \A v \in Workers \ {w} : worker'[v] = worker[v]
        BY <2>2, <2>3, WorkerChanges
    <2>5. worker[w].task = NoCall
        BY <2>3 DEF EngineInv, AtWork
    <2>6. Verdicts' = Verdicts
        BY <2>2, <2>3, <2>4 DEF Verdicts, Verdict, Holds
    <2>7. ASSUME NEW c \in Calls
          PROVE  (Queued(c) \/ Held(c) \/ respC[c] # "none")' <=>
                    (Queued(c) \/ Held(c) \/ respC[c] # "none")
        <3>1. CASE c = t
            BY <2>1, <2>2, <2>4, <3>1 DEF Held, Holds
        <3>2. CASE c # t
            <4>1. Held(c)' <=> Held(c)
                BY <2>2, <2>4, <2>5, <3>2, NoCallAssumption DEF Held, Holds
            <4> QED BY <2>1, <2>3, <3>2, <4>1
        <3> QED BY <3>1, <3>2
    <2>8. TakenOn' = TakenOn
        BY <2>7 DEF TakenOn
    <2> QED BY <1>1, <2>6, <2>8
<1>3. CASE Exit(w)
    <2> DEFINE q == [worker[w] EXCEPT !.pc = "exited"]
    <2>1. q \in Worker /\ q.pc = "exited" /\ q.task = worker[w].task
        BY EngineTypes DEF Worker
    <2>2. worker' = [worker EXCEPT ![w] = q] /\ worker[w].pc = "idle" /\ UNCHANGED <<tasks, respC>>
        BY <1>3 DEF Exit
    <2> HIDE DEF q
    <2>3. worker'[w] = q /\ \A v \in Workers \ {w} : worker'[v] = worker[v]
        BY <2>1, <2>2, WorkerChanges
    <2>4. Verdicts' = Verdicts
        BY <2>1, <2>2, <2>3 DEF Verdicts, Verdict, Holds
    <2>5. TakenOn' = TakenOn
        BY <2>1, <2>2, <2>3 DEF TakenOn, Queued, Held, Holds
    <2> QED BY <1>1, <2>4, <2>5
<1>4. CASE Answer(w)
    <2>1. /\ worker[w].pc = "answer" /\ worker' = [worker EXCEPT ![w] = Idle]
          /\ respC' = [respC EXCEPT ![worker[w].task] = worker[w].answer] /\ tasks' = tasks
        BY <1>4 DEF Answer
    <2>2. PICK t \in Calls, a \in Answers :
             t = worker[w].task /\ a = worker[w].answer /\ t # NoCall
        BY <2>1, EngineTypes DEF EngineInv, AtWork, Worker
    <2>3. Idle \in Worker /\ Idle.task = NoCall /\ Idle.pc = "idle"
        BY SizesAssumption DEF Idle, Worker
    <2>4. worker'[w] = Idle /\ \A v \in Workers \ {w} : worker'[v] = worker[v]
        BY <2>1, <2>3, WorkerChanges
    <2>5. respC'[t] = a /\ \A c \in Calls \ {t} : respC'[c] = respC[c]
        BY <2>1, <2>2, EngineTypes
    <2>6. Held(t) /\ \A v \in Workers \ {w} : worker[v].task # t
        BY <2>2 DEF EngineInv, Single, Held, Holds
    <2>7. respC[t] = "none"
        BY <2>2, <2>6 DEF EngineInv, Placed
    <2>8. ASSUME NEW c \in Calls PROVE Verdict(c)' = Verdict(c)
        <3>1. CASE c = t
            <4>1. Verdict(t) = {a}
                BY <2>1, <2>2, <2>6, <2>7 DEF Verdict, Holds, Answers
            <4>2. Verdict(t)' = {a}
                BY <2>2, <2>3, <2>4, <2>5, <2>6 DEF Verdict, Holds, Answers
            <4> QED BY <3>1, <4>1, <4>2
        <3>2. CASE c # t
            BY <2>2, <2>3, <2>4, <2>5, <3>2, NoCallAssumption DEF Verdict, Holds
        <3> QED BY <3>1, <3>2
    <2>9. ASSUME NEW c \in Calls
          PROVE  (Queued(c) \/ Held(c) \/ respC[c] # "none")' <=>
                    (Queued(c) \/ Held(c) \/ respC[c] # "none")
        <3>1. CASE c = t
            BY <2>2, <2>5, <2>6, <3>1 DEF Answers
        <3>2. CASE c # t
            <4>1. Held(c)' <=> Held(c)
                BY <2>2, <2>3, <2>4, <3>2, NoCallAssumption DEF Held, Holds
            <4> QED BY <2>1, <2>5, <3>2, <4>1 DEF Queued
        <3> QED BY <3>1, <3>2
    <2>10. Verdicts' = Verdicts
        BY <2>8 DEF Verdicts
    <2>11. TakenOn' = TakenOn
        BY <2>9 DEF TakenOn
    <2> QED BY <1>1, <2>10, <2>11
<1>5. CASE Acquire(w)
    <2> DEFINE q == [worker[w] EXCEPT !.pc = "send"]
    <2>1. q \in Worker /\ q.task = worker[w].task /\ q.pc = "send"
        BY EngineTypes DEF Worker
    <2>2. /\ worker' = [worker EXCEPT ![w] = q] /\ worker[w].pc = "acquire"
          /\ UNCHANGED <<call, tasks, respC>>
        BY <1>5 DEF Acquire
    <2> HIDE DEF q
    <2> QED BY <1>1, <2>1, <2>2, BookWork
<1> QED BY <1>2, <1>3, <1>4, <1>5

(* A call is taken on, told or given up as the book says.                    *)
LEMMA BookCalls ==
    ASSUME EngineInv, NEW c \in Calls,
           Enqueue(c) \/ EnqueueClosed(c) \/ Receive(c) \/ Expire(c)
    PROVE  Book!Accept(c) \/ Book!Panic(c) \/ Book!GiveUp(c) \/ Book!Tell(c)
<1>1. /\ call \in [Calls -> Call] /\ Placed(c)
      /\ UNCHANGED <<closed, worker, respC, sent, applied>>
    BY EngineTypes DEF EngineInv, Enqueue, EnqueueClosed, Receive, Expire
<1>2. Told[c] = "none"
    BY <1>1 DEF Told, Placed, Enqueue, EnqueueClosed, Receive, Expire
<1>3. call[c].pc = "idle" => c \notin TakenOn
    BY <1>1 DEF Placed, Unseen, TakenOn
<1>4. CASE Enqueue(c)
    <2>1. \A d \in Calls : Queued(d)' <=> Queued(d) \/ d = c
        BY <1>4, AppendQueued, EngineTypes DEF Enqueue
    <2>2. TakenOn' = TakenOn \cup {c}
        BY <1>1, <2>1 DEF TakenOn, Held, Holds
    <2>3. Verdicts' = Verdicts
        BY <1>1 DEF Verdicts, Verdict, Holds
    <2>4. \A d \in Calls : call'[d].result = call[d].result
        BY <1>1, <1>4 DEF Enqueue, Call
    <2>5. Told' = Told
        BY <2>4 DEF Told
    <2> QED BY <1>1, <1>2, <1>3, <1>4, <2>2, <2>3, <2>5 DEF Book!Accept, Enqueue
<1>5. CASE EnqueueClosed(c)
    <2>1. /\ Told' = [Told EXCEPT ![c] = "panic"] /\ Verdicts' = Verdicts /\ TakenOn' = TakenOn
        BY <1>5, BookCall DEF EnqueueClosed
    <2> QED BY <1>1, <1>2, <1>3, <1>5, <2>1 DEF Book!Panic, Book!Learns, EnqueueClosed
<1>6. CASE Receive(c)
    <2>1. Told' = [Told EXCEPT ![c] = respC[c]] /\ Verdicts' = Verdicts /\ TakenOn' = TakenOn
        BY <1>6, BookCall DEF Receive
    <2>2. respC[c] \in Verdicts[c]
        BY <1>6, EngineTypes DEF Receive, Verdicts, Verdict
    <2> QED BY <1>1, <1>2, <2>1, <2>2 DEF Book!Tell, Book!Learns
<1>7. CASE Expire(c)
    <2>1. Told' = [Told EXCEPT ![c] = "ctx"] /\ Verdicts' = Verdicts /\ TakenOn' = TakenOn
        BY <1>7, BookCall DEF Expire
    <2> QED BY <1>1, <1>2, <2>1 DEF Book!GiveUp, Book!Learns
<1> QED BY <1>4, <1>5, <1>6, <1>7

(* A worker tries its call, or gives it up, as the book says.                *)
LEMMA BookTries ==
    ASSUME EngineInv, NEW w \in Workers, AcquireFails(w) \/ BuildFails(w) \/ Send(w)
    PROVE  \/ \E c \in Calls : Book!Try(c) \/ Book!Fail(c)
           \/ UNCHANGED <<Told, Verdicts, TakenOn, closed, sent, applied>>
<1> DEFINE t == worker[w].task
<1>1. /\ worker[w].pc \in {"acquire", "send"}
      /\ UNCHANGED <<call, tasks, closed, respC>>
    BY DEF AcquireFails, BuildFails, Send
<1>2. t \in Calls /\ sent \in [Calls -> Nat]
    BY <1>1, WorkFacts, EngineTypes
<1>3. sent[t] < MaxRetries + 1
    BY <1>1, WorkFacts, SizesAssumption
<1>4. ASSUME NEW q \in Worker, worker' = [worker EXCEPT ![w] = q], q.task = t,
             \/ q.pc = "acquire"
             \/ q.pc = "answer" /\ q.answer # "none"
      PROVE  /\ Book!Pending(t) /\ UNCHANGED <<Told, TakenOn>>
             /\ q.pc = "answer" => Book!Decide(t, q.answer)
             /\ q.pc # "answer" => Verdicts' = Verdicts
    BY <1>1, <1>4, BookWork DEF Book!Pending, Book!Decide
<1>5. CASE AcquireFails(w)
    <2>1. Retry(w) /\ UNCHANGED <<sent, applied>>
        BY <1>5 DEF AcquireFails
    <2>2. PICK q \in Worker :
              /\ worker' = [worker EXCEPT ![w] = q] /\ q.task = t
              /\ \/ q.pc = "acquire" /\ q.attempt = worker[w].attempt + 1
                 \/ q.pc = "answer" /\ q.answer = "error"
        BY <1>1, <2>1, RetryChanges
    <2> HIDE DEF t
    <2> QED BY <1>1, <1>2, <1>4, <2>1, <2>2 DEF Book!Fail
<1>6. CASE BuildFails(w)
    <2>1. AnswerWith(w, "error") /\ UNCHANGED <<sent, applied>>
        BY <1>6 DEF BuildFails
    <2>2. PICK q \in Worker :
              /\ worker' = [worker EXCEPT ![w] = q] /\ q.task = t
              /\ q.pc = "answer" /\ q.answer = "error"
        BY <2>1, AnswerWithChanges DEF Answers
    <2> HIDE DEF t
    <2> QED BY <1>1, <1>2, <1>4, <2>1, <2>2 DEF Book!Fail
<1>7. CASE Send(w)
    <2>1. sent' = [sent EXCEPT ![t] = @ + 1]
        BY <1>7 DEF Send
    <2>2. CASE AnswerWith(w, "ok") /\ applied' = applied \cup {t}
        <3>1. PICK q \in Worker :
                  /\ worker' = [worker EXCEPT ![w] = q] /\ q.task = t
                  /\ q.pc = "answer" /\ q.answer = "ok"
            BY <2>2, AnswerWithChanges DEF Answers
        <3> HIDE DEF t
        <3> QED BY <1>1, <1>2, <1>3, <1>4, <2>1, <2>2, <3>1 DEF Book!Try
    <2>3. CASE AnswerWith(w, "refused") /\ applied' = applied
        <3>1. PICK q \in Worker :
                  /\ worker' = [worker EXCEPT ![w] = q] /\ q.task = t
                  /\ q.pc = "answer" /\ q.answer = "refused"
            BY <2>3, AnswerWithChanges DEF Answers
        <3> HIDE DEF t
        <3> QED BY <1>1, <1>2, <1>3, <1>4, <2>1, <2>3, <3>1 DEF Book!Try
    <2>4. CASE Retry(w) /\ applied' \in {applied, applied \cup {t}}
        <3>1. PICK q \in Worker :
              /\ worker' = [worker EXCEPT ![w] = q] /\ q.task = t
              /\ \/ q.pc = "acquire" /\ q.attempt = worker[w].attempt + 1
                 \/ q.pc = "answer" /\ q.answer = "error"
            BY <1>1, <2>4, RetryChanges
        <3> HIDE DEF t
        <3>2. Book!Decide(t, "error") \/ Verdicts' = Verdicts
            BY <1>4, <3>1
        <3>3. Book!Pending(t) /\ UNCHANGED <<Told, TakenOn>>
            BY <1>4, <3>1
        <3> QED BY <1>1, <1>2, <1>3, <2>1, <2>4, <3>2, <3>3 DEF Book!Try
    <2> QED BY <2>2, <2>3, <2>4, <1>7 DEF Send
<1> QED BY <1>5, <1>6, <1>7

(* For any calls, workers, tokens, sizes and retries, and any order of the    *)
(* channel, the workers, failures and Close, the engine implements the book: *)
(* a call is tried at most MaxRetries + 1 times and never after its verdict, *)
(* which is one and true, and none is taken on after Close.                  *)
THEOREM BookTheorem == Spec => BookSpec
<1>1. Init => Book!Init
    <2> SUFFICES ASSUME Init PROVE Book!Init
        OBVIOUS
    <2>1. \A w \in Workers : worker[w].task = NoCall /\ worker[w].pc = "idle"
        BY DEF Init, Idle
    <2>2. \A c \in Calls : ~ Queued(c) /\ ~ Held(c) /\ respC[c] = "none"
        BY <2>1, NoCallAssumption DEF Init, Queued, Held, Holds
    <2>3. TakenOn = {}
        BY <2>2 DEF TakenOn
    <2>4. \A c \in Calls : Verdict(c) = {}
        BY <2>1, <2>2 DEF Verdict, Answers
    <2>5. Told = [c \in Calls |-> "none"] /\ Verdicts = [c \in Calls |-> {}]
        BY <2>4 DEF Init, Told, Verdicts
    <2> QED BY <2>3, <2>5 DEF Book!Init, Init
<1>2. EngineInv /\ [Next]_vars => [Book!Next]_<<Told, Verdicts, TakenOn, closed, sent, applied>>
    <2> SUFFICES ASSUME EngineInv, [Next]_vars
                 PROVE  \/ Book!Next
                        \/ UNCHANGED <<Told, Verdicts, TakenOn, closed, sent, applied>>
        OBVIOUS
    <2>1. ASSUME UNCHANGED <<call, tasks, worker, respC>>
          PROVE  UNCHANGED <<Told, Verdicts, TakenOn>>
        BY <2>1 DEF Told, Verdicts, Verdict, TakenOn, Queued, Held, Holds
    <2>2. CASE Close
        BY <2>1, <2>2 DEF Close, Book!Next, Book!Close
    <2>3. CASE OtherGrant \/ Tick \/ UNCHANGED vars
        BY <2>1, <2>3 DEF OtherGrant, Tick, vars
    <2>4. CASE \E c \in Calls : Enqueue(c) \/ EnqueueClosed(c) \/ Receive(c) \/ Expire(c)
        BY <2>4, BookCalls DEF Book!Next
    <2>5. CASE \E w \in Workers : WorkerStep(w)
        BY <2>5, BookTries, BookStutters DEF WorkerStep, Book!Next
    <2> QED BY <2>2, <2>3, <2>4, <2>5 DEF Next
<1> QED BY <1>1, <1>2, EngineInvariant, PTL DEF Spec, BookSpec, Book!Spec

-----------------------------------------------------------------------------
(***************************************************************************)
(* The synchronous upserts                                                  *)
(***************************************************************************)

Past == {"adviser", "company", "trigger", "callback"}

\* Past its upsert the contact of a request is there; it has no result before
\* its end.
OfSync(q, there) ==
    /\ q.pc \in Past => there
    /\ q.pc # "done" => q.result = "none"

SyncInv == /\ contact \in [Emails -> Contact]
           /\ linked \subseteq Emails \X {"adviser", "company"}
           /\ recorded \subseteq Emails
           /\ sync \in [Syncs -> Sync]
           /\ \A r \in Syncs : /\ OfSync(sync[r], contact[EmailOf[r]].there)
                               /\ sync[r].result = "failed" /\ ByEmail(r) =>
                                     sync[r].faults \/ sync[r].missed
           /\ \A e \in recorded : contact[e].there
           /\ \A l \in linked : contact[l[1]].there

(* No request has come in at first.                                          *)
LEMMA SyncInvInit == JobsInit => SyncInv
BY KindsAssumption DEF JobsInit, SyncInit, SyncInv, Contact, Sync, OfSync, Ptr, Past

(* A request takes its next record, and perhaps writes its contact.          *)
LEMMA SyncMoves ==
    ASSUME SyncInv, NEW r \in Syncs, NEW q \in Sync, sync' = [sync EXCEPT ![r] = q],
           contact' \in [Emails -> Contact],
           \A e \in Emails : contact[e].there => contact'[e].there,
           linked' \subseteq Emails \X {"adviser", "company"}, recorded' \subseteq Emails,
           \A e \in recorded' : contact'[e].there,
           \A l \in linked' : contact'[l[1]].there,
           OfSync(q, contact'[EmailOf[r]].there),
           q.result = "failed" /\ ByEmail(r) => q.faults \/ q.missed
    PROVE  SyncInv'
<1>1. /\ sync' \in [Syncs -> Sync] /\ sync'[r] = q
      /\ \A s \in Syncs : s # r => sync'[s] = sync[s]
    BY DEF SyncInv
<1>2. /\ contact' \in [Emails -> Contact] /\ sync' \in [Syncs -> Sync]
      /\ linked' \subseteq Emails \X {"adviser", "company"} /\ recorded' \subseteq Emails
    BY <1>1
<1>3. ASSUME NEW s \in Syncs
      PROVE  /\ OfSync(sync'[s], contact'[EmailOf[s]].there)
             /\ sync'[s].result = "failed" /\ ByEmail(s) => sync'[s].faults \/ sync'[s].missed
    <2>1. CASE s = r
        BY <1>1, <2>1
    <2>2. CASE s # r
        BY <1>1, <2>2, KindsAssumption DEF SyncInv, OfSync
    <2> QED BY <2>1, <2>2
<1> QED BY <1>2, <1>3 DEF SyncInv

(* The contacts as an upsert or the index leaves them.                       *)
LEMMA ContactMoves ==
    ASSUME SyncInv, NEW e \in Emails,
           NEW c \in Contact, contact' = [contact EXCEPT ![e] = c], contact[e].there => c.there
    PROVE  /\ contact' \in [Emails -> Contact] /\ contact'[e] = c
           /\ \A d \in Emails : contact[d].there => contact'[d].there
           /\ \A d \in recorded : contact'[d].there
           /\ \A l \in linked : contact'[l[1]].there
<1>1. contact \in [Emails -> Contact] /\ recorded \subseteq Emails
      /\ \A l \in linked : l[1] \in Emails
    BY DEF SyncInv
<1> QED BY <1>1 DEF SyncInv

(* An upsert leaves its contact there, and every other one that was.         *)
LEMMA MergedMoves ==
    ASSUME SyncInv, NEW r \in Syncs, Merged(r)
    PROVE  /\ contact' \in [Emails -> Contact] /\ contact'[EmailOf[r]].there
           /\ \A d \in Emails : contact[d].there => contact'[d].there
           /\ \A d \in recorded : contact'[d].there
           /\ \A l \in linked : contact'[l[1]].there
<1> DEFINE e == EmailOf[r]
           n == contact[e].dni \/ HasDni(r)
           k == IF HasCode(r) THEN {r} ELSE contact[e].code
           c == [contact[e] EXCEPT !.there = TRUE, !.dni = n, !.code = k]
<1>1. e \in Emails /\ contact[e] \in Contact
    BY KindsAssumption DEF SyncInv
<1>2. n \in BOOLEAN /\ k \in Ptr(Syncs)
    <2>1. {r} \in Ptr(Syncs) /\ contact[e].code \in Ptr(Syncs)
        BY <1>1 DEF Contact, Ptr
    <2> QED BY <1>1, <2>1 DEF Contact, HasDni
<1>3. contact' = [contact EXCEPT ![e] = c]
    BY DEF Merged
<1> HIDE DEF n, k
<1>5. c \in Contact /\ c.there
    BY <1>1, <1>2 DEF Contact
<1> HIDE DEF e, c
<1>4. /\ contact' \in [Emails -> Contact] /\ contact'[e].there
      /\ \A d \in Emails : contact[d].there => contact'[d].there
      /\ \A d \in recorded : contact'[d].there
      /\ \A l \in linked : contact'[l[1]].there
    BY <1>1, <1>3, <1>5, ContactMoves
<1> QED BY <1>4 DEF e

(* The three statements that store the properties of a request.              *)
LEMMA UpsertKeeps ==
    ASSUME SyncInv, NEW r \in Syncs, Upserted(r), sync[r].pc # "done"
    PROVE  SyncInv'
<1> USE DEF Past
<1>1. sync[r] \in Sync /\ sync[r].result = "none"
    BY DEF SyncInv, OfSync
<1>2. PICK p \in {"adviser", "company", "trigger", "callback", "done"} : p = AfterUpsert(r)
    BY DEF AfterUpsert
<1> DEFINE q == [sync[r] EXCEPT !.pc = p, !.result = ResultAt(p)]
<1>3. ResultAt(p) \in {"ok", "none"} /\ (p # "done" => ResultAt(p) = "none")
    BY DEF ResultAt
<1>4. q \in Sync /\ q.pc = p /\ q.result = ResultAt(p)
    BY <1>1, <1>3 DEF Sync
<1>5. sync' = [sync EXCEPT ![r] = q]
    BY <1>2 DEF Upserted
<1> HIDE DEF q
<1>6. OfSync(q, TRUE) /\ q.result # "failed"
    BY <1>3, <1>4 DEF OfSync
<1>7. /\ Merged(r) /\ UNCHANGED <<linked, recorded>>
      /\ linked \subseteq Emails \X {"adviser", "company"} /\ recorded \subseteq Emails
    BY DEF Upserted, SyncInv
<1>8. /\ contact' \in [Emails -> Contact] /\ contact'[EmailOf[r]].there = TRUE
      /\ \A d \in Emails : contact[d].there => contact'[d].there
      /\ \A d \in recorded : contact'[d].there
      /\ \A l \in linked : contact'[l[1]].there
    <2>1. EmailOf[r] \in Emails
        BY KindsAssumption
    <2> QED BY <1>7, <2>1, MergedMoves DEF Contact
<1>9. OfSync(q, contact'[EmailOf[r]].there)
    BY <1>6, <1>8
<1> QED BY <1>4, <1>5, <1>6, <1>7, <1>8, <1>9, SyncMoves

(* A request goes on, ends, or meets a fault: its properties are where they    *)
(* were, and what it has no business with stays.                             *)
LEMMA SyncTurns ==
    ASSUME SyncInv, NEW r \in Syncs, NEW q \in Sync, sync' = [sync EXCEPT ![r] = q],
           q.pc # "done" => q.result = "none",
           q.pc \in Past => sync[r].pc \in Past,
           q.result = "failed" /\ ByEmail(r) => q.faults \/ q.missed,
           contact' \in [Emails -> Contact],
           \A d \in Emails : contact[d].there => contact'[d].there,
           linked' \subseteq Emails \X {"adviser", "company"}, recorded' \subseteq Emails,
           \A d \in recorded' : contact'[d].there,
           \A l \in linked' : contact'[l[1]].there
    PROVE  SyncInv'
<1>1. EmailOf[r] \in Emails /\ OfSync(sync[r], contact[EmailOf[r]].there)
    BY KindsAssumption DEF SyncInv
<1>2. OfSync(q, contact'[EmailOf[r]].there)
    BY <1>1 DEF OfSync
<1> QED BY <1>2, SyncMoves

(* Its new record, when only its place, its result and its fault may change.  *)
LEMMA SyncRecords ==
    ASSUME SyncInv, NEW r \in Syncs, sync[r].pc # "done",
           NEW p \in {"search", "update", "create", "research", "rewrite",
                      "adviser", "company", "trigger", "callback", "done"},
           NEW e \in {"none", "ok", "failed"},
           \/ SyncTo(r, p) /\ e = "none"
           \/ SyncEnds(r, e) /\ p = "done" /\ (e = "failed" => ~ByEmail(r))
           \/ Faulty(r, p, e)
    PROVE  \E q \in Sync : /\ sync' = [sync EXCEPT ![r] = q]
                           /\ q.pc = p /\ q.result = e
                           /\ e = "failed" /\ ByEmail(r) => q.faults
<1>1. sync[r] \in Sync /\ sync[r].result = "none"
    BY DEF SyncInv, OfSync
<1>2. CASE SyncTo(r, p) /\ e = "none"
    <2> DEFINE q == [sync[r] EXCEPT !.pc = p]
    <2>1. /\ q \in Sync
          /\ q.pc = p /\ q.result = "none"
        BY <1>1 DEF Sync
    <2>2. sync' = [sync EXCEPT ![r] = q]
        BY <1>2 DEF SyncTo
    <2> HIDE DEF q
    <2> QED BY <1>2, <2>1, <2>2
<1>3. CASE SyncEnds(r, e) /\ p = "done" /\ (e = "failed" => ~ByEmail(r))
    <2> DEFINE q == [sync[r] EXCEPT !.pc = "done", !.result = e]
    <2>1. /\ q \in Sync
          /\ q.pc = "done" /\ q.result = e
        BY <1>1 DEF Sync
    <2>2. sync' = [sync EXCEPT ![r] = q]
        BY <1>3 DEF SyncEnds
    <2> HIDE DEF q
    <2> QED BY <1>3, <2>1, <2>2
<1>4. CASE Faulty(r, p, e)
    <2> DEFINE q == [sync[r] EXCEPT !.pc = p, !.result = e, !.faults = TRUE]
    <2>1. /\ q \in Sync
          /\ q.pc = p /\ q.result = e /\ q.faults
        BY <1>1 DEF Sync
    <2>2. sync' = [sync EXCEPT ![r] = q]
        BY <1>4 DEF Faulty
    <2> HIDE DEF q
    <2> QED BY <2>1, <2>2
<1> QED BY <1>2, <1>3, <1>4

(* A request that writes no properties, whatever it does to the tables beside.*)
LEMMA SyncGoesOn ==
    ASSUME SyncInv, NEW r \in Syncs, sync[r].pc # "done",
           NEW p \in {"search", "update", "create", "research", "rewrite",
                      "adviser", "company", "trigger", "callback", "done"},
           NEW e \in {"none", "ok", "failed"},
           \/ SyncTo(r, p) /\ e = "none"
           \/ SyncEnds(r, e) /\ p = "done" /\ (e = "failed" => ~ByEmail(r))
           \/ Faulty(r, p, e),
           p # "done" => e = "none",
           p \in Past => sync[r].pc \in Past,
           contact' \in [Emails -> Contact],
           \A d \in Emails : contact[d].there => contact'[d].there,
           linked' \subseteq Emails \X {"adviser", "company"}, recorded' \subseteq Emails,
           \A d \in recorded' : contact'[d].there,
           \A l \in linked' : contact'[l[1]].there
    PROVE  SyncInv'
<1>1. PICK q \in Sync : /\ sync' = [sync EXCEPT ![r] = q]
                        /\ q.pc = p /\ q.result = e
                        /\ e = "failed" /\ ByEmail(r) => q.faults
    BY SyncRecords
<1> QED BY <1>1, SyncTurns

\* What a step that leaves contact, linked and recorded alone keeps of them.
LEMMA Untouched ==
    ASSUME SyncInv
    PROVE  /\ contact \in [Emails -> Contact]
           /\ linked \subseteq Emails \X {"adviser", "company"} /\ recorded \subseteq Emails
           /\ \A d \in recorded : contact[d].there
           /\ \A l \in linked : contact[l[1]].there
BY DEF SyncInv

(* The statements before the upsert: the searches and the lost race.         *)
LEMMA SearchKeeps ==
    ASSUME SyncInv, NEW r \in Syncs,
           SyncBegin(r) \/ SyncSearch(r) \/ SyncConflict(r) \/ SyncResearch(r)
    PROVE  SyncInv'
<1> USE DEF Past
<1>0. sync[r] \in Sync /\ UNCHANGED <<contact, linked, recorded>> /\ sync[r].pc # "done"
    BY DEF SyncInv, SyncBegin, SyncSearch, SyncConflict, SyncResearch
<1>1. sync[r].result = "none" /\ sync[r].faults \in BOOLEAN
    BY <1>0 DEF SyncInv, OfSync, Sync
<1>2. ASSUME NEW p \in {"search", "update", "create", "research", "rewrite"}, SyncTo(r, p)
      PROVE  SyncInv'
    BY <1>0, <1>1, <1>2, Untouched, SyncGoesOn
<1>3. ASSUME SyncEnds(r, "failed"), ~ByEmail(r)
      PROVE  SyncInv'
    BY <1>0, <1>3, Untouched, SyncGoesOn
<1>4. ASSUME sync' = [sync EXCEPT ![r].pc = "done", ![r].result = "failed", ![r].missed = TRUE]
      PROVE  SyncInv'
    <2> DEFINE q == [sync[r] EXCEPT !.pc = "done", !.result = "failed", !.missed = TRUE]
    <2>1. /\ q \in Sync
          /\ q.pc = "done" /\ q.missed
        BY <1>0 DEF Sync
    <2>2. sync' = [sync EXCEPT ![r] = q]
        BY <1>4
    <2> HIDE DEF q
    <2> QED BY <1>0, <2>1, <2>2, Untouched, SyncTurns
<1>5. CASE SyncBegin(r)
    BY <1>2, <1>5 DEF SyncBegin
<1>6. CASE SyncSearch(r)
    BY <1>2, <1>6 DEF SyncSearch
<1>7. CASE SyncConflict(r)
    BY <1>2, <1>3, <1>7 DEF SyncConflict
<1>8. CASE SyncResearch(r)
    BY <1>2, <1>4, <1>8 DEF SyncResearch
<1> QED BY <1>5, <1>6, <1>7, <1>8

(* The associations, which are made or logged.                               *)
LEMMA AssociateKeeps ==
    ASSUME SyncInv, NEW r \in Syncs, NEW to \in {"adviser", "company"},
           NEW next \in {"company", "trigger", "done"}, SyncAssociate(r, to, next)
    PROVE  SyncInv'
<1> USE DEF Past
<1>0. /\ sync[r] \in Sync /\ sync[r].pc = to /\ contact' = contact /\ recorded' = recorded
      /\ contact[EmailOf[r]].there /\ EmailOf[r] \in Emails
    BY KindsAssumption DEF SyncInv, SyncAssociate, OfSync
<1>1. ResultAt(next) \in {"none", "ok"} /\ (next # "done" => ResultAt(next) = "none")
    BY DEF ResultAt
<1>2. CASE Faulty(r, next, ResultAt(next)) /\ linked' = linked
    BY <1>0, <1>1, <1>2, Untouched, SyncGoesOn
<1>3. CASE /\ linked' = linked \cup {<<EmailOf[r], to>>}
           /\ sync' = [sync EXCEPT ![r].pc = next, ![r].result = ResultAt(next)]
    <2>1. /\ linked' \subseteq Emails \X {"adviser", "company"}
          /\ \A l \in linked' : contact[l[1]].there
        BY <1>0, <1>3, Untouched
    <2>2. PICK e \in {"none", "ok"} : e = ResultAt(next)
        BY <1>1
    <2> DEFINE q == [sync[r] EXCEPT !.pc = next, !.result = e]
    <2>3. /\ q \in Sync
          /\ q.pc = next /\ q.result = e
        BY <1>0, <2>2 DEF Sync
    <2>4. sync' = [sync EXCEPT ![r] = q]
        BY <1>3, <2>2
    <2> HIDE DEF q
    <2>5. /\ q.result # "failed" /\ (q.pc # "done" => q.result = "none")
          /\ sync[r].pc \in Past
        BY <1>0, <1>1, <2>2, <2>3
    <2>6. /\ contact' \in [Emails -> Contact] /\ recorded' \subseteq Emails
          /\ \A d \in Emails : contact[d].there => contact'[d].there
          /\ \A d \in recorded' : contact'[d].there
          /\ \A l \in linked' : contact'[l[1]].there
        BY <1>0, <2>1, Untouched
    <2> QED BY <2>1, <2>3, <2>4, <2>5, <2>6, SyncTurns
<1> QED BY <1>2, <1>3 DEF SyncAssociate

(* The webhook that mails the code, and the callback to users_service.       *)
LEMMA LastCallsKeep ==
    ASSUME SyncInv, NEW r \in Syncs, SyncTrigger(r) \/ SyncCallback(r)
    PROVE  SyncInv'
<1> USE DEF Past
<1>0. /\ sync[r] \in Sync /\ sync[r].pc # "done" /\ UNCHANGED <<contact, linked>>
      /\ contact[EmailOf[r]].there /\ EmailOf[r] \in Emails
    BY KindsAssumption DEF SyncInv, OfSync, SyncTrigger, SyncCallback
<1>1. CASE SyncTrigger(r)
    <2> DEFINE q == [sync[r] EXCEPT !.pc = "done", !.result = "ok"]
    <2>1. q \in Sync /\ q.pc = "done" /\ q.result = "ok"
        BY <1>0 DEF Sync
    <2>2. sync' = [sync EXCEPT ![r] = q] /\ recorded' = recorded
        BY <1>1 DEF SyncTrigger, SyncEnds
    <2> HIDE DEF q
    <2> QED BY <1>0, <2>1, <2>2, Untouched, SyncTurns
<1>2. CASE SyncCallback(r)
    <2>1. recorded' \subseteq Emails /\ \A d \in recorded' : contact[d].there
        BY <1>0, <1>2, Untouched DEF SyncCallback
    <2>2. SyncEnds(r, "ok") \/ Faulty(r, "done", "ok")
        BY <1>2 DEF SyncCallback
    <2> QED BY <1>0, <2>1, <2>2, Untouched, SyncGoesOn
<1> QED BY <1>1, <1>2

(* A call fails, or its caller gives up.                                     *)
LEMMA FailsKeeps ==
    ASSUME SyncInv, NEW r \in Syncs, SyncFails(r) \/ SyncGivesUp(r)
    PROVE  SyncInv'
<1>0. sync[r].pc # "done" /\ UNCHANGED <<contact, linked, recorded>>
    BY DEF SyncFails, SyncGivesUp, Writes
<1>2. Faulty(r, "done", "failed") \/ Faulty(r, "research", "none")
    BY DEF SyncFails, SyncGivesUp
<1> QED BY <1>0, <1>2, Untouched, SyncGoesOn DEF Past

(* HubSpot executes a write that nobody waits for.                           *)
LEMMA UnseenKeeps ==
    ASSUME SyncInv, NEW r \in Syncs, SyncUnanswered(r) \/ SyncLate(r)
    PROVE  SyncInv'
<1>1. UNCHANGED <<linked, recorded, sync>>
    BY DEF SyncUnanswered, SyncLate
<1>2. Merged(r) \/ contact' = contact
    BY DEF SyncUnanswered, SyncLate, Executed
<1>3. /\ contact' \in [Emails -> Contact]
      /\ \A d \in Emails : contact[d].there => contact'[d].there
      /\ \A d \in recorded : contact'[d].there
      /\ \A l \in linked : contact'[l[1]].there
    BY <1>2, Untouched, MergedMoves
<1> QED BY <1>1, <1>3, KindsAssumption DEF SyncInv, OfSync, ByEmail

(* Whatever a call or a job does, the upserts keep their invariant.           *)
LEMMA SyncNext == SyncInv /\ [JobsNext]_allVars => SyncInv'
<1> SUFFICES ASSUME SyncInv, [JobsNext]_allVars PROVE SyncInv'
    OBVIOUS
<1>1. CASE UNCHANGED syncVars
    BY <1>1 DEF SyncInv, syncVars, ByEmail
<1>2. ASSUME NEW e \in Emails, Index(e) PROVE SyncInv'
    <2>1. contact[e] \in Contact
        BY Untouched
    <2> DEFINE c == [contact[e] EXCEPT !.byEmail = contact[e].there, !.byDni = contact[e].dni]
    <2>2. c \in Contact /\ (contact[e].there => c.there)
        BY <2>1 DEF Contact
    <2>3. contact' = [contact EXCEPT ![e] = c]
        BY <1>2 DEF Index
    <2> HIDE DEF c
    <2>4. /\ contact' \in [Emails -> Contact]
          /\ \A d \in Emails : contact[d].there => contact'[d].there
          /\ \A d \in recorded : contact'[d].there
          /\ \A l \in linked : contact'[l[1]].there
        BY <2>2, <2>3, ContactMoves
    <2>5. UNCHANGED <<linked, recorded, sync>>
        BY <1>2 DEF Index
    <2> QED BY <2>4, <2>5, KindsAssumption DEF SyncInv, OfSync, ByEmail
<1>3. ASSUME NEW r \in Syncs, SyncBegin(r) \/ SyncStep(r) PROVE SyncInv'
    <2>1. CASE SyncUpdate(r)
        BY <2>1, UpsertKeeps DEF SyncUpdate
    <2>2. CASE SyncCreate(r)
        BY <2>2, UpsertKeeps DEF SyncCreate
    <2>3. CASE SyncRewrite(r)
        BY <2>3, UpsertKeeps DEF SyncRewrite
    <2>4. CASE SyncAdviser(r)
        BY <2>4, AssociateKeeps DEF SyncAdviser
    <2>5. CASE SyncCompany(r)
        BY <2>5, AssociateKeeps DEF SyncCompany
    <2> QED BY <1>3, <2>1, <2>2, <2>3, <2>4, <2>5, SearchKeeps, LastCallsKeep, FailsKeeps,
               UnseenKeeps DEF SyncStep
<1>4. CASE \E p \in Posts : \/ EnqueueTask(p) \/ EnqueueFails(p) \/ RunTask(p)
                            \/ TaskStep(p) \/ GiveBack(p) \/ Deliver(p)
    <2>1. UNCHANGED syncVars
        BY <1>4 DEF EnqueueTask, EnqueueFails, RunTask, TaskStep, Start, Due, Find, Write,
                    TaskFails, GiveBack, Deliver
    <2> QED BY <1>1, <2>1
<1> QED BY <1>1, <1>2, <1>3, <1>4 DEF JobsNext, allVars

-----------------------------------------------------------------------------
(* The code of a contact is that of the last upsert.  Whose that may be rests *)
(* on who was in flight beside whom: a request that may still write, and a   *)
(* request of its e-mail that is not over, have met.                        *)

Runs(r) == sync[r].pc \notin {"idle", "done"}
Stored(r) == \E q \in contact[EmailOf[r]].code : q = r \/ {q, r} \in beside

CodeInv ==
    /\ late \subseteq Syncs \X {"create", "update"} /\ beside \subseteq SUBSET Syncs
    /\ \A w \in late : sync[w[1]].pc = "done"
    /\ \A q, r \in Syncs : Rival(q, r) /\ Active(q) /\ Runs(r) => {q, r} \in beside
    /\ \A r \in Syncs : HasCode(r) /\ sync[r].pc \in Past => Stored(r)
    /\ \A r \in Syncs : sync[r].pc = "trigger" => HasCode(r)

(* No request is in flight at first.                                         *)
LEMMA CodeInvInit == JobsInit => CodeInv
BY DEF JobsInit, SyncInit, CodeInv, Active, Runs, Past

(* What a request that is in flight does, after it came in: it leaves other   *)
(* codes than its own alone, and is past its upsert with its own stored.     *)
LEMMA CodeMoves ==
    ASSUME SyncInv, CodeInv, NEW x \in Syncs, Active(x), beside' = beside,
           \A s \in Syncs \ {x} : sync'[s].pc = sync[s].pc,
           sync'[x].pc \notin {"idle", "done"} => Runs(x),
           late' \subseteq Syncs \X {"create", "update"},
           \A w \in late' : IF w[1] = x THEN sync'[x].pc = "done" ELSE w \in late,
           \A e \in Emails : \/ contact'[e].code = contact[e].code
                             \/ contact'[e].code = {x} /\ e = EmailOf[x] /\ HasCode(x),
           sync'[x].pc \in Past /\ HasCode(x) =>
               sync[x].pc \in Past \/ contact'[EmailOf[x]].code = {x},
           sync'[x].pc = "trigger" => HasCode(x)
    PROVE  CodeInv'
<1>1. \A s \in Syncs : (Active(s)' => Active(s)) /\ (Runs(s)' => Runs(s))
    BY DEF Active, Runs
<1>2. ASSUME NEW w \in late' PROVE sync'[w[1]].pc = "done"
    <2>1. w[1] \in Syncs
        OBVIOUS
    <2> QED BY <2>1 DEF CodeInv
<1>3. ASSUME NEW q \in Syncs, NEW r \in Syncs, Rival(q, r)', Active(q)', Runs(r)'
      PROVE  {q, r} \in beside'
    BY <1>1, <1>3 DEF CodeInv, Rival, HasCode
<1>4. ASSUME NEW r \in Syncs, HasCode(r)', sync'[r].pc \in Past PROVE Stored(r)'
    <2>0. HasCode(r) /\ EmailOf[r] \in Emails
        BY <1>4, KindsAssumption DEF HasCode
    <2>1. CASE contact'[EmailOf[r]].code = {x} /\ EmailOf[r] = EmailOf[x] /\ HasCode(x)
        <3>1. CASE r = x
            BY <2>1, <3>1 DEF Stored
        <3>2. CASE r # x
            <4>1. Rival(x, r) /\ Runs(r)
                BY <1>4, <2>0, <2>1, <3>2 DEF Rival, Runs, Past
            <4>2. {x, r} \in beside
                BY <4>1 DEF CodeInv
            <4> QED BY <2>1, <4>2 DEF Stored
        <3> QED BY <3>1, <3>2
    <2>2. CASE contact'[EmailOf[r]].code = contact[EmailOf[r]].code /\ sync[r].pc \in Past
        BY <2>0, <2>2 DEF CodeInv, Stored
    <2> QED BY <1>4, <2>0, <2>1, <2>2
<1>5. ASSUME NEW r \in Syncs, sync'[r].pc = "trigger" PROVE HasCode(r)'
    BY <1>5 DEF CodeInv, HasCode
<1>6. beside' \subseteq SUBSET Syncs
    BY DEF CodeInv
<1> QED BY <1>2, <1>3, <1>4, <1>5, <1>6 DEF CodeInv

(* A request comes in, and meets who is in flight.                           *)
LEMMA BeginCodes ==
    ASSUME SyncInv, CodeInv, NEW x \in Syncs, SyncBegin(x)
    PROVE  CodeInv'
<1>1. /\ sync[x].pc = "idle" /\ sync'[x].pc = "search"
      /\ \A s \in Syncs \ {x} : sync'[s] = sync[s]
      /\ UNCHANGED <<contact, late>> /\ beside \subseteq beside'
    BY DEF SyncBegin, SyncTo, SyncInv
<1>2. \A s \in Syncs \ {x} : (Active(s)' <=> Active(s)) /\ (Runs(s)' <=> Runs(s))
    BY <1>1 DEF Active, Runs
<1>3. \A w \in late : w[1] \in Syncs \ {x}
    BY <1>1 DEF CodeInv
<1>4. \A w \in late' : sync'[w[1]].pc = "done"
    BY <1>1, <1>3 DEF CodeInv
<1>5. \A q \in Syncs : Active(q) /\ Rival(q, x) => {q, x} \in beside' /\ {x, q} \in beside'
    BY DEF SyncBegin
<1>6. ASSUME NEW q \in Syncs, NEW r \in Syncs, Rival(q, r)', Active(q)', Runs(r)'
      PROVE  {q, r} \in beside'
    <2>1. Rival(q, r) /\ Rival(r, q) /\ q # r
        BY <1>6 DEF Rival, HasCode
    <2>2. CASE r = x
        BY <1>2, <1>5, <1>6, <2>1, <2>2
    <2>3. CASE q = x
        BY <1>2, <1>5, <1>6, <2>1, <2>3 DEF Active, Runs
    <2>4. CASE q # x /\ r # x
        BY <1>1, <1>2, <1>6, <2>1, <2>4 DEF CodeInv
    <2> QED BY <2>2, <2>3, <2>4
<1>7. ASSUME NEW r \in Syncs, HasCode(r)', sync'[r].pc \in Past PROVE Stored(r)'
    <2>1. r # x /\ HasCode(r) /\ sync[r].pc \in Past
        BY <1>1, <1>7 DEF Past, HasCode
    <2>2. Stored(r)
        BY <2>1 DEF CodeInv
    <2> QED BY <1>1, <2>2 DEF Stored
<1>8. ASSUME NEW r \in Syncs, sync'[r].pc = "trigger" PROVE HasCode(r)'
    BY <1>1, <1>8 DEF CodeInv, HasCode
<1>9. late' \subseteq Syncs \X {"create", "update"} /\ beside' \subseteq SUBSET Syncs
    BY <1>1 DEF CodeInv, SyncBegin
<1> QED BY <1>4, <1>6, <1>7, <1>8, <1>9 DEF CodeInv

\* The forms that a step of a request has.
Turn(x, p, e) ==
    \/ SyncTo(x, p) \/ Faulty(x, p, e)
    \/ SyncEnds(x, e) /\ p = "done"
    \/ sync' = [sync EXCEPT ![x].pc = p, ![x].result = e]
    \/ sync' = [sync EXCEPT ![x].pc = p, ![x].result = e, ![x].missed = TRUE]

(* The place of a request, by the form of its step.                          *)
LEMMA PlaceOf ==
    ASSUME SyncInv, NEW x \in Syncs,
           NEW p \in {"search", "update", "create", "research", "rewrite",
                      "adviser", "company", "trigger", "callback", "done"},
           NEW e \in {"none", "ok", "failed"},
           Turn(x, p, e)
    PROVE  sync'[x].pc = p /\ \A s \in Syncs \ {x} : sync'[s] = sync[s]
<1>1. sync \in [Syncs -> Sync] /\ sync[x] \in Sync
    BY DEF SyncInv
<1>2. CASE SyncTo(x, p)
    BY <1>1, <1>2 DEF SyncTo, Sync
<1>3. CASE Faulty(x, p, e)
    BY <1>1, <1>3 DEF Faulty, Sync
<1>4. CASE SyncEnds(x, e) /\ p = "done"
    BY <1>1, <1>4 DEF SyncEnds, Sync
<1>5. CASE sync' = [sync EXCEPT ![x].pc = p, ![x].result = e]
    BY <1>1, <1>5 DEF Sync
<1>6. CASE sync' = [sync EXCEPT ![x].pc = p, ![x].result = e, ![x].missed = TRUE]
    BY <1>1, <1>6 DEF Sync
<1> QED BY <1>2, <1>3, <1>4, <1>5, <1>6 DEF Turn

(* What a write does to the codes.                                           *)
LEMMA MergedCodes ==
    ASSUME SyncInv, NEW x \in Syncs, Merged(x)
    PROVE  /\ \A e \in Emails :
                 \/ contact'[e].code = contact[e].code
                 \/ contact'[e].code = {x} /\ e = EmailOf[x] /\ HasCode(x)
           /\ HasCode(x) => contact'[EmailOf[x]].code = {x}
<1> DEFINE f == EmailOf[x]
           n == contact[f].dni \/ HasDni(x)
           k == IF HasCode(x) THEN {x} ELSE contact[f].code
           c == [contact[f] EXCEPT !.there = TRUE, !.dni = n, !.code = k]
<1>1. contact \in [Emails -> Contact] /\ f \in Emails /\ contact[f] \in Contact
    BY KindsAssumption DEF SyncInv
<1>2. contact' = [contact EXCEPT ![f] = c]
    BY DEF Merged
<1> HIDE DEF n, k
<1>3. c.code = k
    BY <1>1 DEF Contact
<1> HIDE DEF c
<1>4. contact'[f] = c /\ \A e \in Emails \ {f} : contact'[e] = contact[e]
    BY <1>1, <1>2
<1> QED BY <1>1, <1>3, <1>4 DEF k

(* A step that writes nothing: the request goes on where it was, and is past  *)
(* its upsert only if it was.                                               *)
LEMMA QuietCodes ==
    ASSUME SyncInv, CodeInv, NEW x \in Syncs, Runs(x),
           UNCHANGED <<contact, late, beside>>,
           NEW p \in {"search", "update", "create", "research", "rewrite",
                      "adviser", "company", "trigger", "callback", "done"},
           NEW e \in {"none", "ok", "failed"},
           Turn(x, p, e),
           p \in Past => sync[x].pc \in Past,
           p = "trigger" => HasCode(x)
    PROVE  CodeInv'
<1>1. sync'[x].pc = p /\ \A s \in Syncs \ {x} : sync'[s] = sync[s]
    BY PlaceOf
<1>2. Active(x) /\ \A w \in late : w[1] # x
    BY DEF Active, Runs, CodeInv
<1>3. late' \subseteq Syncs \X {"create", "update"}
    BY DEF CodeInv
<1> QED BY <1>1, <1>2, <1>3, CodeMoves

(* The statements that store the properties of a request.                    *)
LEMMA UpsertCodes ==
    ASSUME SyncInv, CodeInv, NEW x \in Syncs, Writes(x), Upserted(x)
    PROVE  CodeInv'
<1>1. PICK p \in {"adviser", "company", "trigger", "callback", "done"} :
          p = AfterUpsert(x) /\ (p = "trigger" => HasCode(x))
    BY DEF AfterUpsert, HasCode
<1>2. PICK e \in {"none", "ok"} : e = ResultAt(p)
    BY DEF ResultAt
<1>3. sync' = [sync EXCEPT ![x].pc = p, ![x].result = e]
    BY <1>1, <1>2 DEF Upserted
<1>4. sync'[x].pc = p /\ \A s \in Syncs \ {x} : sync'[s] = sync[s]
    BY <1>3, PlaceOf DEF Turn
<1>5. Active(x) /\ Runs(x) /\ \A w \in late : w[1] # x
    BY DEF Active, Runs, CodeInv, Writes
<1>6. late' = late /\ beside' = beside /\ Merged(x) /\ late \subseteq Syncs \X {"create", "update"}
    BY DEF Upserted, CodeInv
<1> QED BY <1>1, <1>4, <1>5, <1>6, MergedCodes, CodeMoves

(* A write that nobody waits for, or is no more waited for.                   *)
LEMMA UnseenCodes ==
    ASSUME SyncInv, CodeInv, NEW x \in Syncs,
           SyncUnanswered(x) \/ SyncGivesUp(x) \/ SyncLate(x)
    PROVE  CodeInv'
<1>1. late \subseteq Syncs \X {"create", "update"} /\ beside' = beside
    BY DEF CodeInv, SyncUnanswered, SyncGivesUp, SyncLate
<1>2. CASE SyncUnanswered(x)
    <2>1. Active(x) /\ Merged(x) /\ sync' = sync /\ late' = late /\ \A w \in late : w[1] # x
        BY <1>2 DEF SyncUnanswered, Executed, Active, Writes, CodeInv
    <2>2. sync[x].pc \notin Past /\ sync[x].pc # "trigger" /\ Runs(x)
        BY <1>2 DEF SyncUnanswered, Writes, Past, Runs
    <2> QED BY <1>1, <2>1, <2>2, MergedCodes, CodeMoves
<1>3. CASE SyncGivesUp(x)
    <2>1. sync'[x].pc = "done" /\ \A s \in Syncs \ {x} : sync'[s] = sync[s]
        BY <1>3, PlaceOf DEF SyncGivesUp, Turn
    <2>2. Active(x) /\ contact' = contact /\ \A w \in late' : w \in late \/ w[1] = x
        BY <1>3 DEF SyncGivesUp, Active, Writes
    <2>3. late' \subseteq Syncs \X {"create", "update"}
        BY <1>1, <1>3 DEF SyncGivesUp, WriteOf
    <2> QED BY <1>1, <2>1, <2>2, <2>3, CodeMoves DEF Past
<1>4. CASE SyncLate(x)
    <2>1. PICK w \in late : w[1] = x /\ late' \in {late, late \ {w}}
        BY <1>4 DEF SyncLate
    <2>2. Active(x) /\ sync' = sync /\ late' \subseteq late /\ sync[x].pc = "done"
        BY <1>4, <2>1 DEF SyncLate, Active, CodeInv
    <2>3. CASE contact' = contact
        BY <1>1, <2>2, <2>3, CodeMoves DEF Past
    <2>4. CASE Merged(x)
        BY <1>1, <2>2, <2>4, MergedCodes, CodeMoves DEF Past
    <2> QED BY <1>4, <2>3, <2>4 DEF SyncLate, Executed
<1> QED BY <1>2, <1>3, <1>4

(* Every other step of a request writes nothing.                             *)
LEMMA OtherCodes ==
    ASSUME SyncInv, CodeInv, NEW x \in Syncs,
           \/ SyncSearch(x) \/ SyncConflict(x) \/ SyncResearch(x) \/ SyncFails(x)
           \/ SyncAdviser(x) \/ SyncCompany(x) \/ SyncTrigger(x) \/ SyncCallback(x)
    PROVE  CodeInv'
<1>1. Runs(x) /\ UNCHANGED <<contact, late, beside>>
    BY DEF Runs, SyncSearch, SyncConflict, SyncResearch, SyncFails, SyncAdviser, SyncCompany,
           SyncAssociate, SyncTrigger, SyncCallback
<1>2. CASE SyncSearch(x)
    <2>1. SyncTo(x, "update") \/ SyncTo(x, "create")
        BY <1>2 DEF SyncSearch
    <2> QED BY <1>1, <2>1, QuietCodes DEF Past, Turn
<1>3. CASE SyncConflict(x)
    <2>1. SyncTo(x, "rewrite") \/ SyncTo(x, "research") \/ SyncEnds(x, "failed")
        BY <1>3 DEF SyncConflict
    <2> QED BY <1>1, <2>1, QuietCodes DEF Past, Turn
<1>4. CASE SyncResearch(x)
    <2>1. \/ SyncTo(x, "rewrite")
          \/ sync' = [sync EXCEPT ![x].pc = "done", ![x].result = "failed", ![x].missed = TRUE]
        BY <1>4 DEF SyncResearch
    <2> QED BY <1>1, <2>1, QuietCodes DEF Past, Turn
<1>5. CASE SyncFails(x)
    <2>1. Faulty(x, "done", "failed") \/ Faulty(x, "research", "none")
        BY <1>5 DEF SyncFails
    <2> QED BY <1>1, <2>1, QuietCodes DEF Past, Turn
<1>6. ASSUME NEW to \in {"adviser", "company"}, NEW p \in {"company", "trigger", "done"},
             p = "trigger" => HasCode(x), SyncAssociate(x, to, p)
      PROVE  CodeInv'
    <2>1. PICK e \in {"none", "ok"} : e = ResultAt(p)
        BY DEF ResultAt
    <2>2. \/ sync' = [sync EXCEPT ![x].pc = p, ![x].result = e]
          \/ Faulty(x, p, e)
        BY <1>6, <2>1 DEF SyncAssociate
    <2>3. sync[x].pc \in Past
        BY <1>6 DEF SyncAssociate, Past
    <2> QED BY <1>1, <1>6, <2>2, <2>3, QuietCodes DEF Turn
<1>7. CASE SyncAdviser(x)
    BY <1>6, <1>7 DEF SyncAdviser
<1>8. CASE SyncCompany(x)
    <2>1. PICK p \in {"trigger", "done"} : p = (IF HasCode(x) THEN "trigger" ELSE "done")
        OBVIOUS
    <2>2. SyncAssociate(x, "company", p)
        BY <1>8, <2>1 DEF SyncCompany
    <2> QED BY <1>6, <2>1, <2>2
<1>9. CASE SyncTrigger(x) \/ SyncCallback(x)
    <2>1. SyncEnds(x, "ok") \/ Faulty(x, "done", "ok")
        BY <1>9 DEF SyncTrigger, SyncCallback
    <2> QED BY <1>1, <2>1, QuietCodes DEF Past, Turn
<1> QED BY <1>2, <1>3, <1>4, <1>5, <1>7, <1>8, <1>9

(* Whatever a call or a job does, the codes keep their invariant.            *)
LEMMA CodeNext == SyncInv /\ CodeInv /\ [JobsNext]_allVars => CodeInv'
<1> SUFFICES ASSUME SyncInv, CodeInv, [JobsNext]_allVars PROVE CodeInv'
    OBVIOUS
<1>1. ASSUME UNCHANGED <<sync, late, beside>>,
             \A e \in Emails : contact'[e].code = contact[e].code
      PROVE  CodeInv'
    <2>1. \A r \in Syncs : EmailOf[r] \in Emails
        BY KindsAssumption
    <2>2. \A r \in Syncs : (Stored(r)' <=> Stored(r)) /\ (HasCode(r)' <=> HasCode(r))
                           /\ (Active(r)' <=> Active(r)) /\ (Runs(r)' <=> Runs(r))
        BY <1>1, <2>1 DEF Stored, Active, Runs, HasCode
    <2>3. \A q, r \in Syncs : Rival(q, r)' <=> Rival(q, r)
        BY DEF Rival, HasCode
    <2> QED BY <1>1, <2>2, <2>3 DEF CodeInv
<1>2. CASE UNCHANGED syncVars
    BY <1>1, <1>2 DEF syncVars
<1>3. ASSUME NEW e \in Emails, Index(e) PROVE CodeInv'
    <2>1. contact \in [Emails -> Contact] /\ contact[e] \in Contact
        BY Untouched
    <2> DEFINE c == [contact[e] EXCEPT !.byEmail = contact[e].there, !.byDni = contact[e].dni]
    <2>2. c.code = contact[e].code
        BY <2>1 DEF Contact
    <2>3. contact' = [contact EXCEPT ![e] = c]
        BY <1>3 DEF Index
    <2> HIDE DEF c
    <2>4. \A d \in Emails : contact'[d].code = contact[d].code
        BY <2>1, <2>2, <2>3
    <2> QED BY <1>1, <1>3, <2>4 DEF Index
<1>4. ASSUME NEW x \in Syncs, SyncBegin(x) \/ SyncStep(x) PROVE CodeInv'
    <2>1. CASE SyncUpdate(x) \/ SyncCreate(x) \/ SyncRewrite(x)
        BY <2>1, UpsertCodes DEF SyncUpdate, SyncCreate, SyncRewrite, Writes
    <2> QED BY <1>4, <2>1, BeginCodes, UnseenCodes, OtherCodes DEF SyncStep
<1>5. CASE \E p \in Posts : \/ EnqueueTask(p) \/ EnqueueFails(p) \/ RunTask(p)
                            \/ TaskStep(p) \/ GiveBack(p) \/ Deliver(p)
    <2>1. UNCHANGED syncVars
        BY <1>5 DEF EnqueueTask, EnqueueFails, RunTask, TaskStep, Start, Due, Find, Write,
                    TaskFails, GiveBack, Deliver
    <2> QED BY <1>2, <2>1
<1> QED BY <1>2, <1>3, <1>4, <1>5 DEF JobsNext, allVars

(* Every reachable state of the upserts is well typed; past its upsert a      *)
(* request has a contact that is there, and the code that this contact holds *)
(* is of the request, or of one that was in flight beside it.                *)
THEOREM SyncInvariant == JobsSpec => [](SyncInv /\ CodeInv)
BY SyncInvInit, SyncNext, CodeInvInit, CodeNext, PTL DEF JobsSpec

(* For any requests, faults, lags of the index and writes that were given up, *)
(* the contact a mail is asked for holds the code of the request, or of a    *)
(* SendOTP of that e-mail in flight beside it, and never an older one; the   *)
(* associations name contacts that exist.                                    *)
THEOREM MailedTheorem == JobsSpec => []MailedIsStored
<1>1. SyncInv /\ CodeInv => MailedIsStored
    BY DEF SyncInv, CodeInv, Stored, Past, MailedIsStored
<1> QED BY <1>1, SyncInvariant, PTL

(* For any requests, faults and lags of the index, an upsert by e-mail fails  *)
(* only if a call failed or its second search saw nothing.                   *)
THEOREM RecoversTheorem == JobsSpec => []EmailUpsertRecovers
<1>1. SyncInv => EmailUpsertRecovers
    BY DEF SyncInv, EmailUpsertRecovers
<1> QED BY <1>1, SyncInvariant, PTL

-----------------------------------------------------------------------------
(***************************************************************************)
(* The jobs                                                                 *)
(***************************************************************************)

PostRow == [st: {"new", "refused", "failed", "accepted", "applied", "dropped", "archived"},
            rank: Nat]
TaskRow == [st: {"none", "pending", "find", "write", "retry", "archived"}, tries: Nat]

Accepted == { q \in Posts : post[q].rank > 0 }

\* No post of the id of a task that exists was accepted after it; HubSpot holds
\* of an object what a post about it brought.
Latest == \A p, q \in Posts : TaskOf[p] = TaskOf[q] /\ task[q].st # "none" =>
                                  post[p].rank <= post[q].rank
JobsInv == /\ post \in [Posts -> PostRow]
           /\ task \in [Posts -> TaskRow]
           /\ held \in [Emails \cup Schools -> Ptr(Posts)]
           /\ \A o \in Emails \cup Schools : \A p \in held[o] : Target(p) = o
           /\ \A q \in Posts : /\ post[q].rank <= Cardinality(Accepted)
                               /\ post[q].st = "new" => post[q].rank = 0
           /\ Latest

(* Nothing was accepted at first.                                            *)
LEMMA JobsInvInit == JobsInit => JobsInv
<1> SUFFICES ASSUME JobsInit PROVE JobsInv
    OBVIOUS
<1>1. Accepted = {}
    BY DEF JobsInit, Accepted
<1>2. Cardinality(Accepted) = 0
    BY <1>1, FS_EmptySet
<1> QED BY <1>2 DEF JobsInit, JobsInv, Latest, NoTask, Ptr, PostRow, TaskRow

(* A job moves: posts keep their ranks, and a task that exists existed.       *)
LEMMA JobMoves ==
    ASSUME JobsInv,
           post' \in [Posts -> PostRow],
           task' \in [Posts -> TaskRow],
           \A q \in Posts : post'[q].rank = post[q].rank,
           \A q \in Posts : post'[q].st = "new" => post[q].st = "new",
           \A q \in Posts : task'[q].st # "none" => task[q].st # "none",
           NEW p \in Posts, Written(p) \/ UNCHANGED held
    PROVE  JobsInv'
<1>1. Accepted' = Accepted
    BY DEF Accepted
<1>2. Target(p) \in Emails \cup Schools
    BY TasksAssumption DEF Target
<1>3. /\ held' \in [Emails \cup Schools -> Ptr(Posts)]
      /\ \A o \in Emails \cup Schools : \A q \in held'[o] : Target(q) = o
    <2>1. CASE held' = held
        BY <2>1 DEF JobsInv
    <2>2. CASE Written(p)
        BY <1>2, <2>2 DEF JobsInv, Written, Ptr
    <2> QED BY <2>1, <2>2
<1> QED BY <1>1, <1>3 DEF JobsInv, Latest, Target

(* What became of a post does not change when it was accepted.               *)
LEMMA PostMoves ==
    ASSUME JobsInv, NEW p \in Posts,
           NEW s \in {"refused", "failed", "accepted", "applied", "dropped", "archived"},
           PostIs(p, s) \/ post' = post
    PROVE  /\ post' \in [Posts -> PostRow]
           /\ \A q \in Posts : post'[q].rank = post[q].rank
           /\ \A q \in Posts : post'[q].st = "new" => post[q].st = "new"
<1>0. post \in [Posts -> PostRow]
    BY DEF JobsInv
<1> DEFINE row == [post[p] EXCEPT !.st = s]
<1>1. post[p] \in PostRow /\ row \in PostRow /\ row.rank = post[p].rank /\ row.st # "new"
    BY <1>0 DEF PostRow
<1>2. post' = post \/ post' = [post EXCEPT ![p] = row]
    BY DEF PostIs
<1> HIDE DEF row
<1> QED BY <1>0, <1>1, <1>2

(* A task that exists moves, or ends.                                        *)
LEMMA TaskMoves ==
    ASSUME JobsInv, NEW p \in Posts, NEW row \in TaskRow,
           task' = [task EXCEPT ![p] = row], task[p].st # "none" \/ row.st = "none"
    PROVE  /\ task' \in [Posts -> TaskRow]
           /\ \A q \in Posts : task'[q].st # "none" => task[q].st # "none"
BY DEF JobsInv

(* A task that exists goes to another place and keeps its tries.             *)
LEMMA TaskGoesTo ==
    ASSUME JobsInv, NEW p \in Posts, task[p].st # "none",
           NEW s \in {"pending", "find", "write", "retry", "archived"}, TaskTo(p, s)
    PROVE  /\ task' \in [Posts -> TaskRow]
           /\ \A q \in Posts : task'[q].st # "none" => task[q].st # "none"
<1> DEFINE row == [task[p] EXCEPT !.st = s]
<1>1. task[p] \in TaskRow
    BY DEF JobsInv
<1>2. row \in TaskRow
    BY <1>1 DEF TaskRow
<1>3. task' = [task EXCEPT ![p] = row]
    BY DEF TaskTo
<1> HIDE DEF row
<1> QED BY <1>2, <1>3, TaskMoves

(* A post is accepted last of all, and only when no task has its id.         *)
LEMMA PostKeeps ==
    ASSUME JobsInv, NEW p \in Posts, EnqueueTask(p)
    PROVE  JobsInv'
<1>0. /\ post[p].st = "new" /\ post[p].rank = 0 /\ held' = held
      /\ post \in [Posts -> PostRow]
      /\ task \in [Posts -> TaskRow]
    BY DEF EnqueueTask, JobsInv
<1>1. CASE ~ IdFree(p)
    <2>1. PostIs(p, "refused") /\ task' = task
        BY <1>1 DEF EnqueueTask
    <2> QED BY <1>0, <2>1, PostMoves, JobMoves
<1>2. CASE IdFree(p)
    <2> DEFINE n == Cardinality(Accepted)
    <2>1. IsFiniteSet(Posts) /\ Accepted \subseteq Posts
        BY TasksAssumption DEF Accepted
    <2>2. IsFiniteSet(Accepted) /\ n \in Nat
        BY <2>1, FS_Subset, FS_CardinalityType
    <2>3. /\ post' = [post EXCEPT ![p] = [st |-> "accepted", rank |-> 1 + n]]
          /\ task' = [task EXCEPT ![p].st = "pending"]
        BY <1>2 DEF EnqueueTask, TaskTo, Accepted
    <2> HIDE DEF n
    <2>4. /\ post' \in [Posts -> PostRow]
          /\ post'[p].rank = 1 + n /\ post'[p].st = "accepted"
          /\ \A q \in Posts \ {p} : post'[q] = post[q]
        <3> DEFINE row == [st |-> "accepted", rank |-> 1 + n]
        <3>1. row \in PostRow /\ row.rank = 1 + n /\ row.st = "accepted"
            BY <2>2 DEF PostRow
        <3>2. post' = [post EXCEPT ![p] = row]
            BY <2>3
        <3> HIDE DEF row
        <3> QED BY <1>0, <3>1, <3>2
    <2>5. /\ task' \in [Posts -> TaskRow]
          /\ \A q \in Posts \ {p} : task'[q] = task[q]
        <3> DEFINE row == [task[p] EXCEPT !.st = "pending"]
        <3>1. task[p] \in TaskRow /\ row \in TaskRow
            BY <1>0 DEF TaskRow
        <3>2. task' = [task EXCEPT ![p] = row]
            BY <2>3
        <3> HIDE DEF row
        <3> QED BY <1>0, <3>1, <3>2
    <2>6. \A q \in Posts : post[q].rank <= n /\ post[q].rank \in Nat
        <3>1. \A q \in Posts : post[q].rank <= n
            BY DEF JobsInv, n
        <3>2. \A q \in Posts : post[q] \in PostRow
            BY <1>0
        <3> QED BY <3>1, <3>2 DEF PostRow
    <2>7. Latest'
        <3> SUFFICES ASSUME NEW x \in Posts, NEW y \in Posts, TaskOf[x] = TaskOf[y],
                            task'[y].st # "none"
                     PROVE  post'[x].rank <= post'[y].rank
            BY DEF Latest
        <3>1. CASE y = p
            <4>1. post'[y].rank = 1 + n /\ post'[x].rank \in {post[x].rank, 1 + n}
                BY <2>4, <3>1
            <4> QED BY <2>2, <2>6, <4>1
        <3>2. CASE y # p
            <4>1. x # p
                BY <1>2, <2>5, <3>2 DEF IdFree
            <4> QED BY <2>4, <2>5, <3>2, <4>1 DEF JobsInv, Latest
        <3> QED BY <3>1, <3>2
    <2>8. Accepted' = Accepted \cup {p}
        BY <1>0, <2>2, <2>4 DEF Accepted
    <2>9. \A q \in Posts : post'[q].rank <= Cardinality(Accepted')
        <3>1. CASE p \in Accepted
            BY <1>0, <3>1 DEF Accepted
        <3>2. CASE p \notin Accepted
            <4>1. Cardinality(Accepted') = n + 1
                BY <2>2, <2>8, <3>2, FS_AddElement DEF n
            <4>2. ASSUME NEW q \in Posts PROVE post'[q].rank <= n + 1
                <5>1. post'[q].rank \in {post[q].rank, 1 + n}
                    BY <2>4
                <5> QED BY <2>2, <2>6, <5>1
            <4> QED BY <4>1, <4>2
        <3> QED BY <3>1, <3>2
    <2>10. \A q \in Posts : post'[q].st = "new" => post'[q].rank = 0
        BY <2>4 DEF JobsInv
    <2>11. /\ held' \in [Emails \cup Schools -> Ptr(Posts)]
           /\ \A o \in Emails \cup Schools : \A q \in held'[o] : Target(q) = o
        BY <1>0 DEF JobsInv
    <2> QED BY <2>4, <2>5, <2>7, <2>9, <2>10, <2>11 DEF JobsInv, Target
<1> QED BY <1>1, <1>2

\* A step of a job, or of an abandoned request, is of this job.
Moves(p) == EnqueueFails(p) \/ RunTask(p) \/ TaskStep(p) \/ GiveBack(p) \/ Deliver(p)

(* The steps of the worker, the archive and an abandoned request.            *)
LEMMA MovesKeep ==
    ASSUME JobsInv, NEW p \in Posts, Moves(p)
    PROVE  JobsInv'
<1>0. /\ post \in [Posts -> PostRow] /\ task \in [Posts -> TaskRow] /\ task[p] \in TaskRow
      /\ Written(p) \/ UNCHANGED held
    BY DEF JobsInv, Moves, EnqueueFails, RunTask, TaskStep, Start, Due, Find, Write, TaskFails,
           GiveBack, Deliver, Abandons
<1>1. ASSUME NEW s \in {"refused", "failed", "accepted", "applied", "dropped", "archived"},
             PostIs(p, s) \/ post' = post,
             NEW t \in {"pending", "find", "write", "retry", "archived"},
             (TaskTo(p, t) /\ task[p].st # "none") \/ task' = task
      PROVE  JobsInv'
    BY <1>0, <1>1, PostMoves, TaskGoesTo, JobMoves
<1>2. ASSUME NEW s \in {"refused", "failed", "accepted", "applied", "dropped", "archived"},
             PostIs(p, s) \/ post' = post,
             NEW row \in TaskRow, task' = [task EXCEPT ![p] = row],
             task[p].st # "none" \/ row.st = "none"
      PROVE  JobsInv'
    BY <1>0, <1>2, PostMoves, TaskMoves, JobMoves
<1>3. CASE EnqueueFails(p)
    BY <1>1, <1>3 DEF EnqueueFails
<1>4. CASE RunTask(p)
    BY <1>1, <1>4 DEF RunTask
<1>5. CASE Start(p) \/ Due(p)
    BY <1>1, <1>5 DEF Start, Due
<1>6. CASE Find(p) \/ Write(p)
    <2>1. ASSUME NEW s \in {"dropped", "applied"}, Settled(p, s) PROVE JobsInv'
        <3>1. NoTask \in TaskRow /\ NoTask.st = "none"
            BY DEF NoTask, TaskRow
        <3>2. PostIs(p, s) /\ task' = [task EXCEPT ![p] = NoTask]
            BY <2>1 DEF Settled
        <3> QED BY <1>2, <3>1, <3>2
    <2>2. CASE task[p].st = "find" /\ TaskTo(p, "write") /\ UNCHANGED post
        BY <1>1, <2>2
    <2> QED BY <1>6, <2>1, <2>2 DEF Find, Write
<1>7. CASE TaskFails(p)
    <2>1. task[p].st # "none"
        BY <1>7 DEF TaskFails, Running
    <2>2. CASE TaskTo(p, "archived") /\ PostIs(p, "archived")
        BY <1>1, <2>1, <2>2
    <2>3. CASE /\ task' = [task EXCEPT ![p] = [st |-> "retry", tries |-> task[p].tries + 1]]
               /\ UNCHANGED post
        <3>1. [st |-> "retry", tries |-> task[p].tries + 1] \in TaskRow
            BY <1>0 DEF TaskRow
        <3> QED BY <1>2, <2>1, <2>3, <3>1
    <2> QED BY <1>7, <2>2, <2>3 DEF TaskFails
<1>8. CASE GiveBack(p)
    <2>1. task[p].st # "none" /\ TaskTo(p, "pending") /\ post' = post
        BY <1>8 DEF GiveBack, Running
    <2> QED BY <1>1, <2>1
<1>9. CASE Deliver(p)
    BY <1>1, <1>9 DEF Deliver
<1> QED BY <1>3, <1>4, <1>5, <1>6, <1>7, <1>8, <1>9 DEF Moves, TaskStep

(* Whatever a call or a job does, the jobs keep their invariant.             *)
LEMMA JobsKeep == JobsInv /\ [JobsNext]_allVars => JobsInv'
<1> SUFFICES ASSUME JobsInv, [JobsNext]_allVars PROVE JobsInv'
    OBVIOUS
<1>1. CASE UNCHANGED jobVars
    BY <1>1 DEF jobVars, JobsInv, Latest, Accepted, Target
<1> QED BY <1>1, PostKeeps, MovesKeep DEF JobsNext, Moves, allVars

(* Every reachable state of the jobs is well typed, and no post of the id of  *)
(* a task was accepted after it.                                             *)
THEOREM JobsInvariant == JobsSpec => []JobsInv
BY JobsInvInit, JobsKeep, PTL DEF JobsSpec

(* For any jobs, schools, retries, redeployments and runs from the archive,   *)
(* what HubSpot is newly given is the newest data accepted of its id, but for *)
(* a request abandoned in the engine: the id of a task lets no other post of *)
(* it in before the task is over.                                           *)
THEOREM SchoolsTheorem == JobsSpec => SchoolsGoForward
<1>1. JobsInv /\ [JobsNext]_allVars =>
        [\A o \in Emails \cup Schools : \A p \in held'[o] \ held[o] :
            Newest(p) \/ p \in stray]_allVars
    <2> SUFFICES ASSUME JobsInv, JobsNext, NEW o \in Emails \cup Schools,
                        NEW p \in held'[o] \ held[o]
                 PROVE  Newest(p) \/ p \in stray
        OBVIOUS
    <2>1. \E x \in Posts : Written(x) /\ (Running(x) \/ x \in stray)
        BY DEF JobsNext, EnqueueTask, EnqueueFails, RunTask, TaskStep, Start, Due, Find, Write,
               TaskFails, GiveBack, Deliver, Abandons, Running, jobVars
    <2>2. PICK x \in Posts : Written(x) /\ (Running(x) \/ x \in stray)
        BY <2>1
    <2>3. p = x
        BY <2>2 DEF Written, JobsInv
    <2>4. CASE Running(x)
        <3>1. task[x].st # "none"
            BY <2>4 DEF Running
        <3> QED BY <2>3, <3>1 DEF JobsInv, Latest, Newest
    <2> QED BY <2>2, <2>3, <2>4
<1> QED BY <1>1, JobsInvariant, PTL DEF JobsSpec, SchoolsGoForward
=============================================================================
