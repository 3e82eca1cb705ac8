--------------------------- MODULE RequestsEngine ---------------------------
(***************************************************************************)
(* hubspot_service: the client of HubSpot's API, one engine per process.    *)
(* Do puts a task on a bounded channel and waits for its answer or for its  *)
(* context; workers take tasks, ask KeyPool for a token, send and retry;    *)
(* Close closes the channel and waits for the workers.                     *)
(*                                                                         *)
(* An idle call of Do may be made after Close: the server's forced stop     *)
(* leaves handlers running.  A context may expire at any moment.  Sleeps    *)
(* between attempts only delay, and are left out; sent and applied count    *)
(* what left for HubSpot and what HubSpot did, which no code keeps.         *)
(***************************************************************************)
EXTENDS KeyPool, Sequences, FiniteSets

CONSTANTS Calls,         \* the calls of Do
          Workers,       \* the engine's goroutines
          QueueSize, MaxRetries,
          MaxOthers,     \* slots the other replicas take, at most
          NoCall

ASSUME SizesAssumption == /\ QueueSize \in Nat \ {0} /\ MaxRetries \in Nat \ {0}
                          /\ MaxOthers \in Nat
ASSUME NoCallAssumption == NoCall \notin Calls

VARIABLES
    call,      \* where each Do is, and what it returned
    tasks,     \* the channel
    closed,    \* Close closed it
    worker,
    respC,     \* the buffer of one answer each task carries
    sent, applied,
    others     \* slots taken by the other replicas

vars == <<call, tasks, closed, worker, respC, sent, applied, others,
          backlog>>

\* StatusCode 2xx, another 4xx, or Err: not built or retries exhausted.
Answers == {"ok", "refused", "error"}

Call == [pc: {"idle", "wait", "done"},
         result: Answers \cup {"none", "ctx", "panic"}]

Worker == [pc: {"idle", "acquire", "send", "answer", "exited"},
           task: Calls \cup {NoCall}, attempt: 0..MaxRetries,
           answer: Answers \cup {"none"}]

Idle == [pc |-> "idle", task |-> NoCall, attempt |-> 0, answer |-> "none"]

Init ==
    /\ PoolInit
    /\ call = [c \in Calls |-> [pc |-> "idle", result |-> "none"]]
    /\ tasks = <<>>
    /\ closed = FALSE
    /\ worker = [w \in Workers |-> Idle]
    /\ respC = [c \in Calls |-> "none"]
    /\ sent = [c \in Calls |-> 0]
    /\ applied = {}
    /\ others = 0

(***************************************************************************)
(* Do                                                                      *)
(***************************************************************************)

Returns(c, r) == call' = [call EXCEPT ![c] = [pc |-> "done", result |-> r]]

Enqueue(c) ==
    /\ call[c].pc = "idle"
    /\ ~closed
    /\ Len(tasks) < QueueSize
    /\ tasks' = Append(tasks, c)
    /\ call' = [call EXCEPT ![c].pc = "wait"]
    /\ UNCHANGED <<closed, worker, respC, sent, applied, others, backlog>>

\* A send on a closed channel, waiting or not; the handler's goroutine
\* recovers.
EnqueueClosed(c) ==
    /\ call[c].pc = "idle"
    /\ closed
    /\ Returns(c, "panic")
    /\ UNCHANGED <<tasks, closed, worker, respC, sent, applied, others,
                   backlog>>

Receive(c) ==
    /\ call[c].pc = "wait"
    /\ respC[c] # "none"
    /\ Returns(c, respC[c])
    /\ UNCHANGED <<tasks, closed, worker, respC, sent, applied, others,
                   backlog>>

\* ctx.Done, before the task was queued or after.
Expire(c) ==
    /\ call[c].pc \in {"idle", "wait"}
    /\ Returns(c, "ctx")
    /\ UNCHANGED <<tasks, closed, worker, respC, sent, applied, others,
                   backlog>>

Close ==
    /\ ~closed
    /\ closed' = TRUE
    /\ UNCHANGED <<call, tasks, worker, respC, sent, applied, others,
                   backlog>>

(***************************************************************************)
(* The workers                                                             *)
(***************************************************************************)

Take(w) ==
    /\ worker[w].pc = "idle"
    /\ tasks # <<>>
    /\ worker' = [worker EXCEPT ![w] = [Idle EXCEPT !.pc = "acquire",
                                                    !.task = Head(tasks)]]
    /\ tasks' = Tail(tasks)
    /\ UNCHANGED <<call, closed, respC, sent, applied, others, backlog>>

\* Variant: a worker leaves as soon as the engine is closed.
ExitAtOnce(w) ==
    /\ worker[w].pc = "idle"
    /\ closed
    /\ worker' = [worker EXCEPT ![w].pc = "exited"]
    /\ UNCHANGED <<call, tasks, closed, respC, sent, applied, others,
                   backlog>>

\* A closed channel is drained before the range over it ends.
Exit(w) ==
    /\ worker[w].pc = "idle"
    /\ closed
    /\ tasks = <<>>
    /\ worker' = [worker EXCEPT ![w].pc = "exited"]
    /\ UNCHANGED <<call, tasks, closed, respC, sent, applied, others,
                   backlog>>

AnswerWith(w, a) ==
    worker' = [worker EXCEPT ![w].pc = "answer", ![w].answer = a]

Retry(w) ==
    IF worker[w].attempt < MaxRetries
    THEN worker' = [worker EXCEPT ![w].pc = "acquire", ![w].attempt = @ + 1]
    ELSE AnswerWith(w, "error")

\* Acquire finds a token with room, or waits for one.
Acquire(w) ==
    /\ worker[w].pc = "acquire"
    /\ \E k \in Tokens : Grant(k)
    /\ worker' = [worker EXCEPT ![w].pc = "send"]
    /\ UNCHANGED <<call, tasks, closed, respC, sent, applied, others>>

\* Redis does not answer: an attempt is spent.
AcquireFails(w) ==
    /\ worker[w].pc = "acquire"
    /\ Retry(w)
    /\ UNCHANGED <<call, tasks, closed, respC, sent, applied, others,
                   backlog>>

\* buildRequest refuses the task: no retry.
BuildFails(w) ==
    /\ worker[w].pc = "send"
    /\ AnswerWith(w, "error")
    /\ UNCHANGED <<call, tasks, closed, respC, sent, applied, others,
                   backlog>>

\* Variant: an answer 5xx is taken for success.
SendAnyIsOk(w) ==
    /\ worker[w].pc = "send"
    /\ sent' = [sent EXCEPT ![worker[w].task] = @ + 1]
    /\ applied' \in {applied, applied \cup {worker[w].task}}
    /\ AnswerWith(w, "ok")
    /\ UNCHANGED <<call, tasks, closed, respC, others, backlog>>

\* Variant: the caller is told of every attempt that failed.
SendTellsEach(w) ==
    /\ worker[w].pc = "send"
    /\ sent' = [sent EXCEPT ![worker[w].task] = @ + 1]
    /\ \/ /\ applied' = applied \cup {worker[w].task}
          /\ AnswerWith(w, "ok")
          /\ UNCHANGED respC
       \/ /\ Retry(w)
          /\ respC' = [respC EXCEPT ![worker[w].task] = "error"]
          /\ UNCHANGED applied
    /\ UNCHANGED <<call, tasks, closed, others, backlog>>

\* client.Do: HubSpot does what is asked and says so; refuses it; or fails,
\* is busy, or its answer is lost, whether it did it or not.
Send(w) ==
    /\ worker[w].pc = "send"
    /\ sent' = [sent EXCEPT ![worker[w].task] = @ + 1]
    /\ \/ /\ applied' = applied \cup {worker[w].task}
          /\ AnswerWith(w, "ok")
       \/ AnswerWith(w, "refused") /\ UNCHANGED applied
       \/ /\ applied' \in {applied, applied \cup {worker[w].task}}
          /\ Retry(w)
    /\ UNCHANGED <<call, tasks, closed, respC, others, backlog>>

\* Variant: the answer is handed over, not buffered.
AnswerUnbuffered(w) ==
    LET c == worker[w].task IN
    /\ worker[w].pc = "answer"
    /\ call[c].pc = "wait"
    /\ respC' = [respC EXCEPT ![c] = worker[w].answer]
    /\ worker' = [worker EXCEPT ![w] = Idle]
    /\ UNCHANGED <<call, tasks, closed, sent, applied, others, backlog>>

\* The buffer has room whoever still waits.
Answer(w) ==
    /\ worker[w].pc = "answer"
    /\ respC' = [respC EXCEPT ![worker[w].task] = worker[w].answer]
    /\ worker' = [worker EXCEPT ![w] = Idle]
    /\ UNCHANGED <<call, tasks, closed, sent, applied, others, backlog>>

(***************************************************************************)
(* The pool, as the other replicas and time move it                        *)
(***************************************************************************)

OtherGrant ==
    /\ others < MaxOthers
    /\ others' = others + 1
    /\ \E k \in Tokens : Grant(k)
    /\ UNCHANGED <<call, tasks, closed, worker, respC, sent, applied>>

Tick ==
    /\ \E k \in Tokens : backlog[k] > 0
    /\ Elapse
    /\ UNCHANGED <<call, tasks, closed, worker, respC, sent, applied, others>>
-----------------------------------------------------------------------------
WorkerStep(w) == \/ Take(w) \/ Exit(w) \/ Acquire(w) \/ AcquireFails(w)
                 \/ BuildFails(w) \/ Send(w) \/ Answer(w)

Next ==
    \/ \E c \in Calls : Enqueue(c) \/ EnqueueClosed(c) \/ Receive(c) \/ Expire(c)
    \/ \E w \in Workers : WorkerStep(w)
    \/ Close \/ OtherGrant \/ Tick

(* A goroutine that can go on does, HubSpot's answers are bounded by the    *)
(* client's timeout, and time passes.  Nobody has to call Do or Close, and  *)
(* no context has to expire.                                               *)
Fairness ==
    /\ \A w \in Workers : WF_vars(WorkerStep(w))
    /\ \A c \in Calls : WF_vars(Receive(c))
    /\ WF_vars(Tick)

Spec == Init /\ [][Next]_vars /\ Fairness
-----------------------------------------------------------------------------
(***************************************************************************)
(* Properties                                                              *)
(***************************************************************************)

TypeOK == /\ call \in [Calls -> Call]
          /\ tasks \in Seq(Calls)
          /\ closed \in BOOLEAN
          /\ worker \in [Workers -> Worker]
          /\ respC \in [Calls -> Answers \cup {"none"}]
          /\ sent \in [Calls -> Nat]
          /\ applied \subseteq Calls
          /\ others \in 0..MaxOthers
          /\ PoolTypeOK

Queued(c) == \E i \in DOMAIN tasks : tasks[i] = c
Holds(w, c) == worker[w].task = c
Held(c) == \E w \in Workers : Holds(w, c)

(* Between the channel, the workers and the buffers a task is in one place: *)
(* none is processed twice, none is lost while its caller waits, and every  *)
(* answer is the answer of its own task.                                   *)
InOnePlace ==
    /\ Len(tasks) <= QueueSize
    /\ \A i, j \in DOMAIN tasks : tasks[i] = tasks[j] => i = j
    /\ \A c \in Calls :
         /\ \A v, w \in Workers : Holds(v, c) /\ Holds(w, c) => v = w
         /\ Queued(c) => ~Held(c)
         /\ Queued(c) \/ Held(c) => respC[c] = "none"
         /\ call[c].pc = "wait" => Queued(c) \/ Held(c) \/ respC[c] # "none"

(* What a caller is told of HubSpot is so: an "ok" was done, at least once; *)
(* a panic, and a context that expired before the task was queued, were     *)
(* never sent; and nothing is sent more than MaxRetries + 1 times, however  *)
(* attempts without a token or without an answer mix.                      *)
OutcomeTrue ==
    \A c \in Calls :
        /\ call[c].result = "ok" => c \in applied
        /\ call[c].result = "panic" => sent[c] = 0
        /\ sent[c] <= MaxRetries + 1

(* Whatever order the channel, the workers, the tokens and Close run in, the *)
(* engine is a RequestBook: no call is sent once there is a verdict, which   *)
(* is one and true, nor is one taken on after Close.                        *)
Verdict(c) == { v \in Answers :
                  \/ respC[c] = v
                  \/ \E w \in Workers : /\ Holds(w, c) /\ worker[w].pc = "answer"
                                        /\ worker[w].answer = v }
Told == [c \in Calls |-> call[c].result]
Verdicts == [c \in Calls |-> Verdict(c)]
TakenOn == { c \in Calls : Queued(c) \/ Held(c) \/ respC[c] # "none" }

Book == INSTANCE RequestBook WITH
            Limit <- MaxRetries + 1, told <- Told, verdict <- Verdicts, accepted <- TakenOn

BookSpec == Book!Spec

(* Every accepted task is answered, by the time its turn comes: a caller    *)
(* that waits is served even if its context never expires and Close is      *)
(* called meanwhile.                                                       *)
AcceptedIsServed == \A c \in Calls : call[c].pc = "wait" ~> call[c].pc = "done"

(* Close returns: the workers drain the channel and leave, whoever of the   *)
(* callers gave up waiting for their answers.                              *)
CloseReturns == closed ~> \A w \in Workers : worker[w].pc = "exited"

(* What the comment of Do says: when the context expires the worker cancels *)
(* the request, so a task given up is not sent any more.                   *)
AbandonedNotSent ==
    [][\A c \in Calls : call[c].result = "ctx" => sent'[c] = sent[c]]_vars
=============================================================================
