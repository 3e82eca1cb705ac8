------------------------------ MODULE SyncJobs ------------------------------
(***************************************************************************)
(* hubspot_service: the jobs (exam results, schools, advisers) that the     *)
(* server puts in asynq's queue and the worker runs, beside the calls of    *)
(* HubspotSync on the same contacts.                                       *)
(*                                                                         *)
(* A task carries the id of its attempt, school or adviser, and asynq       *)
(* refuses an id for as long as a task with it exists, archived or not.  A  *)
(* task that fails is tried again MaxRetry times and then archived, from    *)
(* where an administrator may run it again.  A handler whose context ends   *)
(* leaves its request in the engine, which may still send it: stray.       *)
(***************************************************************************)
EXTENDS HubspotSync

CONSTANTS Schools,
          Tasks,           \* the ids of tasks
          ObjectOf,        \* the contact (of a result) or the object of a school,
                           \* which has its e-mail: two schools may have one
          Posts, TaskOf,   \* the enqueue requests, and the id of each
          MaxRetry,
          MaxRestarts, MaxRuns, MaxRequests  \* bounds of the model

ASSUME TasksAssumption == /\ ObjectOf \in [Tasks -> Emails \cup Schools]
                          /\ TaskOf \in [Posts -> Tasks]
                          /\ IsFiniteSet(Posts)

VARIABLES
    post,      \* the enqueue requests, and what became of them
    task,      \* asynq's tasks, each named by the request that made it
    held,      \* by object, the post whose data HubSpot holds
    stray,     \* the posts an abandoned request of which the engine holds
    restarts, runs

jobVars == <<post, task, held, stray, restarts, runs>>
allVars == <<syncVars, jobVars>>

Post == [st: {"new", "refused", "failed", "accepted", "applied", "dropped",
              "archived"},
         rank: 0..Cardinality(Posts)]    \* of its acceptance

Task == [st: {"none", "pending", "find", "write", "retry", "archived"},
         tries: 0..MaxRetry]

NoTask == [st |-> "none", tries |-> 0]

JobsInit ==
    /\ SyncInit
    /\ post = [p \in Posts |-> [st |-> "new", rank |-> 0]]
    /\ task = [p \in Posts |-> NoTask]
    /\ held = [o \in Emails \cup Schools |-> {}]
    /\ stray = {}
    /\ restarts = 0 /\ runs = 0

\* At most MaxRequests requests of either kind come in.
Incoming == { r \in Syncs : sync[r].pc # "idle" }
            \cup { p \in Posts : post[p].st # "new" }
Room == Cardinality(Incoming) < MaxRequests

Target(p) == ObjectOf[TaskOf[p]]
IsResult(p) == Target(p) \in Emails
Running(p) == task[p].st \in {"find", "write"}
TaskTo(p, s) == task' = [task EXCEPT ![p].st = s]
PostIs(p, s) == post' = [post EXCEPT ![p].st = s]
Settled(p, s) == task' = [task EXCEPT ![p] = NoTask] /\ PostIs(p, s)

(***************************************************************************)
(* The server: Enqueue... and RetryFailed                                  *)
(***************************************************************************)

\* Variant: an archived task does not stand in the way of its id.
IdFreeOverArchived(p) ==
    \A q \in Posts : TaskOf[q] = TaskOf[p] => task[q].st \in {"none", "archived"}

\* asynq.TaskID: no task has the id.
IdFree(p) == \A q \in Posts : TaskOf[q] = TaskOf[p] => task[q].st = "none"

EnqueueTask(p) ==
    /\ post[p].st = "new" /\ Room
    /\ IF IdFree(p)
       THEN /\ post' = [post EXCEPT ![p] =
                  [st |-> "accepted",
                   rank |-> 1 + Cardinality({ q \in Posts : post[q].rank > 0 })]]
            /\ TaskTo(p, "pending")
       ELSE PostIs(p, "refused") /\ UNCHANGED task
    /\ UNCHANGED <<syncVars, held, stray, restarts, runs>>

\* Redis fails, or a lookup of the gateway that comes before the call.
EnqueueFails(p) ==
    /\ post[p].st = "new" /\ Room
    /\ PostIs(p, "failed")
    /\ UNCHANGED <<syncVars, task, held, stray, restarts, runs>>

\* RunTask.  The tries stay counted.
RunTask(p) ==
    /\ task[p].st = "archived" /\ runs < MaxRuns
    /\ runs' = runs + 1
    /\ TaskTo(p, "pending") /\ PostIs(p, "accepted")
    /\ UNCHANGED <<syncVars, held, stray, restarts>>

(***************************************************************************)
(* The worker                                                              *)
(***************************************************************************)

Start(p) ==
    /\ task[p].st = "pending"
    /\ TaskTo(p, "find")
    /\ UNCHANGED <<syncVars, post, held, stray, restarts, runs>>

Due(p) ==
    /\ task[p].st = "retry"
    /\ TaskTo(p, "pending")
    /\ UNCHANGED <<syncVars, post, held, stray, restarts, runs>>

\* handleSyncResult finds the contact by its DNI, and ends well without one;
\* the handlers of schools and advisers create what they do not find.
Find(p) ==
    /\ task[p].st = "find"
    /\ IF IsResult(p) /\ ~contact[Target(p)].byDni
       THEN Settled(p, "dropped") ELSE TaskTo(p, "write") /\ UNCHANGED post
    /\ UNCHANGED <<syncVars, held, stray, restarts, runs>>

Written(p) == held' = [held EXCEPT ![Target(p)] = {p}]

Write(p) ==
    /\ task[p].st = "write"
    /\ Written(p) /\ Settled(p, "applied")
    /\ UNCHANGED <<syncVars, stray, restarts, runs>>

\* What a handler that did not get its answer leaves behind: nothing, data that
\* HubSpot took, or a request that is still to be sent.
Abandons(p) ==
    \/ UNCHANGED <<held, stray>>
    \/ task[p].st = "write" /\ Written(p) /\ UNCHANGED stray
    \/ task[p].st = "write" /\ stray' = stray \cup {p} /\ UNCHANGED held

\* Variant: a try that failed is not counted.
TaskFailsFree(p) ==
    /\ Running(p) /\ Abandons(p)
    /\ TaskTo(p, "retry") /\ UNCHANGED post
    /\ UNCHANGED <<syncVars, restarts, runs>>

\* The handler fails or runs out of time, or the worker dies and asynq's
\* recoverer finds the task whose lease is over.
TaskFails(p) ==
    /\ Running(p) /\ Abandons(p)
    /\ IF task[p].tries < MaxRetry
       THEN /\ task' = [task EXCEPT ![p] = [st |-> "retry",
                                           tries |-> task[p].tries + 1]]
            /\ UNCHANGED post
       ELSE TaskTo(p, "archived") /\ PostIs(p, "archived")
    /\ UNCHANGED <<syncVars, restarts, runs>>

\* The worker shuts down before the handler is done, and gives the task back.
GiveBack(p) ==
    /\ Running(p) /\ restarts < MaxRestarts /\ Abandons(p)
    /\ restarts' = restarts + 1
    /\ TaskTo(p, "pending")
    /\ UNCHANGED <<syncVars, post, runs>>

\* The engine comes to an abandoned request, or ends before.
Deliver(p) ==
    /\ p \in stray /\ stray' = stray \ {p}
    /\ Written(p) \/ UNCHANGED held
    /\ UNCHANGED <<syncVars, post, task, restarts, runs>>

-----------------------------------------------------------------------------
TaskStep(p) == Start(p) \/ Due(p) \/ Find(p) \/ Write(p) \/ TaskFails(p)

JobsNext ==
    \/ \E p \in Posts : \/ EnqueueTask(p) \/ EnqueueFails(p) \/ RunTask(p)
                        \/ TaskStep(p) \/ GiveBack(p) \/ Deliver(p)
    \/ Room /\ \E r \in Syncs : SyncBegin(r) /\ UNCHANGED jobVars
    \/ \E r \in Syncs : SyncStep(r) /\ UNCHANGED jobVars
    \/ \E e \in Emails : Index(e) /\ UNCHANGED jobVars

\* The worker runs what is in the queue, and a handler ends or runs out of time.
JobsSpec == JobsInit /\ [][JobsNext]_allVars /\ \A p \in Posts : WF_allVars(TaskStep(p))
-----------------------------------------------------------------------------
JobsTypeOK ==
    /\ SyncTypeOK
    /\ post \in [Posts -> Post]
    /\ task \in [Posts -> Task]
    /\ held \in [Emails \cup Schools -> Ptr(Posts)]
    /\ stray \subseteq Posts
    /\ restarts \in 0..MaxRestarts /\ runs \in 0..MaxRuns

(* Whatever fails, dies or is redeployed, a job that was accepted is not     *)
(* tried for ever and not forgotten: it is applied, ends for want of a      *)
(* contact, or can be found in the archive.                                *)
JobsSettle ==
    \A p \in Posts : post[p].st = "accepted" ~>
                         post[p].st \in {"applied", "dropped", "archived"}

\* No data of the same id was accepted after p.
Newest(p) == \A q \in Posts : TaskOf[q] = TaskOf[p] => post[q].rank <= post[p].rank

(* The id of a task serializes the data of a school, an adviser or an        *)
(* attempt: once newer data of it was accepted, HubSpot is never given      *)
(* older data of it, though tasks are retried, given back and taken from    *)
(* the archive, but for a request that a handler had abandoned in the       *)
(* engine.  Data of another id is another matter: see ObjectsGoForward.     *)
SchoolsGoForward ==
    [][\A o \in Emails \cup Schools : \A p \in held'[o] \ held[o] :
           Newest(p) \/ p \in stray]_allVars

(* The results of two attempts of one student have two ids, and so has the   *)
(* data of two schools with one e-mail, by which HubSpot has one object for *)
(* both: no run checks this, which TLC refutes without any fault.           *)
ObjectsGoForward ==
    [][\A o \in Emails \cup Schools : \A p \in held[o], q \in held'[o] :
           post[q].rank < post[p].rank => q \in stray]_allVars

(* What the comment of SyncHandler says of results: they are sent, or end in *)
(* the archive.                                                            *)
NothingDropped == \A p \in Posts : post[p].st # "dropped"
=============================================================================
