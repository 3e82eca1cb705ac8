---------------------------- MODULE Assignments ----------------------------
(***************************************************************************)
(* users_service: who advises and who coordinates which school.            *)
(*                                                                         *)
(* The shared state is the table school, of which the model keeps the owner *)
(* and whether it is active, and the table assignment: its rows point from  *)
(* a person to the owner of a school, and are current while valid_to is     *)
(* NULL.  A call runs one statement per action; a transaction locks the     *)
(* rows it closes and the one it inserts until it ends, readers see what is *)
(* committed, and an UPDATE waits for the locked rows it comes across.      *)
(***************************************************************************)
EXTENDS OfficeCalls

CONSTANTS Schools,
          Owners,   \* who may own a school: its first coordinator
          Staff,    \* who may be assigned to one
          Olds      \* names of the rows there are at first

ASSUME AssignmentsAssumption == Olds \cap Calls = {}

VARIABLES
    owner, active,   \* table school
    rows,            \* table assignment, by the call that inserts the row
    assign           \* the calls

assignmentVars == <<owner, active, rows, assign>>

Kinds == {"asesor", "coordinador"}
RowIds == Olds \cup Calls
Assignment == [state: {"none", "current", "closed"}, kind: Kinds,
               source: Staff \cup {NoOne}, target: Owners \cup {NoOne}]
NoAssignment == [state |-> "none", kind |-> "asesor", source |-> NoOne, target |-> NoOne]

\* `scope`: "target" closes every current row of the target, "pair" those of
\* the source only.  `holds`: the rows it locked.  `seen` is history: the rows
\* in its way when its UPDATE began; `before`: the calls that had ended when it
\* came in.
AssignCall ==
    [pc: {"idle", "school", "begin", "close", "insert", "commit", "done"},
     result: {"none", "ok"}, kind: Kinds, scope: {"target", "pair"},
     inserts: BOOLEAN, source: Staff \cup {NoOne}, target: Owners \cup {NoOne},
     school: Schools \cup {NoOne}, holds: SUBSET RowIds, seen: SUBSET RowIds,
     before: SUBSET Calls]
NoAssign == [pc |-> "idle", result |-> "none", kind |-> "asesor", scope |-> "pair",
             inserts |-> FALSE, source |-> NoOne, target |-> NoOne,
             school |-> NoOne, holds |-> {}, seen |-> {}, before |-> {}]

\* One adviser of an owner at most, as earlier reassignments left it.
AssignmentsInit ==
    /\ owner \in [Schools -> Owners \cup {NoOne}]
    /\ \A s, t \in Schools : s # t /\ owner[s] = owner[t] => owner[s] = NoOne
    /\ active \in [Schools -> BOOLEAN]
    /\ \E old \in [Olds -> [state: {"current"}, kind: Kinds, source: Staff, target: Owners]] :
         rows = [i \in RowIds |-> IF i \in Olds THEN old[i] ELSE NoAssignment]
    /\ \A i, j \in Olds : i # j => rows[i].target # rows[j].target
    /\ assign = [c \in Calls |-> NoAssign]

Held(i, c) == \E d \in Calls \ {c} : i \in assign[d].holds

\* A row as readers see it: one that a transaction closed is current to them
\* still, one that it inserted is not there yet.
IsCurrent(i) == IF \E d \in Calls : i \in assign[d].holds
                THEN rows[i].state = "closed" ELSE rows[i].state = "current"

\* A row that c closes if it comes across it.
InScope(r, c) ==
    /\ r.kind = assign[c].kind /\ r.target = assign[c].target
    /\ assign[c].scope = "target" \/ r.source = assign[c].source

\* ListByAsesor: the schools p owns, advises or coordinates.
Manages(p, s) ==
    \/ owner[s] = p
    \/ owner[s] # NoOne /\ \E i \in RowIds :
         IsCurrent(i) /\ rows[i].source = p /\ rows[i].target = owner[s]

AssignGoes(c, p) == assign' = [assign EXCEPT ![c].pc = p]
\* c ends, and changed nothing.
AssignLeaves(c) == assign' = [assign EXCEPT ![c] = [NoAssign EXCEPT !.pc = "done"]]

(***************************************************************************)
(* Requests                                                                *)
(***************************************************************************)

AssignBegins(c, kind, scope, inserts, p, t, s) ==
    assign' = [assign EXCEPT ![c] =
        [NoAssign EXCEPT !.pc = IF s = NoOne THEN "begin" ELSE "school", !.kind = kind,
                         !.scope = scope, !.inserts = inserts, !.source = p,
                         !.target = t, !.school = s, !.before = EndedIn(assign)]]

\* AssignAsesor, by a superadmin.
AssignAsesor(c) ==
    /\ Comes(c, assign)
    /\ \E s \in Schools, p \in Staff :
         AssignBegins(c, "asesor", "target", TRUE, p, NoOne, s)
    /\ UNCHANGED <<owner, active, rows>>

\* AssignCoordinador and RevokeCoordinador, by a superadmin (NoOne) or one who
\* manages the school, which must then be active.
AssignCoordinador(c) ==
    /\ Comes(c, assign)
    /\ \E s \in Schools, p \in Staff, by \in Owners \cup Staff \cup {NoOne}, inserts \in BOOLEAN :
         /\ by # NoOne => Manages(by, s) /\ active[s]
         /\ AssignBegins(c, "coordinador", "pair", inserts, p, NoOne, s)
    /\ UNCHANGED <<owner, active, rows>>

\* Reassign of users_service itself names the target; without a source it only
\* closes.
Reassign(c) ==
    /\ Comes(c, assign)
    /\ \E k \in Kinds, t \in Owners, p \in Staff \cup {NoOne} :
         AssignBegins(c, k, "target", p # NoOne, p, t, NoOne)
    /\ UNCHANGED <<owner, active, rows>>

\* FindByID of the school: its owner is the target.
FindOwner(c) ==
    /\ assign[c].pc = "school"
    /\ LET o == owner[assign[c].school] IN
       IF o = NoOne THEN AssignLeaves(c)
       ELSE assign' = [assign EXCEPT ![c].pc = "begin", ![c].target = o,
                                    ![c].school = NoOne]
    /\ UNCHANGED <<owner, active, rows>>

\* UpdateSchool: uk_school_user keeps an owner to one school.
UpdateSchool(c) ==
    /\ Comes(c, assign)
    /\ \E s \in Schools :
         \/ /\ active' = [active EXCEPT ![s] = ~ @] /\ UNCHANGED owner
         \/ /\ \E p \in Owners \cup {NoOne} :
                 /\ \A t \in Schools \ {s} : p # NoOne => owner[t] # p
                 /\ owner' = [owner EXCEPT ![s] = p]
            /\ UNCHANGED active
    /\ AssignLeaves(c)
    /\ UNCHANGED rows

(***************************************************************************)
(* The transaction                                                         *)
(***************************************************************************)

CloseBegin(c) ==
    /\ assign[c].pc = "begin"
    /\ assign' = [assign EXCEPT ![c].pc = "close",
                    ![c].seen = { i \in RowIds : rows[i].state # "none" /\ InScope(rows[i], c)
                                                 /\ (rows[i].state = "current" \/ Held(i, c)) }]
    /\ UNCHANGED <<owner, active, rows>>

Closable(c) == { i \in RowIds : /\ rows[i].state = "current" /\ InScope(rows[i], c)
                                /\ ~ Held(i, c) }

\* It closes those it has seen that are still current once they are free, and
\* may come across others inserted since.
CloseAs(c, S, holds, p) ==
    /\ assign[c].pc = "close"
    /\ \A i \in assign[c].seen : ~ Held(i, c)
    /\ assign[c].seen \cap Closable(c) \subseteq S
    /\ rows' = [i \in RowIds |-> IF i \in S THEN [rows[i] EXCEPT !.state = "closed"]
                                 ELSE rows[i]]
    /\ assign' = [assign EXCEPT ![c].holds = holds, ![c].seen = {}, ![c].pc = p]
    /\ UNCHANGED <<owner, active>>
AfterClose(c) == IF assign[c].inserts THEN "insert" ELSE "commit"

\* Variant: the UPDATE and the INSERT are not in a transaction.
CloseAlone(c) == \E S \in SUBSET Closable(c) : CloseAs(c, S, {}, AfterClose(c))

Close(c) == \E S \in SUBSET Closable(c) : CloseAs(c, S, S, AfterClose(c))

Insert(c) ==
    /\ assign[c].pc = "insert"
    /\ rows' = [rows EXCEPT ![c] = [state |-> "current", kind |-> assign[c].kind,
                                    source |-> assign[c].source,
                                    target |-> assign[c].target]]
    /\ assign' = [assign EXCEPT ![c].holds = @ \cup {c}, ![c].pc = "commit"]
    /\ UNCHANGED <<owner, active>>

Commit(c) ==
    /\ assign[c].pc = "commit"
    /\ assign' = [assign EXCEPT ![c].pc = "done", ![c].result = "ok", ![c].holds = {}]
    /\ UNCHANGED <<owner, active, rows>>

\* A statement fails or the pod dies: the transaction is rolled back.
AssignFails(c) ==
    /\ assign[c].pc \notin {"idle", "done"}
    /\ rows' = [i \in RowIds |->
                  IF i \notin assign[c].holds THEN rows[i]
                  ELSE IF i = c THEN NoAssignment
                  ELSE [rows[i] EXCEPT !.state = "current"]]
    /\ AssignLeaves(c)
    /\ UNCHANGED <<owner, active>>

-----------------------------------------------------------------------------
AssignmentsNext == \E c \in Calls :
    \/ AssignAsesor(c) \/ AssignCoordinador(c) \/ Reassign(c) \/ FindOwner(c)
    \/ UpdateSchool(c) \/ CloseBegin(c) \/ Close(c) \/ Insert(c) \/ Commit(c)
    \/ AssignFails(c)

AssignmentsSpec == AssignmentsInit /\ [][AssignmentsNext]_assignmentVars
-----------------------------------------------------------------------------
AssignmentsTypeOK == /\ owner \in [Schools -> Owners \cup {NoOne}]
                     /\ active \in [Schools -> BOOLEAN]
                     /\ rows \in [RowIds -> Assignment]
                     /\ assign \in [Calls -> AssignCall]

Over(c, kind, target) ==
    assign[c].result = "ok" /\ assign[c].kind = kind /\ assign[c].target = target

(* The last word counts: no assignment is current that a call which came in  *)
(* after it was acknowledged has closed, whatever ran next to either.       *)
CurrentIsLatest ==
    \A i \in RowIds : IsCurrent(i) =>
        ~ \E q \in Calls : /\ assign[q].result = "ok" /\ q # i
                           /\ InScope(rows[i], q)
                           /\ i \in Olds \cup assign[q].before

(* A reassignment that fails half-way leaves the adviser there was: who had  *)
(* one has one, unless a call that only closes went well.                   *)
AdviserNotLost ==
    \A i \in Olds : rows[i].state # "none" =>
        \/ \E j \in RowIds : /\ IsCurrent(j) /\ rows[j].kind = rows[i].kind
                             /\ rows[j].target = rows[i].target
        \/ \E q \in Calls : Over(q, rows[i].kind, rows[i].target) /\ ~ assign[q].inserts

\* A row as readers see it, and a call as it was asked for.
Line(i) == [id |-> i, kind |-> rows[i].kind, source |-> rows[i].source,
            target |-> rows[i].target]
Roll == { Line(i) : i \in { j \in RowIds : IsCurrent(j) } }
Order(c) == [state |-> IF assign[c].pc \in {"idle", "school", "done"} THEN assign[c].pc
                       ELSE "asked",
             kind |-> assign[c].kind, scope |-> assign[c].scope,
             inserts |-> assign[c].inserts, source |-> assign[c].source,
             target |-> assign[c].target, before |-> assign[c].before]
Orders == [c \in Calls |-> Order(c)]

(* Closing and inserting are one for those who read, and a request that     *)
(* fails half-way leaves the adviser there was: the table is a Roster. What *)
(* a request replaces is what it names, and all of it that was there before. *)
Board == INSTANCE Roster WITH current <- Roll, order <- Orders

RosterSpec == Board!Spec

(* What the comment of Reassign says, that it closes the current one: an     *)
(* owner has one adviser.  TLC refutes this: two that overlap close nothing *)
(* of each other when there is none yet, and no index stands behind them.   *)
OneAdviser ==
    \A i, j \in RowIds : /\ IsCurrent(i) /\ IsCurrent(j) /\ i # j
                         /\ rows[i].kind = "asesor" /\ rows[j].kind = "asesor"
                         => rows[i].target # rows[j].target
=============================================================================
