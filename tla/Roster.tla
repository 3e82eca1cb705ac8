------------------------------- MODULE Roster -------------------------------
(***************************************************************************)
(* What users_service promises of its assignments, whatever statements,     *)
(* locks and rollbacks there are in between: a request changes the roster   *)
(* that readers see at one moment, wholly or not at all.  It takes out only *)
(* what it names, and all that had been settled before it came in; who it   *)
(* takes out and who it puts in their place change at once.                *)
(***************************************************************************)
CONSTANTS Calls, Staff, Owners, NoOne,
          Olds     \* names of the assignments there are at first

VARIABLES current,   \* the assignments in force
          order      \* what each call asked for

Kinds == {"asesor", "coordinador"}
NoOrder(state) ==
    [state |-> state, kind |-> "asesor", scope |-> "pair", inserts |-> FALSE,
     source |-> NoOne, target |-> NoOne, before |-> {}]

Init == /\ { r.id : r \in current } = Olds
        /\ \A r, s \in current : r.id = s.id => r = s
        /\ order = [c \in Calls |-> NoOrder("idle")]

Settled == { c \in Calls : order[c].state = "done" }

\* A call that names a school does not know its owner yet.
Come(c) ==
    /\ order[c].state = "idle"
    /\ order'[c] \in [state: {"school", "asked"}, kind: Kinds, scope: {"target", "pair"},
                      inserts: BOOLEAN, source: Staff \cup {NoOne},
                      target: Owners \cup {NoOne}, before: {Settled}]
    /\ order' = [order EXCEPT ![c] = order'[c]]
    /\ UNCHANGED current

Find(c) ==
    /\ order[c].state = "school"
    /\ \E t \in Owners : order' = [order EXCEPT ![c].state = "asked", ![c].target = t]
    /\ UNCHANGED current

\* It fails, or has nothing to do with the roster.
Leave(c) ==
    /\ order[c].state # "done"
    /\ order' = [order EXCEPT ![c] = NoOrder("done")]
    /\ UNCHANGED current

Names(o, r) == /\ r.kind = o.kind /\ r.target = o.target
               /\ o.scope = "target" \/ r.source = o.source

Asked(c) == [id |-> c, kind |-> order[c].kind, source |-> order[c].source,
             target |-> order[c].target]

\* An assignment that another call made meanwhile may stay.
Perform(c) ==
    /\ order[c].state = "asked"
    /\ \E S \in SUBSET { r \in current : Names(order[c], r) } :
         /\ \A r \in current :
              Names(order[c], r) /\ r.id \in Olds \cup order[c].before => r \in S
         /\ current' = (current \ S) \cup (IF order[c].inserts THEN {Asked(c)} ELSE {})
    /\ order' = [order EXCEPT ![c].state = "done"]

Next == \E c \in Calls : Come(c) \/ Find(c) \/ Leave(c) \/ Perform(c)

Spec == Init /\ [][Next]_<<current, order>>
=============================================================================
