---------------------------- MODULE OfficeCalls ----------------------------
(***************************************************************************)
(* What the models of the back office of users_service have in common: the  *)
(* calls that are served.  Each is a goroutine of one of the pods, and is   *)
(* any of the operations of its model.                                     *)
(***************************************************************************)
EXTENDS Integers, FiniteSets

CONSTANTS Calls,
          NoOne,        \* no call, no person, no group
          MaxInFlight   \* bound of the models: calls at one time

ASSUME OfficeAssumption == NoOne \notin Calls /\ MaxInFlight \in Nat

\* c has not come in, and there is room for it among the calls of a model.
Comes(c, call) ==
    /\ call[c].pc = "idle"
    /\ Cardinality({ d \in Calls : call[d].pc \notin {"idle", "done"} }) < MaxInFlight

EndedIn(call) == { c \in Calls : call[c].pc = "done" }
=============================================================================
