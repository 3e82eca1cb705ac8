----------------------------- MODULE SeatLedger -----------------------------
(***************************************************************************)
(* What keys_service promises about the seats of a key, whatever its        *)
(* handlers do in between: a seat is only handed out below the limit in     *)
(* force, seats are never given back, and a student becomes a holder only   *)
(* while the seats cover the holders.                                      *)
(***************************************************************************)
EXTENDS Integers

CONSTANTS KeyIds, Users,
          Size(_)     \* how many elements a set of students has

VARIABLES cap,      \* limit of each key, 0 for none
          taken,    \* seats handed out
          holders   \* students admitted

Init == /\ cap \in [KeyIds -> Int]
        /\ taken = [k \in KeyIds |-> 0]
        /\ holders = [k \in KeyIds |-> {}]

SetCap(k) == /\ cap' = [cap EXCEPT ![k] = cap'[k]]
             /\ UNCHANGED <<taken, holders>>

TakeSeat(k) == /\ cap[k] = 0 \/ taken[k] < cap[k]
               /\ taken' = [taken EXCEPT ![k] = @ + 1]
               /\ UNCHANGED <<cap, holders>>

Admit(k, u) == /\ Size(holders[k] \cup {u}) <= taken[k]
               /\ holders' = [holders EXCEPT ![k] = @ \cup {u}]
               /\ UNCHANGED <<cap, taken>>

Next == \E k \in KeyIds : \/ SetCap(k) \/ TakeSeat(k)
                          \/ \E u \in Users : Admit(k, u)

Spec == Init /\ [][Next]_<<cap, taken, holders>>
=============================================================================
