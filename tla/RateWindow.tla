----------------------------- MODULE RateWindow -----------------------------
(***************************************************************************)
(* What KeyPool lets through in a second, whoever asks and whenever.        *)
(* window is a history variable: it counts what each token was granted in   *)
(* some second, opened at any moment.                                      *)
(***************************************************************************)
EXTENDS KeyPool

VARIABLE window

vars == <<backlog, window>>

Window == [open: BOOLEAN, age: 0..(RPS - 1), granted: [Tokens -> Nat]]

NoWindow == [open |-> FALSE, age |-> 0, granted |-> [k \in Tokens |-> 0]]

Init == PoolInit /\ window = NoWindow

\* Any replica acquires.
Acquire(k) ==
    /\ Grant(k)
    /\ window' = IF window.open
                 THEN [window EXCEPT !.granted =
                         [window.granted EXCEPT ![k] = @ + 1]]
                 ELSE window

Open == ~window.open /\ window' = [NoWindow EXCEPT !.open = TRUE]
        /\ UNCHANGED backlog

Tick ==
    /\ Elapse
    /\ window' = IF window.open /\ window.age < RPS - 1
                 THEN [window EXCEPT !.age = @ + 1] ELSE NoWindow

Next == Open \/ Tick \/ \E k \in Tokens : Acquire(k)

Spec == Init /\ [][Next]_vars
-----------------------------------------------------------------------------
TypeOK == PoolTypeOK /\ window \in Window

(* However many replicas ask, a token is granted fewer than twice its rate  *)
(* in any second: the bucket a burst left full frees RPS - 1 more slots     *)
(* before the second is over.                                              *)
RateBounded == \A k \in Tokens : window.granted[k] <= 2 * RPS - 1

(* What the package comment, the README and the values of the chart say: a  *)
(* token sends RPS requests a second, at most.                             *)
RatePerKey == \A k \in Tokens : window.granted[k] <= RPS
=============================================================================
