-------------------------- MODULE GatewayRateLimit --------------------------
(***************************************************************************)
(* gateway: the rate limit of one address in one bucket, a counter in Redis *)
(* that all pods share.  Its key carries the minute, so each minute has a   *)
(* counter of its own; the first request of a minute sets its time to live. *)
(*                                                                         *)
(* A minute has Minute ticks, and a request is shorter than a tick: it is   *)
(* of the minute in which it named its key.  When Redis does not answer, a  *)
(* request is served unchecked, and Redis may lose its counters, which it   *)
(* keeps in memory.  `spell` is history: what was served in some minute     *)
(* opened at any moment, in which Redis lost nothing.                      *)
(***************************************************************************)
EXTENDS Integers

CONSTANTS PerMinute, Minute,
          Ttl,     \* 90 seconds
          MaxUnchecked   \* bound of the model

ASSUME LimitAssumption == /\ PerMinute \in Nat \ {0} /\ Minute \in Nat \ {0}
                          /\ Ttl \in Nat /\ Ttl >= Minute
                          /\ MaxUnchecked \in Nat

VARIABLES
    phase,    \* the ticks of the present minute that are over
    count,    \* the counter of the minute; what is above PerMinute is as one
    left,     \* the ticks it has to live; 0: it was given no time to live
    spell

limitVars == <<phase, count, left, spell>>

\* `crossed`: another minute began since it was opened.  `unchecked`: how many
\* of the requests that were served Redis did not answer for.
Spell == [open: BOOLEAN, crossed: BOOLEAN, age: 0..(Minute - 1),
          served: Nat, unchecked: Nat]
NoSpell == [open |-> FALSE, crossed |-> FALSE, age |-> 0,
            served |-> 0, unchecked |-> 0]

LimitInit == phase = 0 /\ count = 0 /\ left = 0 /\ spell = NoSpell

\* INCR.
Counted == IF count > PerMinute THEN count ELSE count + 1

\* Variant: the request that reaches the limit and the next are served.
ServedOneMore == count <= PerMinute + 1
Served == Counted <= PerMinute

\* A request that Redis counts: the first of a minute sets the time to live,
\* unless Redis refuses it or the pod dies, and one above the limit is answered
\* 429.
Hit ==
    /\ count' = Counted
    /\ IF count = 0 THEN left' \in {0, Ttl} ELSE left' = left
    /\ spell' = IF spell.open /\ Served THEN [spell EXCEPT !.served = @ + 1] ELSE spell
    /\ UNCHANGED phase

\* INCR fails, is not answered in time, or the pod was started without Redis:
\* the request is served.  Redis may have counted it.
HitUnchecked ==
    /\ count' \in {count, Counted}
    /\ IF spell.open
       THEN /\ spell.unchecked < MaxUnchecked
            /\ spell' = [spell EXCEPT !.served = @ + 1, !.unchecked = @ + 1]
       ELSE spell' = spell
    /\ UNCHANGED <<phase, left>>

\* The answer of an INCR is lost, and the client of Redis sends it again.
CountedTwice ==
    /\ count' = Counted
    /\ UNCHANGED <<phase, left, spell>>

\* Redis starts again with what it had saved, or evicts the counter.  Nothing
\* bounds what is served in a spell that sees this, and it is given up.
Forget ==
    /\ count' \in 0..count
    /\ left' \in IF count' = 0 THEN {0} ELSE {0, left}
    /\ spell' = NoSpell
    /\ UNCHANGED phase

OpenSpell ==
    /\ ~ spell.open
    /\ spell' = [NoSpell EXCEPT !.open = TRUE]
    /\ UNCHANGED <<phase, count, left>>

Turns == phase = Minute - 1

\* Time passes: a key dies, or the next minute has a key of its own.
Second ==
    /\ phase' = IF Turns THEN 0 ELSE phase + 1
    /\ IF Turns \/ left = 1 THEN count' = 0 /\ left' = 0
       ELSE count' = count /\ left' = IF left = 0 THEN 0 ELSE left - 1
    /\ spell' = IF spell.open /\ spell.age < Minute - 1
                THEN [spell EXCEPT !.age = @ + 1, !.crossed = @ \/ Turns]
                ELSE NoSpell

LimitNext == Hit \/ HitUnchecked \/ CountedTwice \/ Forget \/ OpenSpell \/ Second

LimitSpec == LimitInit /\ [][LimitNext]_limitVars
-----------------------------------------------------------------------------
LimitTypeOK == /\ phase \in 0..(Minute - 1) /\ count \in 0..(PerMinute + 1)
               /\ left \in 0..Ttl /\ spell \in Spell

(* Whenever a minute is opened in which Redis loses no counter, an address is *)
(* served at most twice its limit in it, and the requests for which Redis    *)
(* did not answer: the counter of a minute never dies before the minute,    *)
(* whether or not it was given its time to live, and no sixty seconds touch  *)
(* three of them.                                                          *)
MinuteBounded == spell.served <= 2 * PerMinute + spell.unchecked

(* What the comment of RateLimit says, a sliding window: PerMinute in any    *)
(* minute.  TLC refutes this: the window is the minute of the clock.        *)
SlidingBounded == spell.served <= PerMinute + spell.unchecked
=============================================================================
