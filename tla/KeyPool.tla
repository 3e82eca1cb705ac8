------------------------------- MODULE KeyPool -------------------------------
(***************************************************************************)
(* hubspot_service: the rate limiter of requestsengine, a GCRA per API      *)
(* token kept in Redis and shared by every replica of the server and of     *)
(* the worker.                                                             *)
(*                                                                         *)
(* Time advances in ticks of 1/RPS second, the emission interval of         *)
(* redis_rate.PerSecond(RPS), whose burst is RPS too.  backlog[k] is how    *)
(* far, in ticks, the theoretical arrival time of token k is ahead of now.  *)
(***************************************************************************)
EXTENDS Integers

CONSTANTS Tokens, RPS

ASSUME RPSAssumption == RPS \in Nat \ {0}

VARIABLE backlog

PoolInit == backlog = [k \in Tokens |-> 0]

\* Variant: a request is let through once more than the burst.
AllowedOnceMore(k) == backlog[k] <= RPS

\* Limiter.Allow answers Allowed > 0.
Allowed(k) == backlog[k] < RPS

\* One evaluation of the limiter's script that lets token k through.
Grant(k) == Allowed(k) /\ backlog' = [backlog EXCEPT ![k] = @ + 1]

Elapse == backlog' = [k \in Tokens |-> IF backlog[k] > 0 THEN backlog[k] - 1 ELSE 0]

PoolTypeOK == backlog \in [Tokens -> 0..RPS]
=============================================================================
