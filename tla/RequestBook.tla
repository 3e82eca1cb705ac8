---------------------------- MODULE RequestBook ----------------------------
(***************************************************************************)
(* What hubspot_service's engine promises to those who call it, whatever    *)
(* its channel, its workers and its tokens do in between: a call it took on *)
(* is tried a bounded number of times, and no more once there is a verdict; *)
(* there is one verdict, and it is true; a caller is told that verdict or   *)
(* gives up; and nothing is taken on after the engine was closed.          *)
(***************************************************************************)
EXTENDS Naturals

CONSTANTS Calls,
          Limit     \* how often a call is tried, at most

VARIABLES told,      \* what the caller was told
          verdict,   \* the verdict of each call, a set of at most one
          accepted,  \* the calls taken on
          closed,
          sent,      \* how often each call was tried
          applied    \* the calls HubSpot did

Init == /\ told = [c \in Calls |-> "none"]
        /\ verdict = [c \in Calls |-> {}]
        /\ accepted = {} /\ applied = {}
        /\ closed = FALSE
        /\ sent = [c \in Calls |-> 0]

Accept(c) == /\ told[c] = "none" /\ c \notin accepted /\ ~closed
             /\ accepted' = accepted \cup {c}
             /\ UNCHANGED <<told, verdict, closed, sent, applied>>

Learns(c, r) == /\ told[c] = "none"
                /\ told' = [told EXCEPT ![c] = r]
                /\ UNCHANGED <<verdict, accepted, closed, sent, applied>>

Panic(c) == closed /\ c \notin accepted /\ Learns(c, "panic")

GiveUp(c) == Learns(c, "ctx")

Tell(c) == \E v \in verdict[c] : Learns(c, v)

Close == ~closed /\ closed' = TRUE /\ UNCHANGED <<told, verdict, accepted, sent, applied>>

Pending(c) == c \in accepted /\ verdict[c] = {}

Decide(c, v) == verdict' = [verdict EXCEPT ![c] = {v}]

\* HubSpot does it and says so, refuses it, or fails to answer.
Try(c) == /\ Pending(c) /\ sent[c] < Limit
          /\ sent' = [sent EXCEPT ![c] = @ + 1]
          /\ \/ applied' = applied \cup {c} /\ Decide(c, "ok")
             \/ applied' = applied /\ Decide(c, "refused")
             \/ /\ applied' \in {applied, applied \cup {c}}
                /\ Decide(c, "error") \/ verdict' = verdict
          /\ UNCHANGED <<told, accepted, closed>>

\* The engine gives the call up.
Fail(c) == /\ Pending(c) /\ Decide(c, "error")
           /\ UNCHANGED <<told, accepted, closed, sent, applied>>

Next == \/ Close
        \/ \E c \in Calls : \/ Accept(c) \/ Panic(c) \/ GiveUp(c) \/ Tell(c)
                            \/ Try(c) \/ Fail(c)

Spec == Init /\ [][Next]_<<told, verdict, accepted, closed, sent, applied>>
=============================================================================
