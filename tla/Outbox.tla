-------------------------------- MODULE Outbox --------------------------------
(***************************************************************************)
(* What the outgoing half of the stream promises its callers: envelopes    *)
(* are numbered as they are handed over, leave for the server in that      *)
(* order, each at most once, and some never leave.                         *)
(***************************************************************************)
EXTENDS Integers

CONSTANT MaxEnvs

VARIABLES
    submitted,  \* how many envelopes were handed over
    queued,     \* those the client still holds
    delivered   \* those written to the server

vars == <<submitted, queued, delivered>>

Init == submitted = 0 /\ queued = {} /\ delivered = {}

\* The envelope is taken or refused.
Submit ==
    /\ submitted < MaxEnvs
    /\ submitted' = submitted + 1
    /\ queued' \in {queued, queued \cup {submitted'}}
    /\ UNCHANGED delivered

\* Any of the held envelopes may be given up, together.
Lose ==
    /\ queued' \subseteq queued
    /\ UNCHANGED <<submitted, delivered>>

\* The oldest held envelope leaves, after everything that left before it.
Deliver(k) ==
    /\ k \in queued
    /\ \A j \in queued : k <= j
    /\ \A j \in delivered : j < k
    /\ queued' = queued \ {k}
    /\ delivered' = delivered \cup {k}
    /\ UNCHANGED submitted

Next == Submit \/ Lose \/ \E k \in 1..MaxEnvs : Deliver(k)

Spec == Init /\ [][Next]_vars
=============================================================================
