------------------------ MODULE MCOverlappingRequests ------------------------
(* Instances of OverlappingRequests for TLC: the shipped flows, cut down. *)
EXTENDS OverlappingRequests

Library == INSTANCE FlowLibrary

\* Each under a LET, which keeps TLC's statistics of coverage from unfolding the
\* flows wherever they are used.
MCShipped == LET flows == Library!Shipped IN flows
MCWaits == LET flows == Library!Waits IN flows
MCUtterance == Library!Utterances

\* What the theorems about overlapping requests suppose of the flows.
ASSUME InterruptsNothing

MCAirborneReading == {[on_ground |-> FALSE]}
==============================================================================
