-------------------------- MODULE MCDecisionEngine --------------------------
(* Instances of DecisionEngine for TLC: the shipped flows, cut down. *)
EXTENDS FlowValidator

Library == INSTANCE FlowLibrary

ASSUME MCSilenceStays == SilenceStays

MCShipped == Library!Shipped
MCSchema == Library!Schema
MCUtterance == Library!Utterances

\* Of the shipped flows: how far the silent walk goes from a state, and the states
\* it goes through from the start.
SilentWalk(f, st) == AdvanceThroughNonPilot(f, st, Flow[f].defaults)
MCRank == [f \in Slug |-> [st \in States(f) |-> Len(SilentWalk(f, st).path)]]
MCOpening ==
  [f \in Slug |-> {Flow[f].start} \cup {e.to : e \in ToSet(SilentWalk(f, Flow[f].start).path)}]

ASSUME MCSturdy == Flow = MCShipped => Sturdy(MCRank, MCOpening)

\* In every flow of the schema there are states that no session should come to.
ASSUME MCUnentered == Flow = MCSchema => \A f \in Slug : States(f) \ Entered[f] # {}

\* One sim-bridge tick reports one parameter here; the session keeps the rest.
MCGroundReading == {[on_ground |-> b] : b \in BOOLEAN}
MCNoReading == {}
============================================================================
