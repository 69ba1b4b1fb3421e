------------------------- MODULE MCTelemetryHistory -------------------------
(* Instances of TelemetryHistory for TLC: the descent of ifr-arrival-v1. *)
EXTENDS TelemetryHistory

Library == INSTANCE FlowLibrary

MCDescent == Library!Descent
MCPilotSays == {"request", "garbled", "mayday"}

\* One sim-bridge tick reports one parameter; the session keeps the rest.
MCDescentReading ==
  {[altitude |-> a] : a \in {"low", "near"}} \cup {[speed |-> v] : v \in {"fast", "slow"}}

\* Sessions of the flow under study that may chain.
MCInit == HInit /\ ~session.noChain /\ session.flow # EmergencyFlow
MCSpec == MCInit /\ [][HNext]_hvars
============================================================================
