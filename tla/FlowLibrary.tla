---------------------------- MODULE FlowLibrary ----------------------------
(***************************************************************************)
(* Flow definitions in the form FlowGraph expects, for the model checker.  *)
(* Shipped is a cut-down departure: tower-v1 chaining to departure-v1, the *)
(* rejected take-off of rto-v1, and emergency-v1; Descent has the start of *)
(* ifr-arrival-v1. Where an exchange is left out what surrounds it is      *)
(* joined; what is kept is what the files say.                             *)
(* Schema holds flows nobody ships but the schema and the loader accept:   *)
(* guards, nested interrupts, non-pilot start states, cycles, states that  *)
(* nothing leads to.                                                       *)
(***************************************************************************)
EXTENDS Integers, Sequences, FiniteSets, TLC

CONSTANT None

Utterances == {"request", "garbled", "mayday", "cancel", "greeting"}

\* The regex ".*".
Anything == Utterances

----------------------------------------------------------------------------
\* Constructors: the pydantic defaults of Transition and DecisionState.

Edge(to, trigger) ==
  [to |-> to, trigger |-> trigger, guard |-> None, telemetry |-> None,
   emergency |-> FALSE, interrupt |-> None, exit |-> <<>>, enter |-> <<>>]

Auto(to) == Edge(to, {})
AutoSet(to, flag) == [Auto(to) EXCEPT !.enter = (flag :> TRUE)]
Guarded(e, flag) ==
  [e EXCEPT !.guard = [type |-> "flag_check", name |-> flag, variable |-> None]]
\* The same guard in the form docs/flow-yaml-spec.md gives it.
Labelled(e, label, flag) ==
  [e EXCEPT !.guard = [type |-> "flag_check", name |-> label, variable |-> flag]]
Gated(to, parameter, accepts, forMs, once) ==
  [Auto(to) EXCEPT !.telemetry = [parameter |-> parameter, accepts |-> accepts,
                                  forMs |-> forMs, once |-> once]]

Plain(role, ok, bad, auto) ==
  [role |-> role, ok |-> ok, bad |-> bad, auto |-> auto,
   readback |-> FALSE, graded |-> FALSE, silence |-> FALSE, greeting |-> FALSE]

Pilot(ok, bad) == Plain("pilot", ok, bad, <<>>)
Contact(ok, bad) == [Pilot(ok, bad) EXCEPT !.greeting = TRUE]
Readback(ok, bad) == [Pilot(ok, bad) EXCEPT !.readback = TRUE, !.graded = TRUE]
Await(ok, bad, auto) == [Plain("pilot", ok, bad, auto) EXCEPT !.silence = TRUE]
Atc(auto) == Plain("atc", <<>>, <<>>, auto)
End == Plain("system", <<>>, <<>>, <<>>)

----------------------------------------------------------------------------
\* emergency-v1: two exchanges, then the interrupted flow resumes.
Emergency ==
  [start |-> "MAYDAY_DECLARED", ends |-> {"EMERGENCY_COMPLETE"}, next |-> None,
   defaults |-> [emergency_handled |-> FALSE],
   states |->
     [MAYDAY_DECLARED        |-> Atc(<<Auto("PILOT_STATES_EMERGENCY")>>),
      PILOT_STATES_EMERGENCY |-> Pilot(<<Edge("ATC_EMERGENCY_RESPONSE", Anything)>>, <<>>),
      ATC_EMERGENCY_RESPONSE |-> Atc(<<AutoSet("PILOT_INTENTIONS", "emergency_handled")>>),
      PILOT_INTENTIONS       |-> Pilot(<<Edge("EMERGENCY_COMPLETE", Anything)>>, <<>>),
      EMERGENCY_COMPLETE     |-> End]]

\* A state that a controller sends back to after asking again.
Repeat(prompt, state) == prompt :> Atc(<<Auto(state)>>)

\* A readback of any form, corrected until it is right.
ReadBack(state, confirm, correct) ==
  (state :> Readback(<<Edge(confirm, Anything)>>, <<Auto(correct)>>)) @@ Repeat(correct, state)

\* Of tower-v1 and rto-v1 alike: first call and take-off clearance. (The line-up
\* clearance between them, an exchange of the same kind, is left out.)
TakeoffClearance(then) ==
  ("INITIAL_CONTACT" :>
     Contact(<<Edge("ATC_TAKEOFF_CLEARANCE", {"request"})>>,
             <<Auto("ATC_INITIAL_CONTACT_INCORRECT")>>))
  @@ Repeat("ATC_INITIAL_CONTACT_INCORRECT", "INITIAL_CONTACT")
  @@ ("ATC_TAKEOFF_CLEARANCE" :>
        Atc(<<AutoSet("PILOT_TAKEOFF_READBACK", "takeoff_clearance_issued")>>))
  @@ ReadBack("PILOT_TAKEOFF_READBACK", then, "ATC_TAKEOFF_READBACK_INCORRECT")

\* From the take-off roll, which telemetry, a phrase or silence ends, to the end.
AirborneStates ==
  [PILOT_AWAIT_AIRBORNE |->
     Await(<<Edge("ATC_AIRBORNE_HANDOFF", {"request"})>>,
           <<Auto("ATC_AWAIT_AIRBORNE_ROGER")>>,
           <<Gated("ATC_AIRBORNE_HANDOFF", "on_ground", {FALSE}, 1, TRUE),
             Auto("ATC_AIRBORNE_HANDOFF")>>),
   ATC_AIRBORNE_HANDOFF  |-> Atc(<<AutoSet("PILOT_HANDOFF_READBACK", "airborne")>>),
   ATC_HANDOFF_CONFIRMED |-> Atc(<<Auto("TOWER_COMPLETE")>>),
   TOWER_COMPLETE        |-> End]
  @@ Repeat("ATC_AWAIT_AIRBORNE_ROGER", "PILOT_AWAIT_AIRBORNE")
  @@ ReadBack("PILOT_HANDOFF_READBACK", "ATC_HANDOFF_CONFIRMED",
              "ATC_HANDOFF_READBACK_INCORRECT")

Tower ==
  [start |-> "INITIAL_CONTACT", ends |-> {"TOWER_COMPLETE"}, next |-> "departure-v1",
   defaults |-> [takeoff_clearance_issued |-> FALSE, airborne |-> FALSE],
   states |-> TakeoffClearance("PILOT_AWAIT_AIRBORNE") @@ AirborneStates]

\* The cancelled take-off: the pilot's call is not a readback, so the router may be
\* asked in a state from which only controllers lie before the end.
StopStates ==
  [ATC_CANCEL_TAKEOFF |-> Atc(<<AutoSet("PILOT_RTO_ACK", "takeoff_cancelled")>>),
   PILOT_RTO_ACK      |-> Pilot(<<Edge("ATC_RTO_CONFIRM", {"request"})>>,
                                <<Auto("ATC_RTO_REPROMPT")>>),
   ATC_RTO_CONFIRM    |-> Atc(<<Auto("RTO_COMPLETE")>>),
   RTO_COMPLETE       |-> End]
  @@ Repeat("ATC_RTO_REPROMPT", "PILOT_RTO_ACK")

Rto ==
  [start |-> "INITIAL_CONTACT", ends |-> {"RTO_COMPLETE"}, next |-> None,
   defaults |-> [takeoff_clearance_issued |-> FALSE, takeoff_cancelled |-> FALSE],
   states |-> TakeoffClearance("ATC_CANCEL_TAKEOFF") @@ StopStates]

\* departure-v1 from its climb wait state on, with the level-bust callout that loops
\* back to it, and the readback of the handoff frequency.
Departure ==
  [start |-> "PILOT_AWAIT_CLIMB", ends |-> {"DEPARTURE_COMPLETE"}, next |-> None,
   defaults |-> <<>>,
   states |->
     [PILOT_AWAIT_CLIMB |->
        Await(<<Edge("ATC_CENTER_HANDOFF", {"request"})>>,
              <<Auto("ATC_AWAIT_CLIMB_ROGER")>>,
              <<Gated("ATC_CENTER_HANDOFF", "altitude", {"near", "bust"}, 1, TRUE),
                Gated("ATC_LEVEL_BUST", "altitude", {"bust"}, 2, TRUE),
                Auto("ATC_CENTER_HANDOFF")>>),
      ATC_CENTER_HANDOFF           |-> Atc(<<Auto("PILOT_CENTER_FREQ_READBACK")>>),
      ATC_CENTER_HANDOFF_CONFIRMED |-> Atc(<<Auto("DEPARTURE_COMPLETE")>>),
      DEPARTURE_COMPLETE           |-> End]
     @@ Repeat("ATC_AWAIT_CLIMB_ROGER", "PILOT_AWAIT_CLIMB")
     @@ Repeat("ATC_LEVEL_BUST", "PILOT_AWAIT_CLIMB")
     @@ ReadBack("PILOT_CENTER_FREQ_READBACK", "ATC_CENTER_HANDOFF_CONFIRMED",
                 "ATC_CENTER_FREQ_READBACK_INCORRECT")]

\* ifr-arrival-v1: its descent wait state, with the speed callout that loops back
\* to it, and the vector that ends it. (The second wait state, the ILS clearance and
\* the handoff after it are left out, and the flow it chains to is not loaded.) Held
\* times are in units of 6 seconds, rounded up: 3 s, 8 s, 12 s.
Arrival ==
  [start |-> "PILOT_AWAIT_DESCENT", ends |-> {"APPROACH_COMPLETE"},
   next |-> "ifr-tower-landing-v1", defaults |-> <<>>,
   states |->
     [PILOT_AWAIT_DESCENT |->
        Await(<<Edge("ATC_INTERMEDIATE_VECTOR", {"request"})>>,
              <<Auto("ATC_AWAIT_DESCENT_ROGER")>>,
              <<Gated("ATC_INTERMEDIATE_VECTOR", "altitude", {"low"}, 1, TRUE),
                Gated("ATC_SPEED_CHECK_INITIAL", "speed", {"fast"}, 2, TRUE),
                Auto("ATC_INTERMEDIATE_VECTOR")>>),
      ATC_INTERMEDIATE_VECTOR |-> Atc(<<Auto("PILOT_VECTOR_READBACK")>>),
      APPROACH_COMPLETE       |-> End]
     @@ Repeat("ATC_AWAIT_DESCENT_ROGER", "PILOT_AWAIT_DESCENT")
     @@ Repeat("ATC_SPEED_CHECK_INITIAL", "PILOT_AWAIT_DESCENT")
     @@ ReadBack("PILOT_VECTOR_READBACK", "APPROACH_COMPLETE", "ATC_VECTOR_READBACK_INCORRECT")]

Descent == ("ifr-arrival-v1" :> Arrival)
             @@ ("emergency-v1" :> Emergency)

Shipped == ("tower-v1" :> Tower) @@ ("departure-v1" :> Departure) @@ ("rto-v1" :> Rto)
             @@ ("emergency-v1" :> Emergency)

\* The same from the take-off on: the states in which a transmission may be garbled,
\* with what follows them.
Waits ==
  [Shipped EXCEPT
     !["tower-v1"].start = "PILOT_AWAIT_AIRBORNE", !["tower-v1"].states = AirborneStates,
     !["rto-v1"].start = "ATC_CANCEL_TAKEOFF",     !["rto-v1"].states = StopStates]

----------------------------------------------------------------------------
\* Flows the schema and the loader accept although nobody ships them.

Emergent(e) == [e EXCEPT !.emergency = TRUE]
Interrupting(e, f) == [e EXCEPT !.interrupt = f]

\* A desk that hands over to the relay; a controller state of it spins once the
\* flag "spin" is set, and one transition leads to a state that does not exist.
\* Nothing in it leads to ENTER, which its transitions enter in the annex.
Desk ==
  [start |-> "GREET", ends |-> {"DESK_DONE"}, next |-> "relay-v1",
   defaults |-> [spin |-> FALSE, cleared |-> FALSE, greeted |-> FALSE],
   states |->
     [GREET |-> Atc(<<Guarded(Auto("SPIN"), "spin"), AutoSet("ASK", "greeted")>>),
      ASK |->
        [Readback(<<Interrupting(Edge("ENTER", {"request"}), "annex-v1"),
                    Guarded(Edge("WAIT", {"greeting"}), "cleared"),
                    Labelled(Edge("DESK_DONE", {"cancel"}), "is_cleared", "cleared"),
                    Emergent(Guarded(Edge("GREET", {"garbled"}), "cleared"))>>,
                  <<Guarded(Auto("NOWHERE"), "cleared"),
                    AutoSet("CLEAR", "cleared")>>)
           EXCEPT !.greeting = TRUE],
      CLEAR |->
        [Atc(<<Guarded(AutoSet("SPIN", "spin"), "spin"),
               AutoSet("GREET", "spin")>>)
           EXCEPT !.ok = <<Edge("DESK_DONE", {"request"})>>],
      SPIN |-> Atc(<<Auto("TURN")>>),
      TURN |-> Atc(<<Auto("SPIN")>>),
      WAIT |->
        Await(<<Edge("DESK_DONE", {"request"})>>, <<Auto("NOWHERE")>>,
              <<Gated("ASK", "on_ground", {TRUE}, 1, FALSE),
                Interrupting(Gated("ENTER", "on_ground", {FALSE}, 0, TRUE), "annex-v1"),
                Auto("DESK_DONE")>>),
      ENTER |-> Atc(<<Auto("COUNTER")>>),
      COUNTER |-> Pilot(<<Edge("ASK", {"request"})>>, <<Auto("WAIT")>>),
      DESK_DONE |-> End]]

\* An annex that can be suspended by itself and by the desk, ends by itself on
\* the way in when it is entered at HALL, and chains to a flow nobody loaded. Where
\* the desk has its busiest states the annex has others, which nothing leads to.
Annex ==
  [start |-> "HALL", ends |-> {"ANNEX_DONE"}, next |-> "unloaded-v1",
   defaults |-> [door |-> TRUE],
   states |->
     [HALL |-> Atc(<<Guarded(Auto("ANNEX_DONE"), "door")>>),
      ENTER |-> Atc(<<Auto("INSIDE")>>),
      INSIDE |->
        Pilot(<<Interrupting(Edge("ENTER", {"request"}), "annex-v1"),
                Interrupting(Edge("CLEAR", {"greeting"}), "desk-v1"),
                Interrupting(Edge("ENTER", {"mayday"}), "unloaded-v1"),
                Edge("HALL", {"garbled"}), Edge("ENTER", {"garbled"}),
                [Edge("ANNEX_DONE", {"cancel"}) EXCEPT !.exit = [door |-> FALSE]]>>,
              <<>>),
      GREET |-> Atc(<<Auto("ASK")>>),
      ASK |-> Pilot(<<Edge("INSIDE", Anything)>>, <<>>),
      ANNEX_DONE |-> End]]

\* A relay whose start walks straight into its own end, past a state of the annex.
Relay ==
  [start |-> "PASS_ON", ends |-> {"RELAY_DONE"}, next |-> "annex-v1", defaults |-> <<>>,
   states |-> [PASS_ON |-> Atc(<<Auto("RELAY_DONE")>>), RELAY_DONE |-> End,
               HALL |-> Pilot(<<Edge("PASS_ON", {"request"})>>, <<>>)]]

Schema == ("desk-v1" :> Desk) @@ ("annex-v1" :> Annex) @@ ("relay-v1" :> Relay)
============================================================================
