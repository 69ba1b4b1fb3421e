---------------------------- MODULE FlowValidator ----------------------------
(***************************************************************************)
(* app/flow_validator.py: what validate_flow reports of a loaded flow, and *)
(* what its verdict is worth to the engine that runs the flow all the      *)
(* same. (Ambiguous triggers and fields of readbacks are not modelled.)    *)
(***************************************************************************)
EXTENDS DecisionEngine

ASSUME FlowsAreFinite == \A f \in Slug : IsFiniteSet(States(f))

AllTransitions(f, id) == Transitions(State(f, id))

\* Transitions that suspend the flow leave it.
Staying(f, id) == {e \in AllTransitions(f, id) : e.interrupt = None}

\* _reachable_states, in rounds: the states visited, and those of the flow that
\* their transitions lead to.
Visit(f, visited) ==
  visited \cup ({e.to : e \in UNION {Staying(f, id) : id \in visited}} \cap States(f))

ReachableStates(f, start) ==
  LET round[n \in 0..Cardinality(States(f))] ==
        IF n = 0 THEN {start} \cap States(f) ELSE Visit(f, round[n - 1])
  IN  round[Cardinality(States(f))]

\* A slip: the targets of bad_next are not looked up.
MissingTargetsAhead(f) ==
  {id \in States(f) : \E e \in ToSet(State(f, id).ok \o State(f, id).auto) :
                       e.interrupt = None /\ e.to \notin States(f)}

MissingTargets(f) ==
  {id \in States(f) : \E e \in Staying(f, id) : e.to \notin States(f)}

\* The checks that make a flow invalid: start_state, end_states, transitions.
HasErrors(f) ==
  \/ Flow[f].start \notin States(f)
  \/ ~(Flow[f].ends \subseteq States(f))
  \/ MissingTargets(f) # {}

\* The warnings: unreachable states, and controller states with no transitions.
Unreachable(f) == States(f) \ ReachableStates(f, Flow[f].start)

NoTransitions(f) ==
  {id \in States(f) \ Flow[f].ends : State(f, id).role # "pilot" /\ AllTransitions(f, id) = {}}

Report ==
  [f \in Slug |-> [valid         |-> ~HasErrors(f),
                   unreachable   |-> Unreachable(f),
                   noTransitions |-> NoTransitions(f)]]

----------------------------------------------------------------------------
\* Where a session may come to in f: from its start, or from where the transitions
\* of any flow and the MAYDAY intercept enter it.
EveryTransition == UNION {UNION {AllTransitions(f, id) : id \in States(f)} : f \in Slug}

EntryOf(f) ==
  {e.to : e \in {x \in EveryTransition : x.interrupt = f}}
    \cup IF f = EmergencyFlow THEN {EmergencyEntry} ELSE {}

Entered == [f \in Slug |->
  States(f) \cap (ReachableStates(f, Flow[f].start)
                    \cup UNION {ReachableStates(f, e) : e \in EntryOf(f)})]

\* "interrupt_flow: applies to ok_next" (docs/flow-yaml-spec.md): the transitions
\* that silence takes have none. The engine would follow them within the flow, where
\* the validator takes them to leave it.
SilenceStays ==
  \A f \in Slug : \A id \in States(f) :
    /\ \A e \in ToSet(State(f, id).auto) : e.telemetry = None => e.interrupt = None
    /\ State(f, id).readback /\ State(f, id).bad # <<>> => State(f, id).bad[1].interrupt = None

\* "State ... is unreachable from start state": no sequence of requests brings a
\* session there, by utterance, silence, telemetry, chaining, resuming or restart,
\* unless a flow that interrupts enters the suspended one there.
UnreachableIsNeverReached == session.state \in Entered[session.flow]

\* A flow without errors never makes a request fail with 404: the session whose
\* request lost its state was in a flow the validator calls invalid, or tried to
\* interrupt it with a flow or at a state that does not exist.
LostStateWasReported ==
  reply.status = "not_found" =>
    \/ ~Report[session.flow].valid
    \/ reply.edge # None /\ reply.edge.interrupt # None
=============================================================================
