-------------------------- MODULE FlowOrchestrator --------------------------
(***************************************************************************)
(* flow_orchestrator.py: which flow a session is in. A session is a record *)
(* with (at least) the fields                                              *)
(*   flow, state            active_flow, current_state                     *)
(*   flowStack, stateStack  the suspended flows, the last one on top       *)
(*   env                    variables and flags                            *)
(*   noChain                no_chain                                       *)
(* The operators here are the module's functions on such a record.         *)
(***************************************************************************)
EXTENDS FlowGraph, SequencesExt

CONSTANT MAX_FLOW_STACK_DEPTH   \* config.MAX_FLOW_STACK_DEPTH, 5 unless set

ASSUME DepthAssumption == MAX_FLOW_STACK_DEPTH \in Nat

ReplaceFlow(s, f, st) ==
  [s EXCEPT !.flow = f, !.state = st, !.flowStack = <<>>, !.stateStack = <<>>]

\* push_flow raises StackDepthError when CanPush is false.
CanPush(s) == Len(s.flowStack) < MAX_FLOW_STACK_DEPTH

\* Slips of push_flow: the two stacks swapped; the state entered, not the one left;
\* the flow not switched.
PushFlowSwapped(s, f, st) ==
  [s EXCEPT !.flow       = f,
            !.state      = st,
            !.flowStack  = Append(@, s.state),
            !.stateStack = Append(@, s.flow)]

PushFlowEntered(s, f, st) ==
  [s EXCEPT !.flow       = f,
            !.state      = st,
            !.flowStack  = Append(@, s.flow),
            !.stateStack = Append(@, st)]

PushFlowStaying(s, f, st) ==
  [s EXCEPT !.state      = st,
            !.flowStack  = Append(@, s.flow),
            !.stateStack = Append(@, s.state)]

PushFlow(s, f, st) ==
  [s EXCEPT !.flow       = f,
            !.state      = st,
            !.flowStack  = Append(@, s.flow),
            !.stateStack = Append(@, s.state)]

PopFlow(s) ==
  [s EXCEPT !.flow       = Last(s.flowStack),
            !.state      = Last(s.stateStack),
            !.flowStack  = Front(@),
            !.stateStack = Front(@)]

AtEnd(s, f) == s.state \in Flow[f].ends

\* Variables and flags the next flow declares and the session lacks.
InitMissing(env, defaults) == Update(defaults, env)

ChainFlow(s, next) ==
  ReplaceFlow([s EXCEPT !.env = InitMissing(@, Flow[next].defaults)],
              next, Flow[next].start)

\* next_flow is declared, get_flow finds it, and chaining is not switched off.
CanChain(s, f) == Flow[f].next \in Slug /\ ~s.noChain

\* Slips of handle_flow_completion: next_flow forgotten; next_flow before resume.
CompletionWithoutChain(s, f) ==
  IF AtEnd(s, f) /\ s.flowStack # <<>> THEN PopFlow(s) ELSE s

CompletionChainFirst(s, f) ==
  IF ~AtEnd(s, f)              THEN s
  ELSE IF CanChain(s, f)       THEN ChainFlow(s, Flow[f].next)
  ELSE IF s.flowStack # <<>>   THEN PopFlow(s)
  ELSE s

\* handle_flow_completion(session, f), called once per request: resume the
\* interrupted flow, else chain to next_flow, else stay.
HandleFlowCompletion(s, f) ==
  IF ~AtEnd(s, f)              THEN s
  ELSE IF s.flowStack # <<>>   THEN PopFlow(s)
  ELSE IF CanChain(s, f)       THEN ChainFlow(s, Flow[f].next)
  ELSE s

\* The session_complete of the responses.
SessionComplete(s) ==
  /\ AtEnd(s, s.flow)
  /\ s.flowStack = <<>>
  /\ Flow[s.flow].next = None \/ s.noChain
============================================================================
