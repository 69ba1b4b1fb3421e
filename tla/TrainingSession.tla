-------------------------- MODULE TrainingSession --------------------------
(***************************************************************************)
(* What a training session promises its pilot, whatever the engine does to *)
(* get there: a session is somewhere in one flow and may have other flows  *)
(* suspended under it. A request moves within the flow, suspends it to     *)
(* enter another, resumes the flow suspended last exactly where it was, or *)
(* (only when nothing is suspended) goes on to the next flow of the chain. *)
(* A restart returns to the position of the last request that succeeded.   *)
(***************************************************************************)
EXTENDS FlowGraph, SequencesExt

CONSTANT MAX_FLOW_STACK_DEPTH

VARIABLES
  at,       \* the position: flow, state, suspended (a sequence of <<flow, state>>)
  acked,    \* the position after the last request that succeeded
  noChain   \* the session stays within its first flow

vars == <<at, acked, noChain>>

Start(f) == [flow |-> f, state |-> Flow[f].start, suspended |-> <<>>]

Init ==
  /\ \E f \in Slug : at = Start(f)
  /\ acked = at
  /\ noChain \in BOOLEAN

IsPilot(f, st) == State(f, st).role = "pilot"

Moves(p, q) ==
  /\ q.flow = p.flow
  /\ q.suspended = p.suspended

\* A flow suspended at a pilot state is suspended there and nowhere else.
Suspends(p, q) ==
  /\ Len(p.suspended) < MAX_FLOW_STACK_DEPTH
  /\ \E st \in States(p.flow) :
       /\ IsPilot(p.flow, p.state) => st = p.state
       /\ q.suspended = Append(p.suspended, <<p.flow, st>>)

Resumes(p, q) ==
  LET frame == Last(p.suspended)
  IN  /\ p.suspended # <<>>
      /\ q.suspended = Front(p.suspended)
      /\ q.flow = frame[1]
      /\ IsPilot(frame[1], frame[2]) => q.state = frame[2]

Chains(p, q) ==
  /\ p.suspended = <<>>
  /\ q.suspended = <<>>
  /\ ~noChain
  /\ q.flow = Flow[p.flow].next

\* The position a request may leave behind, whether it succeeds or not.
Request ==
  /\ at'.flow \in Slug
  /\ at'.state \in States(at'.flow)
  /\ \/ Moves(at, at')
     \/ Suspends(at, at')
     \/ Resumes(at, at')
     \/ Chains(at, at')
  /\ acked' \in {acked, at'}
  /\ UNCHANGED noChain

Restart ==
  /\ at' = acked
  /\ UNCHANGED <<acked, noChain>>

Next == Request \/ Restart

Spec == Init /\ [][Next]_vars
============================================================================
