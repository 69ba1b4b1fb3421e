--------------------------- MODULE DecisionEngine ---------------------------
(***************************************************************************)
(* decision_engine.py: one session, and the three requests that drive it:  *)
(* /transmissions, /timeout and /telemetry. A request is one step here     *)
(* (requests that overlap in time are the subject of another module); what *)
(* it did before it raised stays in the session, as in the code, which     *)
(* mutates the cached object in place and saves it only when it succeeds.  *)
(***************************************************************************)
EXTENDS FlowOrchestrator

CONSTANTS
  Utterance,        \* what the pilot can say
  MaydayCall,       \* the utterances _EMERGENCY_RE matches
  CancelCall,       \* those _CANCEL_EMERGENCY_RE matches
  GreetingCall,     \* those _GREETING_RE matches
  EmergencyFlow,    \* _EMERGENCY_FLOW, "emergency-v1"
  EmergencyEntry,   \* _EMERGENCY_ENTRY, "MAYDAY_DECLARED"
  Reading,          \* telemetry ticks: functions from parameters to values
  MaxTime           \* bound on the clock

ASSUME MaxTimeAssumption == MaxTime \in Nat

VARIABLES
  session,   \* the cached RuntimeSession
  saved,     \* the row save_session last wrote: what a restart loads
  reply,     \* the last response: HTTP status, match_reason, transition taken
  now        \* time.time(), in units of for_ms

vars == <<session, saved, reply, now>>

StateId == UNION {States(f) : f \in Slug}

\* _MAX_READBACK_ATTEMPTS
MAX_READBACK_ATTEMPTS == 3

\* An outcome is the session as the request leaves it and how it ended:
\* "ok" 200, "not_found" 404 (KeyError), "unprocessable" 422 (ValueError),
\* "error" 500 (LoopDetectedError, StackDepthError).
Ok(s) == [s |-> s, status |-> "ok"]
Raise(s, status) == [s |-> s, status |-> status]

Here(s) == State(s.flow, s.state)

----------------------------------------------------------------------------
\* Steps 9 to 11, shared by the three requests

\* t if the walk w rested, else s with the error of the exception it raised.
Walked(s, w, t) ==
  IF w.status = "rest" THEN Ok(t)
  ELSE Raise(s, IF w.status = "loop" THEN "error" ELSE "not_found")

\* The auto-advance block: the actions on the way run after the whole walk.
Advance(s) ==
  LET w == AdvanceThroughNonPilot(s.flow, s.state, s.env)
  IN  IF Here(s).role = "pilot" THEN Ok(s)
      ELSE Walked(s, w, [s EXCEPT !.state = w.at, !.env = RunActions(@, w.path)])

\* Flow completion, and one more auto-advance if that changed the flow.
Complete(s) ==
  LET c == HandleFlowCompletion(s, s.flow)
  IN  IF c.flow = s.flow THEN Ok(c) ELSE Advance(c)

Settle(s) ==
  LET r == Advance(s)
  IN  IF r.status = "ok" THEN Complete(r.s) ELSE r

\* Follow transition e: check its target, suspend the flow if e interrupts it,
\* run its actions, enter the target and settle there.
Follow(s, e) ==
  LET f == IF e.interrupt = None THEN s.flow ELSE e.interrupt
      t == IF e.interrupt = None THEN [s EXCEPT !.state = e.to]
                                 ELSE PushFlow(s, f, e.to)
  IN  IF f \notin Slug                              THEN Raise(s, "not_found")
      ELSE IF e.to \notin States(f)                 THEN Raise(s, "not_found")
      ELSE IF e.interrupt # None /\ ~CanPush(s)     THEN Raise(s, "error")
      ELSE Settle([t EXCEPT !.env = RunActions(@, <<e>>)])

----------------------------------------------------------------------------
\* process_transmission, steps 1 to 4

\* Rejected at the end of the last flow; otherwise advanced to a pilot state.
\* The actions of the transitions taken here are dropped.
Receive(s) ==
  LET w == AdvanceThroughNonPilot(s.flow, s.state, s.env)
  IN  IF s.state \notin States(s.flow)                  THEN Raise(s, "not_found")
      ELSE IF AtEnd(s, s.flow) /\ s.flowStack = <<>>    THEN Raise(s, "unprocessable")
      ELSE IF Here(s).role = "pilot"                    THEN Ok(s)
      ELSE Walked(s, w, [s EXCEPT !.state = w.at])

\* The transition the engine makes up for MAYDAY / PAN-PAN.
MaydayEdge ==
  [to |-> EmergencyEntry, trigger |-> MaydayCall, guard |-> None, telemetry |-> None,
   emergency |-> TRUE, interrupt |-> EmergencyFlow, exit |-> <<>>, enter |-> <<>>]

\* A slip of the intercept: MAYDAY within the emergency flow suspends it again.
IsMaydayAnywhere(u, s) ==
  /\ u \in MaydayCall \ CancelCall
  /\ EmergencyFlow \in Slug
  /\ EmergencyEntry \in States(EmergencyFlow)

\* Steps 5b to 5c: what is intercepted before the state's own transitions.
IsMayday(u, s) ==
  /\ u \in MaydayCall \ CancelCall
  /\ s.flow # EmergencyFlow
  /\ EmergencyFlow \in Slug
  /\ EmergencyEntry \in States(EmergencyFlow)

IsCancel(u, s) ==
  /\ ~IsMayday(u, s)
  /\ s.distress
  /\ s.flow # EmergencyFlow
  /\ u \in CancelCall

IsGreeting(u, s) ==
  /\ ~IsMayday(u, s) /\ ~IsCancel(u, s)
  /\ Here(s).greeting
  /\ u \in GreetingCall
  /\ SelectTransition(u, Here(s).ok, s.env).edge = None

----------------------------------------------------------------------------
\* process_transmission, steps 6 to 8: choosing a transition

\* _select_pilot_transition: ok_next by regex, else the first eligible bad_next.
SelectPilotTransition(u, s) ==
  LET ok  == SelectTransition(u, Here(s).ok, s.env)
      bad == Here(s).bad
      fallback == First(bad, {i \in DOMAIN bad : Eligible(bad[i], s.env)})
  IN  IF ok.edge # None        THEN ok
      ELSE IF fallback # None  THEN [edge |-> fallback, reason |-> "bad_next_fallback"]
      ELSE ok

\* _llm_rescue: the router may name any target of the state, eligible or not,
\* and the engine takes the first transition that leads there.
LlmRescue(s) ==
  LET offered == Here(s).ok \o Here(s).bad
      leading(to) == {i \in DOMAIN offered : offered[i].to = to}
  IN  {First(offered, leading(offered[i].to)) : i \in DOMAIN offered}

\* Step 6 and 6b. The rescue is tried when no ok_next matched; it may abstain.
Selections(u, s) ==
  LET c == SelectPilotTransition(u, s)
  IN  {c} \cup
      IF c.reason \in {"bad_next_fallback", "no_match"}
        THEN {[edge |-> e, reason |-> "llm_routed"] : e \in LlmRescue(s)}
        ELSE {}

\* Step 7 looks at the readback only when a transition is chosen and the state
\* asks for one.
IsGraded(s, c) ==
  /\ c.edge # None
  /\ c.reason # "emergency_override"
  /\ Here(s).readback
  /\ Here(s).graded

\* A slip of step 7: the counter is forgotten on a failure.
EvaluateReadbackForgetful(s, c, correct) ==
  LET st == Here(s)
  IN  [s |-> s, edge |-> IF IsGraded(s, c) /\ ~correct /\ st.bad # <<>>
                           THEN st.bad[1] ELSE c.edge]

\* The outcome of the readback: the counter of failed attempts of the state,
\* and the transition, which a failed attempt overrides.
EvaluateReadback(s, c, correct) ==
  LET st    == Here(s)
      fails == s.rbFail[s.state] + 1
      count(n, e) == [s |-> [s EXCEPT !.rbFail[s.state] = n], edge |-> e]
  IN  IF ~IsGraded(s, c)      THEN [s |-> s, edge |-> c.edge]
      ELSE IF correct         THEN count(0, c.edge)
      ELSE IF fails >= MAX_READBACK_ATTEMPTS /\ st.ok # <<>>
                              THEN count(0, st.ok[1])
      ELSE IF st.bad # <<>>   THEN count(fails, st.bad[1])
      ELSE count(fails, c.edge)

\* Step 8: still nothing chosen, so the first bad_next, guard or not.
HardFallback(s, e) ==
  IF e = None /\ Here(s).bad # <<>> THEN Here(s).bad[1] ELSE e

----------------------------------------------------------------------------
\* The requests

\* Steps 12 and 13: only a request that succeeds is saved.
Respond(r, reason, edge) ==
  /\ session' = r.s
  /\ saved' = IF r.status = "ok" THEN r.s ELSE saved
  /\ reply' = [status |-> r.status, reason |-> reason, edge |-> edge]
  /\ UNCHANGED now

Reject == 
  LET r == Receive(session)
  IN  r.status # "ok" /\ Respond(r, "rejected", None)

\* "_emergency_active" is set before the flow is suspended.
DeclareEmergency(u, s) ==
  /\ IsMayday(u, s)
  /\ Respond(Follow([s EXCEPT !.distress = TRUE], MaydayEdge),
             "emergency_override", MaydayEdge)

CancelEmergency(u, s) ==
  /\ IsCancel(u, s)
  /\ Respond(Ok([s EXCEPT !.distress = FALSE]), "emergency_cancel", None)

Greet(u, s) ==
  /\ IsGreeting(u, s)
  /\ Respond(Ok(s), "greeting", None)

Route(u, s) ==
  /\ ~IsMayday(u, s) /\ ~IsCancel(u, s) /\ ~IsGreeting(u, s)
  /\ \E c \in Selections(u, s), correct \in BOOLEAN :
       LET g == EvaluateReadback(s, c, correct)
           e == HardFallback(g.s, g.edge)
       IN  Respond(IF e = None THEN Raise(g.s, "unprocessable") ELSE Follow(g.s, e),
                   c.reason, e)

Transmit(u) ==
  LET r == Receive(session)
  IN  /\ r.status = "ok"
      /\ \/ DeclareEmergency(u, r.s)
         \/ CancelEmergency(u, r.s)
         \/ Greet(u, r.s)
         \/ Route(u, r.s)

\* process_timeout: which transition silence takes from state st, if any.
SilenceEdge(st, env) ==
  LET silent == {i \in DOMAIN st.auto : /\ st.auto[i].trigger = {}
                                        /\ st.auto[i].telemetry = None
                                        /\ Eligible(st.auto[i], env)}
  IN  IF st.silence                         THEN First(st.auto, silent)
      ELSE IF st.readback /\ st.bad # <<>>  THEN st.bad[1]
      ELSE None

\* It never suspends the flow: interrupt_flow is not looked at.
Timeout ==
  LET e == SilenceEdge(Here(session), session.env)
  IN  IF session.state \notin States(session.flow)
        THEN Respond(Raise(session, "not_found"), "silence_timeout", None)
      ELSE IF Here(session).role # "pilot" \/ e = None
        THEN Respond(Raise(session, "unprocessable"), "silence_timeout", None)
      ELSE Respond(Follow(session, [e EXCEPT !.interrupt = None]), "silence_timeout", e)

----------------------------------------------------------------------------
\* process_telemetry

\* _eval_telemetry: a parameter that was never reported satisfies nothing.
EvalTelemetry(cond, telemetry) == Lookup(telemetry, cond.parameter) \in cond.accepts

TelemetryKey(s, i) == <<s.state, i, Here(s).auto[i].to>>

\* The telemetry edges the loop looks at, those whose condition holds, and
\* those that have held for for_ms since they were first seen to hold.
Live(s) ==
  {i \in DOMAIN Here(s).auto :
     LET cond == Here(s).auto[i].telemetry
     IN  cond # None /\ ~(cond.once /\ TelemetryKey(s, i) \in s.fired)}

Holding(s) ==
  {i \in Live(s) : /\ Eligible(Here(s).auto[i], s.env)
                   /\ EvalTelemetry(Here(s).auto[i].telemetry, s.telemetry)}

Due(s) ==
  {i \in Holding(s) :
     LET for == Here(s).auto[i].telemetry.forMs
         key == TelemetryKey(s, i)
     IN  for > 0 => key \in DOMAIN s.pending /\ now - s.pending[key] >= for}

\* A slip of the loop: a condition that stopped holding stays armed.
ExamineNeverDisarms(s) ==
  LET seen  == {i \in Live(s) : Due(s) = {} \/ i <= Min(Due(s))}
      armed == {TelemetryKey(s, i) : i \in seen \cap Holding(s)}
  IN  [s EXCEPT !.pending =
         [k \in DOMAIN @ \cup armed |-> IF k \in DOMAIN @ THEN @[k] ELSE now]]

\* The loop stops at the first edge that is due. Up to there an edge that does
\* not hold is disarmed and one that holds for the first time is armed.
Examine(s) ==
  LET seen     == {i \in Live(s) : Due(s) = {} \/ i <= Min(Due(s))}
      keys(I)  == {TelemetryKey(s, i) : i \in I}
      disarmed == keys((seen \ Holding(s)) \cup (seen \cap Due(s)))
      armed    == keys((seen \cap Holding(s)) \ Due(s))
  IN  [s EXCEPT !.pending =
         [k \in (DOMAIN @ \ disarmed) \cup armed |-> IF k \in DOMAIN @ THEN @[k] ELSE now]]

\* A slip of firing: once is not recorded.
FireUnrecorded(s, i) == Follow(s, Here(s).auto[i])

\* Fire edge i, which is remembered as fired before it is followed.
Fire(s, i) ==
  LET e == Here(s).auto[i]
  IN  Follow([s EXCEPT !.fired = IF e.telemetry.once THEN @ \cup {TelemetryKey(s, i)} ELSE @],
             e)

Tick(reading) ==
  LET s == [session EXCEPT !.telemetry = Update(@, reading)]
  IN  IF s.state \notin States(s.flow)
        THEN Respond(Raise(s, "not_found"), "telemetry", None)
      ELSE IF Here(s).role # "pilot"
        THEN Respond(Ok(s), "telemetry", None)
      ELSE IF Due(s) = {}
        THEN Respond(Ok(Examine(s)), "telemetry", None)
      ELSE Respond(Fire(Examine(s), Min(Due(s))), "telemetry", Here(s).auto[Min(Due(s))])

----------------------------------------------------------------------------
\* create_session
NewSession(f, noChain) ==
  [flow |-> f, state |-> Flow[f].start, flowStack |-> <<>>, stateStack |-> <<>>,
   env |-> Flow[f].defaults, noChain |-> noChain, distress |-> FALSE,
   rbFail |-> [st \in StateId |-> 0], telemetry |-> <<>>, fired |-> {}, pending |-> <<>>]

Init ==
  /\ session \in {NewSession(f, noChain) : f \in Slug, noChain \in BOOLEAN}
  /\ saved = session
  /\ reply = [status |-> "ok", reason |-> "created", edge |-> None]
  /\ now = 0

PassTime ==
  /\ now < MaxTime
  /\ now' = now + 1
  /\ UNCHANGED <<session, saved, reply>>

\* A restart of the process: the cache is gone, the row is loaded again.
Restart ==
  /\ session' = saved
  /\ reply' = [status |-> "ok", reason |-> "restarted", edge |-> None]
  /\ UNCHANGED <<saved, now>>

Next ==
  \/ Reject
  \/ \E u \in Utterance : Transmit(u)
  \/ Timeout
  \/ \E reading \in Reading : Tick(reading)
  \/ PassTime
  \/ Restart

Spec == Init /\ [][Next]_vars

\* What the engine cannot do for itself: the pilot transmits again and again.
FairSpec == Spec /\ []<><<\E u \in Utterance : Transmit(u)>>_vars

----------------------------------------------------------------------------
\* Properties of every set of well-formed flows

\* The session is a RuntimeSession: its fields have their types.
TypeOK ==
  /\ session.flow \in Slug
  /\ session.state \in StateId
  /\ session.flowStack \in Seq(Slug)
  /\ session.stateStack \in Seq(StateId)
  /\ session.noChain \in BOOLEAN
  /\ session.distress \in BOOLEAN
  /\ session.rbFail \in [StateId -> Nat]
  /\ reply.status \in {"ok", "not_found", "unprocessable", "error"}
  /\ now \in 0..MaxTime

\* A session is at a state of its active flow, and so is every flow suspended
\* under it: flow_stack and state_stack stay in step and within the limit.
Positioned(s) ==
  /\ s.flow \in Slug
  /\ s.state \in States(s.flow)
  /\ s.flowStack \in Seq(Slug)
  /\ s.stateStack \in Seq(StateId)
  /\ Len(s.flowStack) = Len(s.stateStack)
  /\ Len(s.flowStack) <= MAX_FLOW_STACK_DEPTH
  /\ \A i \in DOMAIN s.flowStack : s.stateStack[i] \in States(s.flowStack[i])

\* The cached session, and the row a restart would load, can always be resumed:
\* _get_state finds the state whatever the requests before it did or failed at.
PositionInv == Positioned(session) /\ Positioned(saved)

\* The abstract position of a session.
Suspended(s) == [i \in 1..Len(s.flowStack) |-> <<s.flowStack[i], s.stateStack[i]>>]
Position(s) == [flow |-> s.flow, state |-> s.state, suspended |-> Suspended(s)]

Abstract == INSTANCE TrainingSession
  WITH at <- Position(session), acked <- Position(saved), noChain <- session.noChain

\* Every request moves, suspends, resumes or chains, and nothing else; a restart
\* returns to the last acknowledged position (process_*, flow_orchestrator).
ImplementsTrainingSession == Abstract!Spec

----------------------------------------------------------------------------
\* Properties of the shipped flows, and what they rest on: the schema and the
\* loader ask for none of it, the thirteen flows of src/flows have all of it.

\* No transition suspends its flow: only MAYDAY does.
InterruptsNothing ==
  \A f \in Slug : \A st \in States(f) : \A e \in Transitions(State(f, st)) : e.interrupt = None

\* Every transition leads to a state of its flow, and next_flow is loaded.
Linked ==
  \A f \in Slug :
    /\ Flow[f].next \in Slug \cup {None}
    /\ \A st \in States(f) : \A e \in Transitions(State(f, st)) : e.to \in States(f)

\* The states the silent walk passes through, and the transitions it may take there.
Controllers(f) == {st \in States(f) : State(f, st).role # "pilot"}
SilentEdges(f, st) == {e \in ToSet(State(f, st).auto) : e.telemetry = None}

\* The silent walk only goes down in rank, and is stopped by nothing but an end.
WalksDown(rank) ==
  \A f \in Slug :
    /\ \A st \in States(f) : rank[f][st] \in 0..MAX_HOPS - 1
    /\ \A st \in Controllers(f) :
         /\ \A e \in SilentEdges(f, st) : rank[f][e.to] < rank[f][st]
         /\ st \in Flow[f].ends \/ \E e \in SilentEdges(f, st) : e.guard = None

\* From where a flow starts, the walk stays within opening, where no end is.
Opens(opening) ==
  \A f \in Slug :
    /\ Flow[f].start \in opening[f]
    /\ \A st \in opening[f] \cap Controllers(f) :
         /\ st \notin Flow[f].ends
         /\ \A e \in SilentEdges(f, st) : e.to \in opening[f]

Sturdy(rank, opening) ==
  /\ MAX_FLOW_STACK_DEPTH > 0
  /\ InterruptsNothing
  /\ Linked
  /\ WalksDown(rank)
  /\ Opens(opening)

\* No sequence of requests makes a live session answer 404 or 500: it never
\* loses its state, exceeds the stack depth or loops (routes/decision_routes).
NeverBroken == reply.status \notin {"not_found", "error"}

\* Nobody has transmitted yet: create_session leaves the session where its flow
\* starts, even when that is a controller state (emergency-v1).
Fresh(s) == s.flowStack = <<>> /\ s.state = Flow[s.flow].start

\* Between requests the session waits for the pilot or is complete: no request
\* strands it on a controller state or at the end of a flow that has a next.
WaitsForPilot ==
  \/ Here(session).role = "pilot"
  \/ SessionComplete(session)
  \/ Fresh(session)

\* A flow is suspended exactly by the emergency flow, never twice, and distress
\* cannot be cancelled from within it ("_emergency_active").
DistressWhileSuspended ==
  session.flowStack # <<>> =>
    /\ session.flow = EmergencyFlow
    /\ session.distress
    /\ EmergencyFlow \notin ToSet(session.flowStack)

\* A pilot who keeps talking gets out of every readback, however wrong the
\* readbacks are and whatever is chosen for them: "so the pilot isn't trapped
\* looping forever" (step 7 of process_transmission).
AtReadback(f, st) == session.flow = f /\ session.state = st

EscapesReadback ==
  \A f \in Slug : \A st \in {id \in States(f) : State(f, id).readback /\ State(f, id).graded} :
    AtReadback(f, st) ~> ~AtReadback(f, st)

============================================================================
