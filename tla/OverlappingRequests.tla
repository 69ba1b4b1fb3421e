------------------------ MODULE OverlappingRequests ------------------------
(***************************************************************************)
(* Requests of one session that overlap. The endpoints run in a threadpool *)
(* and share the cached session object; a transmission that no ok_next     *)
(* matches calls the LLM router (llm_router.route) and meanwhile others    *)
(* change the session. When the answer comes the transmission goes on with *)
(* the flow and the state it read before the call, and with the session as *)
(* it is now. All other requests remain single steps, those of             *)
(* DecisionEngine: next to the call they take no time.                     *)
(***************************************************************************)
EXTENDS DecisionEngine

CONSTANT Transmission   \* transmissions in progress at the same time

VARIABLE waiting   \* what each transmission that waits for the router goes on with

overlapVars == <<vars, waiting>>

Pending(r) == waiting[r] # None

----------------------------------------------------------------------------
\* Steps 1 to 6

\* Only these reasons call the router.
NeedsRouter(c) == c.reason \in {"bad_next_fallback", "no_match"}

\* The local variables flow and current_state, and the transition chosen so far.
\* The walk of step 4 has moved the session; nothing is saved yet.
Ask(r, u, s) ==
  LET c == SelectPilotTransition(u, s)
  IN  /\ ~IsMayday(u, s) /\ ~IsCancel(u, s) /\ ~IsGreeting(u, s)
      /\ NeedsRouter(c)
      /\ waiting' = [waiting EXCEPT ![r] = [flow |-> s.flow, state |-> s.state, choice |-> c]]
      /\ session' = s
      /\ UNCHANGED <<saved, reply, now>>

\* A transmission that needs no router is over at once.
Matched(u, s) == ~NeedsRouter(SelectPilotTransition(u, s)) /\ Route(u, s)

BeginTransmission(r, u) ==
  LET received == Receive(session)
  IN  /\ ~Pending(r)
      /\ received.status = "ok"
      /\ \/ Ask(r, u, received.s)
         \/ /\ \/ DeclareEmergency(u, received.s)
               \/ CancelEmergency(u, received.s)
               \/ Greet(u, received.s)
               \/ Matched(u, received.s)
            /\ UNCHANGED waiting

----------------------------------------------------------------------------
\* Steps 6b to 13

\* The session as the transmission believes it to be.
View(w) == [session EXCEPT !.flow = w.flow, !.state = w.state]

\* A timeout, an error, an abstention or an unknown candidate keep the choice.
RouterAnswers(w) ==
  {w.choice} \cup {[edge |-> e, reason |-> "llm_routed"] : e \in LlmRescue(View(w))}

\* The walk from the target of e, in flow f; the session stays in its own flow.
WalkIn(s, f, e) ==
  [Advance([s EXCEPT !.flow = f, !.state = e.to, !.env = RunActions(@, <<e>>)])
     EXCEPT !.s.flow = s.flow]

\* A slip of the flow switch: the state is not looked up in the active flow.
LandUnchecked(c, f) ==
  IF c.flow = f \/ c.state \notin States(c.flow) THEN Ok(c) ELSE Advance(c)

\* When the active flow is not f, the state is looked up in the active flow.
Land(c, f) ==
  IF c.flow = f                          THEN Ok(c)
  ELSE IF c.state \notin States(c.flow)  THEN Raise(c, "not_found")
  ELSE Advance(c)

Conclude(r, f) == IF r.status = "ok" THEN Land(HandleFlowCompletion(r.s, f), f) ELSE r

\* A slip: the interrupted flow is still the one to continue.
ResumeTakingOver(s, f, e) ==
  IF e.interrupt # None          THEN Follow(s, e)
  ELSE IF e.to \notin States(f)  THEN Raise(s, "not_found")
  ELSE Conclude([WalkIn(s, f, e) EXCEPT !.s.flow = f], f)

\* Follow e from flow f in a session that may have left f: the target, the walk
\* and the end states are those of f, the stack is the session's.
Resume(s, f, e) ==
  IF e.interrupt # None          THEN Follow(s, e)
  ELSE IF e.to \notin States(f)  THEN Raise(s, "not_found")
  ELSE Conclude(WalkIn(s, f, e), f)

\* The readback counter is that of the state the transmission left.
FinishTransmission(r) ==
  LET w == waiting[r]
  IN  /\ Pending(r)
      /\ waiting' = [waiting EXCEPT ![r] = None]
      /\ \E c \in RouterAnswers(w), correct \in BOOLEAN :
           LET g == EvaluateReadback(View(w), c, correct)
               e == HardFallback(g.s, g.edge)
               s == [session EXCEPT !.rbFail = g.s.rbFail]
           IN  Respond(IF e = None THEN Raise(s, "unprocessable") ELSE Resume(s, w.flow, e),
                       c.reason, e)

----------------------------------------------------------------------------
OverlapInit == Init /\ waiting = [r \in Transmission |-> None]

\* The process ends and takes the requests in progress with it.
OverlapRestart == Restart /\ waiting' = [r \in Transmission |-> None]

OverlapNext ==
  \/ \E r \in Transmission, u \in Utterance : BeginTransmission(r, u)
  \/ \E r \in Transmission : FinishTransmission(r)
  \/ Reject /\ UNCHANGED waiting
  \/ Timeout /\ UNCHANGED waiting
  \/ \E reading \in Reading : Tick(reading) /\ UNCHANGED waiting
  \/ PassTime /\ UNCHANGED waiting
  \/ OverlapRestart

OverlapSpec == OverlapInit /\ [][OverlapNext]_overlapVars

----------------------------------------------------------------------------
\* Properties, of flows whose transitions interrupt nothing (InterruptsNothing):
\* the shipped ones, where only MAYDAY suspends a flow.

\* Whatever a late answer does to the cached session, what is saved can be
\* resumed: a restart always finds a state of its flow (step 11 looks it up).
RowResumable == Positioned(saved)

\* A session is stranded outside its flow only by an answer that comes after
\* another request changed the flow; however often the session moved within the
\* flow meanwhile, the late answer lands on a state of it.
StrandedOnlyAfterFlowChange ==
  [][Positioned(session) /\ ~Positioned(session') =>
       \E r \in Transmission : /\ Pending(r) /\ waiting'[r] = None
                               /\ waiting[r].flow # session.flow]_overlapVars

----------------------------------------------------------------------------
\* docs/flow-yaml-spec.md: "When `emergency-v1` ends, the engine pops the stack
\* and resumes the previous flow." So an emergency is left from its own end; the
\* request that does it finds the session in the last exchange of it.
LastExchange(s) ==
  \E e \in Transitions(Here(s)) : e.to \in Flow[EmergencyFlow].ends

EmergencyRunsToItsEnd ==
  [][session.flow = EmergencyFlow /\ session'.flow # EmergencyFlow /\ ~OverlapRestart
       => session.state \in States(EmergencyFlow) /\ LastExchange(session)]_overlapVars
============================================================================
