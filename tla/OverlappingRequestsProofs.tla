---------------------- MODULE OverlappingRequestsProofs ----------------------
(***************************************************************************)
(* Requests of one session that overlap, for any number of transmissions   *)
(* waiting for the router and any flows whose transitions interrupt        *)
(* nothing. A late answer may leave the cached session at a state of       *)
(* another flow, never the row, and never the flows suspended under it:    *)
(* Stacked is what survives, and what the next late answer starts from.    *)
(***************************************************************************)
EXTENDS OverlappingRequests, DecisionEngineProofs

\* A flow is suspended once, by the emergency, which nothing can cancel then.
Distressed(s) ==
  s.flowStack # <<>> =>
    /\ s.flow = EmergencyFlow
    /\ s.distress
    /\ Len(s.flowStack) = 1
    /\ s.flowStack[1] # EmergencyFlow

\* What a waiting transmission goes on with: a state of its flow, and a
\* transition of that state if any is chosen.
Waits(w) ==
  /\ w.flow \in Slug
  /\ w.state \in States(w.flow)
  /\ w.choice.edge \in Transitions(State(w.flow, w.state)) \cup {None}

SessionInv ==
  /\ Stacked(session) /\ Distressed(session)
  /\ Sound(saved) /\ Distressed(saved)

WaitingInv ==
  /\ DOMAIN waiting = Transmission
  /\ \A r \in Transmission : Pending(r) => Waits(waiting[r])

LateInv == SessionInv /\ WaitingInv

\* Of outcomes: of any, and of one that leaves the session at a state of its flow.
Kept(r) == Stacked(r.s) /\ Distressed(r.s) /\ (r.status = "ok" => Sound(r.s))
Placed(r) == SoundOutcome(r) /\ Distressed(r.s)

----------------------------------------------------------------------------
\* The transitions that are chosen

LEMMA ListedStays ==
  ASSUME InterruptsNothing, NEW s, InFlow(s), NEW e \in Transitions(Here(s))
  PROVE  e.interrupt = None
BY DEF InterruptsNothing, InFlow, Here

----------------------------------------------------------------------------
\* Distress and the stack

\* The walk changes the state and the variables only.
LEMMA AdvanceFrame ==
  ASSUME NEW s, DOMAIN s = Fields
  PROVE  /\ DOMAIN Advance(s) = {"s", "status"}
         /\ DOMAIN Advance(s).s = Fields
         /\ Advance(s).s.flow = s.flow
         /\ Advance(s).s.flowStack = s.flowStack
         /\ Advance(s).s.stateStack = s.stateStack
         /\ Advance(s).s.noChain = s.noChain
         /\ Advance(s).s.distress = s.distress
         /\ Advance(s).s.rbFail = s.rbFail
BY DEF Advance, Walked, Ok, Raise, Fields

LEMMA CompletionDistressed ==
  ASSUME NEW s, Stacked(s), Distressed(s), NEW f
  PROVE  Distressed(HandleFlowCompletion(s, f))
<1>1. CASE s.flowStack # <<>> /\ HandleFlowCompletion(s, f) = PopFlow(s)
  <2>1. PopFlow(s).flowStack = SubSeq(s.flowStack, 1, 0)
    BY <1>1 DEF Distressed, PopFlow, Front, Stacked, Fields
  <2>2. SubSeq(s.flowStack, 1, 0) = <<>>
    BY SubSeqEmpty DEF Stacked
  <2> QED BY <1>1, <2>1, <2>2 DEF Distressed
<1>2. ASSUME NEW g, HandleFlowCompletion(s, f) = ChainFlow(s, g)
      PROVE  Distressed(HandleFlowCompletion(s, f))
  BY <1>2 DEF Distressed, ChainFlow, ReplaceFlow, Stacked, Fields
<1> QED BY <1>1, <1>2 DEF HandleFlowCompletion

LEMMA AdvancePlaced ==
  ASSUME NEW s, Sound(s), Distressed(s)
  PROVE  Placed(Advance(s))
BY AdvanceIsSound, AdvanceFrame DEF Placed, Distressed, Sound

LEMMA SettlePlaced ==
  ASSUME NEW s, Sound(s), Distressed(s)
  PROVE  Placed(Settle(s))
<1>1. ASSUME NEW t, Sound(t), Distressed(t) PROVE Placed(Complete(t))
  <2>1. Sound(HandleFlowCompletion(t, t.flow)) /\ Distressed(HandleFlowCompletion(t, t.flow))
    BY <1>1, CompletionIsSound, CompletionDistressed, SoundIsStacked
  <2>2. Placed(Ok(HandleFlowCompletion(t, t.flow)))
    BY <2>1, OkIsSound DEF Placed, Ok
  <2> QED BY <2>1, <2>2, AdvancePlaced DEF Complete
<1>2. Placed(Advance(s))
  BY AdvancePlaced
<1> QED BY <1>1, <1>2 DEF Settle, Placed, SoundOutcome

LEMMA FollowPlaced ==
  ASSUME NEW s, Sound(s), Distressed(s), NEW e, e.interrupt = None
  PROVE  Placed(Follow(s, e))
<1> DEFINE t == [s EXCEPT !.state = e.to, !.env = RunActions(s.env, <<e>>)]
<1>1. CASE s.flow \notin Slug \/ e.to \notin States(s.flow)
  BY <1>1, RaiseIsSound DEF Follow, Placed, Status, Raise
<1>2. CASE s.flow \in Slug /\ e.to \in States(s.flow)
  <2>1. Sound(t)
    BY <1>2, MoveIsSound
  <2>2. Distressed(t)
    BY DEF Distressed, Sound, Fields
  <2>3. Follow(s, e) = Settle(t)
    <3>1. [[s EXCEPT !.state = e.to] EXCEPT !.env = RunActions([s EXCEPT !.state = e.to].env, <<e>>)] = t
      BY DEF Sound, Fields
    <3> QED BY <1>2, <3>1 DEF Follow
  <2> QED BY <2>1, <2>2, <2>3, SettlePlaced
<1> QED BY <1>1, <1>2

\* MAYDAY is declared outside the emergency flow, so nothing is suspended yet.
LEMMA MaydayPlaced ==
  ASSUME NEW d, Sound(d), d.distress = TRUE, d.flowStack = <<>>, d.flow # EmergencyFlow
  PROVE  Placed(Follow(d, MaydayEdge))
<1> DEFINE t == PushFlow(d, EmergencyFlow, EmergencyEntry)
           v == [t EXCEPT !.env = RunActions(t.env, <<MaydayEdge>>)]
<1>1. Distressed(d)
  BY DEF Distressed
<1>2. CASE EmergencyFlow = None
  BY <1>1, <1>2, FollowPlaced DEF MaydayEdge
<1>3. CASE EmergencyFlow # None
  <2>1. CASE EmergencyFlow \in Slug /\ EmergencyEntry \in States(EmergencyFlow) /\ CanPush(d)
    <3>1. Sound(t)
      BY <1>1, <2>1, PushIsSound
    <3>2. /\ t.flow = EmergencyFlow /\ t.distress = TRUE
          /\ t.flowStack = <<d.flow>>
      BY <1>1 DEF PushFlow, Sound, Fields
    <3> HIDE DEF t
    <3>3. Sound(v)
      BY <3>1 DEF Sound, Positioned, Fields
    <3>4. Distressed(v)
      <4>1. v.flow = t.flow /\ v.distress = t.distress /\ v.flowStack = t.flowStack
        BY <3>1 DEF Sound, Fields
      <4>2. Len(<<d.flow>>) = 1 /\ <<d.flow>>[1] = d.flow
        OBVIOUS
      <4> HIDE DEF v
      <4> QED BY <3>2, <4>1, <4>2 DEF Distressed
    <3>5. Follow(d, MaydayEdge) = Settle(v)
      BY <1>3, <2>1 DEF Follow, MaydayEdge, t
    <3> QED BY <3>3, <3>4, <3>5, SettlePlaced
  <2>2. CASE ~(EmergencyFlow \in Slug /\ EmergencyEntry \in States(EmergencyFlow) /\ CanPush(d))
    <3>1. \E status \in Status : Follow(d, MaydayEdge) = Raise(d, status)
      BY <1>3, <2>2 DEF Follow, MaydayEdge, Status
    <3>2. \A status \in Status : Placed(Raise(d, status))
      BY <1>1, RaiseIsSound DEF Placed, Raise
    <3> QED BY <3>1, <3>2
  <2> QED BY <2>1, <2>2
<1> QED BY <1>2, <1>3

----------------------------------------------------------------------------
\* A late answer

\* The session keeps its flow and stack; it comes to rest at a state of f.
LEMMA WalkInKept ==
  ASSUME NEW s, Stacked(s), Distressed(s), NEW f \in Slug, NEW e, e.to \in States(f)
  PROVE  LET r == WalkIn(s, f, e)
         IN  /\ Stacked(r.s) /\ Distressed(r.s)
             /\ r.s.flow = s.flow /\ r.s.state \in States(f)
             /\ r.status \in Status
<1> DEFINE t == [s EXCEPT !.flow = f, !.state = e.to, !.env = RunActions(s.env, <<e>>)]
           a == Advance(t)
           r == WalkIn(s, f, e)
<1>1. Sound(t)
  BY DEF Stacked, Sound, Positioned, Fields
<1>2. /\ t.flow = f /\ t.flowStack = s.flowStack /\ t.stateStack = s.stateStack
      /\ t.noChain = s.noChain /\ t.distress = s.distress /\ t.rbFail = s.rbFail
  BY DEF Stacked, Fields
<1>3. WalkIn(s, f, e) = [a EXCEPT !.s.flow = s.flow]
  BY DEF WalkIn
<1> HIDE DEF t
<1>4. SoundOutcome(a)
  BY <1>1, AdvanceIsSound
<1>5. /\ DOMAIN a = {"s", "status"} /\ DOMAIN a.s = Fields
      /\ a.s.flow = f /\ a.s.flowStack = s.flowStack /\ a.s.stateStack = s.stateStack
      /\ a.s.noChain = s.noChain /\ a.s.distress = s.distress /\ a.s.rbFail = s.rbFail
  BY <1>1, <1>2, AdvanceFrame DEF Sound
<1> HIDE DEF a
<1>6. /\ r.s = [a.s EXCEPT !.flow = s.flow] /\ r.status = a.status
  BY <1>3, <1>5
<1>7. /\ DOMAIN r.s = Fields
      /\ r.s.flow = s.flow /\ r.s.flowStack = s.flowStack /\ r.s.stateStack = s.stateStack
      /\ r.s.noChain = s.noChain /\ r.s.distress = s.distress /\ r.s.rbFail = s.rbFail
      /\ r.s.state = a.s.state
  BY <1>5, <1>6 DEF Fields
<1>8. a.s.state \in States(f) /\ a.status \in Status
  BY <1>4, <1>5 DEF SoundOutcome, Sound, Positioned
<1> HIDE DEF r
<1>9. Stacked(r.s) /\ Distressed(r.s)
  BY <1>7 DEF Stacked, Distressed
<1> QED BY <1>6, <1>7, <1>8, <1>9 DEF r

\* Completion in a session that has left f still resumes or chains soundly.
LEMMA LateCompletion ==
  ASSUME NEW s, Stacked(s), NEW f
  PROVE  LET c == HandleFlowCompletion(s, f) IN c = s \/ Sound(c)
BY PopIsSound, ChainIsSound DEF HandleFlowCompletion, CanChain

LEMMA LandKept ==
  ASSUME NEW c, Stacked(c), Distressed(c), NEW f, c.flow = f => Sound(c)
  PROVE  /\ Kept(Land(c, f))
         /\ Sound(c) => Sound(Land(c, f).s)
<1>1. CASE c.flow = f
  BY <1>1, SoundIsStacked DEF Land, Kept, Ok
<1>2. CASE c.flow # f /\ c.state \notin States(c.flow)
  BY <1>2, SoundIsStacked DEF Land, Kept, Raise
<1>3. CASE c.flow # f /\ c.state \in States(c.flow)
  <2>1. Placed(Advance(c))
    BY <1>3, SoundIsStacked, AdvancePlaced
  <2> QED BY <1>3, <2>1, SoundIsStacked DEF Land, Kept, Placed, SoundOutcome
<1> QED BY <1>1, <1>2, <1>3

\* Whatever flow the session is in by then, what is saved is sound; and when it
\* is the flow of the transmission, so is the session.
LEMMA ResumeKept ==
  ASSUME NEW s, Stacked(s), Distressed(s), NEW f \in Slug, NEW e, e.interrupt = None
  PROVE  /\ Kept(Resume(s, f, e))
         /\ Sound(s) /\ s.flow = f => Sound(Resume(s, f, e).s)
<1>1. CASE e.to \notin States(f)
  BY <1>1 DEF Resume, Raise, Kept
<1>2. CASE e.to \in States(f)
  <2> DEFINE r == WalkIn(s, f, e)
             c == HandleFlowCompletion(r.s, f)
  <2>1. /\ Stacked(r.s) /\ Distressed(r.s)
        /\ r.s.flow = s.flow /\ r.s.state \in States(f) /\ r.status \in Status
    BY <1>2, WalkInKept
  <2>2. Resume(s, f, e) = IF r.status = "ok" THEN Land(c, f) ELSE r
    BY <1>2 DEF Resume, Conclude
  <2> HIDE DEF r
  <2>3. s.flow = f => Sound(r.s)
    BY <2>1, SoundIsStacked
  <2>4. (c = r.s \/ Sound(c)) /\ Stacked(c) /\ Distressed(c)
    BY <2>1, LateCompletion, CompletionDistressed, SoundIsStacked
  <2>5. c.flow = f => Sound(c)
    BY <2>1, <2>4, SoundIsStacked
  <2>6. s.flow = f => Sound(c)
    BY <2>3, <2>4
  <2> HIDE DEF c
  <2>7. Kept(Land(c, f)) /\ (Sound(c) => Sound(Land(c, f).s))
    BY <2>4, <2>5, LandKept
  <2>8. r.status # "ok" => Kept(r)
    BY <2>1 DEF Kept
  <2> QED BY <2>2, <2>3, <2>6, <2>7, <2>8
<1> QED BY <1>1, <1>2

----------------------------------------------------------------------------
\* The requests

LEMMA RespondKept ==
  ASSUME SessionInv, NEW r, Kept(r), NEW reason, NEW edge, Respond(r, reason, edge)
  PROVE  SessionInv'
<1>1. session' = r.s /\ saved' = IF r.status = "ok" THEN r.s ELSE saved
  BY DEF Respond
<1>2. Stacked(session)' /\ Distressed(session)'
  BY <1>1 DEF Kept, Stacked, Distressed
<1>3. Sound(saved)' /\ Distressed(saved)'
  BY <1>1 DEF SessionInv, Kept, Sound, Positioned, Distressed
<1> QED BY <1>2, <1>3 DEF SessionInv

LEMMA RespondPlaced ==
  ASSUME SessionInv, NEW r, Placed(r), NEW reason, NEW edge, Respond(r, reason, edge)
  PROVE  SessionInv' /\ Sound(session')
<1>1. Kept(r) /\ Sound(r.s)
  BY SoundIsStacked DEF Placed, SoundOutcome, Kept
<1> QED BY <1>1, RespondKept DEF Respond

\* Requests that answer 404 because the session is at no state of its flow.
LEMMA StrandedStays ==
  ASSUME SessionInv, NEW r, r.status # "ok", Stacked(r.s), Distressed(r.s),
         NEW reason, NEW edge, Respond(r, reason, edge)
  PROVE  SessionInv'
BY RespondKept DEF Kept

LEMMA ReceivePlaced ==
  ASSUME NEW s, Sound(s), Distressed(s)
  PROVE  Placed(Receive(s))
<1>1. SoundOutcome(Receive(s))
  BY ReceiveIsSound
<1>2. Distressed(Receive(s).s)
  BY DEF Receive, Walked, Raise, Ok, Distressed, Sound, Fields
<1> QED BY <1>1, <1>2 DEF Placed

LEMMA RejectKept ==
  ASSUME SessionInv, Reject
  PROVE  SessionInv' /\ (Sound(session) => Sound(session'))
<1> DEFINE r == Receive(session)
<1>1. r.status # "ok" /\ Respond(r, "rejected", None)
  BY DEF Reject
<1>2. CASE Sound(session)
  BY <1>1, <1>2, ReceivePlaced, RespondPlaced DEF SessionInv
<1>3. CASE ~Sound(session)
  <2>1. session.state \notin States(session.flow)
    BY <1>3, SoundIsStacked DEF SessionInv
  <2>2. r.s = session
    BY <2>1 DEF Receive, Raise
  <2> QED BY <1>1, <1>3, <2>2, StrandedStays DEF SessionInv
<1> QED BY <1>2, <1>3

LEMMA TimeoutKept ==
  ASSUME InterruptsNothing, SessionInv, Timeout
  PROVE  SessionInv' /\ (Sound(session) => Sound(session'))
<1> DEFINE e == SilenceEdge(Here(session), session.env)
<1>1. CASE Sound(session)
  <2>1. Distressed(session)
    BY DEF SessionInv
  <2>2. \A status \in Status : Placed(Raise(session, status))
    BY <1>1, <2>1, RaiseIsSound DEF Placed, Raise
  <2>3. InFlow(session)
    BY <1>1 DEF Sound, Positioned, InFlow
  <2>4. e # None => Placed(Follow(session, [e EXCEPT !.interrupt = None]))
    <3> SUFFICES ASSUME e # None
                 PROVE  Placed(Follow(session, [e EXCEPT !.interrupt = None]))
      OBVIOUS
    <3>1. e.interrupt = None
      BY <2>3, SilenceIsListed, ListedStays
    <3> HIDE DEF e
    <3>2. [e EXCEPT !.interrupt = None].interrupt = None
      BY <3>1
    <3> QED BY <1>1, <2>1, <3>2, FollowPlaced
  <2>5. PICK r, edge : Placed(r) /\ Respond(r, "silence_timeout", edge)
    BY <2>2, <2>4 DEF Timeout, Status
  <2> QED BY <2>5, RespondPlaced
<1>2. CASE ~Sound(session)
  <2>1. session.state \notin States(session.flow)
    BY <1>2, SoundIsStacked DEF SessionInv
  <2>2. Respond(Raise(session, "not_found"), "silence_timeout", None)
    BY <2>1 DEF Timeout
  <2> QED BY <1>2, <2>2, StrandedStays DEF SessionInv, Raise
<1> QED BY <1>1, <1>2

LEMMA BookkeepingPlaced ==
  ASSUME NEW s, Stacked(s), Distressed(s), NEW x
  PROVE  \A t \in {[s EXCEPT !.telemetry = x], [s EXCEPT !.pending = x], [s EXCEPT !.fired = x]} :
           /\ Stacked(t) /\ Distressed(t) /\ t.flow = s.flow /\ t.state = s.state
           /\ Sound(s) => Sound(t)
BY DEF Stacked, Distressed, Sound, Positioned, Fields

LEMMA TickKept ==
  ASSUME InterruptsNothing, SessionInv, NEW reading, Tick(reading)
  PROVE  SessionInv' /\ (Sound(session) => Sound(session'))
<1> DEFINE s == [session EXCEPT !.telemetry = Update(session.telemetry, reading)]
<1>1. /\ Stacked(s) /\ Distressed(s) /\ s.flow = session.flow /\ s.state = session.state
      /\ Sound(session) => Sound(s)
  BY BookkeepingPlaced DEF SessionInv
<1>2. CASE Sound(session)
  <2>1. Sound(s) /\ InFlow(s)
    BY <1>1, <1>2 DEF Sound, Positioned, InFlow
  <2>2. /\ Sound(Examine(s)) /\ Distressed(Examine(s))
        /\ Examine(s).flow = s.flow /\ Examine(s).state = s.state
    <3> HIDE DEF s
    <3> QED BY <1>1, <2>1, BookkeepingPlaced DEF Examine
  <2>3. ASSUME NEW i, Here(s).auto[i].interrupt = None
        PROVE  Placed(Fire(Examine(s), i))
    <3> DEFINE x == Examine(s)
               e == Here(x).auto[i]
               t == [x EXCEPT !.fired = IF e.telemetry.once
                                          THEN x.fired \cup {TelemetryKey(x, i)} ELSE x.fired]
    <3>1. e.interrupt = None
      BY <2>2, <2>3 DEF Here
    <3>2. Fire(x, i) = Follow(t, e)
      BY DEF Fire
    <3> HIDE DEF x
    <3>3. Sound(t) /\ Distressed(t)
      BY <2>2, BookkeepingPlaced, SoundIsStacked DEF x
    <3> HIDE DEF e, t
    <3> QED BY <3>1, <3>2, <3>3, FollowPlaced DEF x
  <2>4. Due(s) # {} => Here(s).auto[Min(Due(s))].interrupt = None
    BY <2>1, DueIsListed, ListedStays
  <2>5. /\ Placed(Ok(s)) /\ Placed(Ok(Examine(s))) /\ Placed(Raise(s, "not_found"))
    BY <1>1, <2>1, <2>2, OkIsSound, RaiseIsSound DEF Placed, Ok, Raise, Status
  <2>6. PICK r, edge : Placed(r) /\ Respond(r, "telemetry", edge)
    BY <2>3, <2>4, <2>5 DEF Tick
  <2> QED BY <2>6, RespondPlaced
<1>3. CASE ~Sound(session)
  <2>1. s.state \notin States(s.flow)
    BY <1>1, <1>3, SoundIsStacked DEF SessionInv
  <2>2. Respond(Raise(s, "not_found"), "telemetry", None)
    BY <2>1 DEF Tick
  <2> QED BY <1>1, <1>3, <2>2, StrandedStays DEF Raise
<1> QED BY <1>2, <1>3

LEMMA RoutePlaced ==
  ASSUME InterruptsNothing, SessionInv, NEW u, NEW s, Sound(s), Distressed(s), Route(u, s)
  PROVE  SessionInv' /\ Sound(session')
<1>1. PICK c \in Selections(u, s), correct \in BOOLEAN :
        LET g == EvaluateReadback(s, c, correct)
            e == HardFallback(g.s, g.edge)
        IN  Respond(IF e = None THEN Raise(g.s, "unprocessable") ELSE Follow(g.s, e),
                    c.reason, e)
  BY DEF Route
<1> DEFINE g == EvaluateReadback(s, c, correct)
           e == HardFallback(g.s, g.edge)
<1>2. InFlow(s) /\ DOMAIN s = Fields
  BY DEF Sound, Positioned, InFlow
<1>3. c.edge \in Transitions(Here(s)) \cup {None}
  BY <1>2, SelectionIsListed, RescueIsListed DEF Selections
<1>4. e # None => e.interrupt = None
  BY <1>2, <1>3, ReadbackIsListed, ListedStays
<1>5. Sound(g.s)
  BY ReadbackIsSound
<1>6. Distressed(g.s)
  BY DEF EvaluateReadback, Distressed, Sound, Fields
<1>7. Respond(IF e = None THEN Raise(g.s, "unprocessable") ELSE Follow(g.s, e), c.reason, e)
  BY <1>1
<1> HIDE DEF g, e
<1>8. Placed(Raise(g.s, "unprocessable"))
  BY <1>5, <1>6, RaiseIsSound DEF Placed, Raise, Status
<1>9. e # None => Placed(Follow(g.s, e))
  BY <1>4, <1>5, <1>6, FollowPlaced
<1> QED BY <1>7, <1>8, <1>9, RespondPlaced

\* A transmission begins at a state of the session's flow, and remembers it.
LEMMA BeginKept ==
  ASSUME InterruptsNothing, LateInv, NEW r \in Transmission, NEW u, BeginTransmission(r, u)
  PROVE  LateInv' /\ Sound(session')
<1> DEFINE s == Receive(session).s
<1>1. Receive(session).status = "ok" /\ ~Pending(r)
  BY DEF BeginTransmission
<1>2. Sound(session) /\ Distressed(session)
  <2>1. session.state \in States(session.flow)
    BY <1>1 DEF Receive, Raise
  <2> QED BY <2>1, SoundIsStacked DEF LateInv, SessionInv
<1>3. Sound(s) /\ Distressed(s)
  BY <1>2, ReceivePlaced DEF Placed, SoundOutcome
<1>4. \/ Ask(r, u, s)
      \/ /\ DeclareEmergency(u, s) \/ CancelEmergency(u, s) \/ Greet(u, s) \/ Matched(u, s)
         /\ UNCHANGED waiting
  BY DEF BeginTransmission
<1> HIDE DEF s
<1>5. CASE Ask(r, u, s)
  <2> DEFINE c == SelectPilotTransition(u, s)
             w == [flow |-> s.flow, state |-> s.state, choice |-> c]
  <2>1. waiting' = [waiting EXCEPT ![r] = w] /\ session' = s /\ saved' = saved
    BY <1>5 DEF Ask
  <2>2. InFlow(s)
    BY <1>3 DEF Sound, Positioned, InFlow
  <2>3. Waits(w)
    BY <2>2, SelectionIsListed DEF Waits, InFlow, Here
  <2> HIDE DEF w
  <2>4. WaitingInv'
    BY <2>1, <2>3 DEF LateInv, WaitingInv, Pending
  <2>5. Sound(session') /\ Stacked(session') /\ Distressed(session')
    BY <1>3, <2>1, SoundIsStacked
  <2>6. SessionInv'
    BY <2>1, <2>5 DEF LateInv, SessionInv, Stacked, Sound, Positioned, Distressed
  <2> QED BY <2>4, <2>5, <2>6 DEF LateInv
<1>6. ASSUME DeclareEmergency(u, s) PROVE SessionInv' /\ Sound(session')
  <2> DEFINE d == [s EXCEPT !.distress = TRUE]
  <2>1. s.flow # EmergencyFlow /\ s.flowStack = <<>>
    BY <1>3, <1>6 DEF DeclareEmergency, IsMayday, Distressed
  <2>2. Sound(d) /\ d.distress = TRUE /\ d.flowStack = <<>> /\ d.flow # EmergencyFlow
    BY <1>3, <2>1 DEF Sound, Positioned, Fields
  <2>3. Respond(Follow(d, MaydayEdge), "emergency_override", MaydayEdge)
    BY <1>6 DEF DeclareEmergency
  <2> HIDE DEF d
  <2> QED BY <2>2, <2>3, MaydayPlaced, RespondPlaced DEF LateInv
<1>7. ASSUME CancelEmergency(u, s) PROVE SessionInv' /\ Sound(session')
  <2> DEFINE d == [s EXCEPT !.distress = FALSE]
  <2>1. s.flowStack = <<>>
    BY <1>3, <1>7 DEF CancelEmergency, IsCancel, Distressed
  <2>2. Sound(d) /\ d.flowStack = <<>>
    BY <1>3, <2>1 DEF Sound, Positioned, Fields
  <2>3. Respond(Ok(d), "emergency_cancel", None)
    BY <1>7 DEF CancelEmergency
  <2> HIDE DEF d
  <2>4. Placed(Ok(d))
    BY <2>2, OkIsSound DEF Placed, Ok, Distressed
  <2> QED BY <2>3, <2>4, RespondPlaced DEF LateInv
<1>8. ASSUME Greet(u, s) PROVE SessionInv' /\ Sound(session')
  <2>1. Placed(Ok(s)) /\ Respond(Ok(s), "greeting", None)
    BY <1>3, <1>8, OkIsSound DEF Placed, Ok, Greet
  <2> QED BY <2>1, RespondPlaced DEF LateInv
<1>9. ASSUME Matched(u, s) PROVE SessionInv' /\ Sound(session')
  BY <1>3, <1>9, RoutePlaced DEF Matched, LateInv
<1>10. CASE UNCHANGED waiting /\ SessionInv' /\ Sound(session')
  BY <1>10 DEF LateInv, WaitingInv, Pending
<1> QED BY <1>4, <1>5, <1>6, <1>7, <1>8, <1>9, <1>10 DEF LateInv

\* The answer comes, whatever became of the session meanwhile.
LEMMA FinishKept ==
  ASSUME InterruptsNothing, LateInv, NEW r \in Transmission, FinishTransmission(r)
  PROVE  /\ LateInv'
         /\ Pending(r) /\ waiting'[r] = None
         /\ Sound(session) /\ waiting[r].flow = session.flow => Sound(session')
<1> DEFINE w == waiting[r]
           v == View(w)
<1>1. Pending(r) /\ waiting' = [waiting EXCEPT ![r] = None] /\ Waits(w)
  BY DEF FinishTransmission, LateInv, WaitingInv
<1>2. waiting'[r] = None /\ WaitingInv'
  BY <1>1 DEF LateInv, WaitingInv, Pending
<1>3. PICK c \in RouterAnswers(w), correct \in BOOLEAN :
        LET g == EvaluateReadback(v, c, correct)
            e == HardFallback(g.s, g.edge)
            s == [session EXCEPT !.rbFail = g.s.rbFail]
        IN  Respond(IF e = None THEN Raise(s, "unprocessable") ELSE Resume(s, w.flow, e),
                    c.reason, e)
  BY DEF FinishTransmission
<1> DEFINE g == EvaluateReadback(v, c, correct)
           e == HardFallback(g.s, g.edge)
           s == [session EXCEPT !.rbFail = g.s.rbFail]
<1>4. /\ Stacked(v) /\ v.flow = w.flow /\ v.state = w.state
  BY <1>1 DEF View, Waits, LateInv, SessionInv, Stacked, Fields
<1>5. Sound(v) /\ InFlow(v) /\ DOMAIN v = Fields /\ Here(v) = State(w.flow, w.state)
  BY <1>1, <1>4, SoundIsStacked DEF Waits, InFlow, Here, Stacked
<1>6. c.edge \in Transitions(Here(v)) \cup {None}
  BY <1>1, <1>5, RescueIsListed DEF RouterAnswers, Waits
<1> HIDE DEF v
<1>7. e # None => e.interrupt = None
  BY <1>5, <1>6, ReadbackIsListed, ListedStays
<1>8. Sound(g.s)
  BY <1>5, ReadbackIsSound
<1>9. Respond(IF e = None THEN Raise(s, "unprocessable") ELSE Resume(s, w.flow, e), c.reason, e)
  BY <1>3
<1> HIDE DEF g, e
<1>10. Stacked(s) /\ Distressed(s) /\ s.flow = session.flow /\ s.state = session.state
  BY <1>8 DEF LateInv, SessionInv, Stacked, Distressed, Sound, Fields
<1> HIDE DEF s
<1>11. Sound(session) => Sound(s)
  BY <1>10, SoundIsStacked
<1>12. w.flow \in Slug
  BY <1>1 DEF Waits
<1> HIDE DEF w
<1> DEFINE out == IF e = None THEN Raise(s, "unprocessable") ELSE Resume(s, w.flow, e)
<1>13. Kept(out) /\ (Sound(s) /\ s.flow = w.flow => Sound(out.s))
  <2>1. Kept(Raise(s, "unprocessable")) /\ Raise(s, "unprocessable").s = s
    BY <1>10 DEF Kept, Raise
  <2>2. e # None => /\ Kept(Resume(s, w.flow, e))
                    /\ Sound(s) /\ s.flow = w.flow => Sound(Resume(s, w.flow, e).s)
    BY <1>7, <1>10, <1>12, ResumeKept
  <2> QED BY <2>1, <2>2
<1>14. Respond(out, c.reason, e)
  BY <1>9
<1> HIDE DEF out
<1>15. SessionInv' /\ session' = out.s
  <2>1. session' = out.s
    BY <1>14 DEF Respond
  <2> QED BY <1>13, <1>14, <2>1, RespondKept DEF LateInv
<1> QED BY <1>1, <1>2, <1>10, <1>11, <1>13, <1>15 DEF LateInv, w

----------------------------------------------------------------------------
\* The invariant

LEMMA OverlapInitKept == OverlapInit => LateInv
<1> SUFFICES ASSUME OverlapInit PROVE LateInv
  OBVIOUS
<1>1. Sound(session) /\ Sound(saved)
  BY InitIsSound DEF OverlapInit, IInv
<1>2. Distressed(session) /\ Distressed(saved)
  BY DEF OverlapInit, Init, NewSession, Distressed
<1>3. WaitingInv
  BY DEF OverlapInit, WaitingInv, Pending
<1> QED BY <1>1, <1>2, <1>3, SoundIsStacked DEF LateInv, SessionInv

\* Every step but a late answer leaves the session at a state of its flow.
LEMMA StepKept ==
  ASSUME InterruptsNothing, LateInv, OverlapNext
  PROVE  /\ LateInv'
         /\ \/ Sound(session) => Sound(session')
            \/ \E r \in Transmission : /\ Pending(r) /\ waiting'[r] = None
                                       /\ waiting[r].flow # session.flow
<1>1. ASSUME NEW r \in Transmission, NEW u \in Utterance, BeginTransmission(r, u)
      PROVE  LateInv' /\ Sound(session')
  BY <1>1, BeginKept
<1>2. ASSUME NEW r \in Transmission, FinishTransmission(r)
      PROVE  /\ LateInv'
             /\ \/ Sound(session) => Sound(session')
                \/ Pending(r) /\ waiting'[r] = None /\ waiting[r].flow # session.flow
  BY <1>2, FinishKept
<1>3. ASSUME Reject \/ Timeout \/ (\E reading \in Reading : Tick(reading)), UNCHANGED waiting
      PROVE  LateInv' /\ (Sound(session) => Sound(session'))
  <2>1. SessionInv' /\ (Sound(session) => Sound(session'))
    BY <1>3, RejectKept, TimeoutKept, TickKept DEF LateInv
  <2> QED BY <1>3, <2>1 DEF LateInv, WaitingInv, Pending
<1>4. ASSUME PassTime, UNCHANGED waiting
      PROVE  LateInv' /\ (Sound(session) => Sound(session'))
  <2>1. UNCHANGED <<session, saved, waiting>>
    BY <1>4 DEF PassTime
  <2> QED BY <2>1 DEF LateInv, SessionInv, WaitingInv, Pending, Stacked, Sound, Positioned, Distressed
<1>5. ASSUME OverlapRestart
      PROVE  LateInv' /\ Sound(session')
  <2>1. session' = saved /\ saved' = saved /\ waiting' = [r \in Transmission |-> None]
    BY <1>5 DEF OverlapRestart, Restart
  <2>2. SessionInv' /\ Sound(session')
    BY <2>1, SoundIsStacked DEF LateInv, SessionInv, Stacked, Sound, Positioned, Distressed
  <2> QED BY <2>1, <2>2 DEF LateInv, WaitingInv, Pending
<1> QED BY <1>1, <1>2, <1>3, <1>4, <1>5 DEF OverlapNext

\* Whatever overlaps, the flows suspended under the session and the row a restart
\* would load stay sound.
THEOREM LateSoundness == InterruptsNothing => (OverlapSpec => []LateInv)
<1> SUFFICES ASSUME InterruptsNothing PROVE OverlapSpec => []LateInv
  OBVIOUS
<1>1. LateInv /\ UNCHANGED overlapVars => LateInv'
  BY DEF overlapVars, vars, LateInv, SessionInv, WaitingInv, Pending, Stacked, Sound,
         Positioned, Distressed
<1>2. LateInv /\ [OverlapNext]_overlapVars => LateInv'
  BY <1>1, StepKept
<1> QED BY <1>2, OverlapInitKept, PTL DEF OverlapSpec

\* However late an answer of the router comes, the row is at a state of its flow:
\* a restart can always resume what was last saved.
THEOREM RowAlwaysResumable == InterruptsNothing => (OverlapSpec => []RowResumable)
<1> SUFFICES ASSUME InterruptsNothing PROVE OverlapSpec => []RowResumable
  OBVIOUS
<1>1. LateInv => RowResumable
  BY DEF LateInv, SessionInv, Sound, RowResumable
<1> QED BY <1>1, LateSoundness, PTL

\* With requests overlapping as they may, a flow is suspended only by the
\* emergency, once, and the distress cannot be cancelled while it is.
THEOREM DistressOutlivesOverlap ==
  InterruptsNothing => (OverlapSpec => []DistressWhileSuspended)
<1> SUFFICES ASSUME InterruptsNothing PROVE OverlapSpec => []DistressWhileSuspended
  OBVIOUS
<1>1. LateInv => DistressWhileSuspended
  <2> SUFFICES ASSUME LateInv, session.flowStack # <<>>
               PROVE  /\ session.flow = EmergencyFlow
                      /\ session.distress
                      /\ EmergencyFlow \notin ToSet(session.flowStack)
    BY DEF DistressWhileSuspended
  <2>1. Distressed(session) /\ session.flowStack \in Seq(Slug)
    BY DEF LateInv, SessionInv, Stacked
  <2>2. DOMAIN session.flowStack = 1..Len(session.flowStack)
    BY <2>1, LenProperties
  <2> QED BY <2>1, <2>2 DEF Distressed, ToSet
<1> QED BY <1>1, LateSoundness, PTL

\* Only a late answer to a session whose flow changed meanwhile leaves it outside
\* its flow.
THEOREM OnlyLateAnswersStrand ==
  InterruptsNothing => (OverlapSpec => StrandedOnlyAfterFlowChange)
<1> SUFFICES ASSUME InterruptsNothing PROVE OverlapSpec => StrandedOnlyAfterFlowChange
  OBVIOUS
<1>1. LateInv /\ [OverlapNext]_overlapVars
        => [Positioned(session) /\ ~Positioned(session') =>
              \E r \in Transmission : /\ Pending(r) /\ waiting'[r] = None
                                      /\ waiting[r].flow # session.flow]_overlapVars
  <2> SUFFICES ASSUME LateInv, OverlapNext, Positioned(session), ~Positioned(session')
               PROVE  \E r \in Transmission : /\ Pending(r) /\ waiting'[r] = None
                                              /\ waiting[r].flow # session.flow
    OBVIOUS
  <2>1. Sound(session)
    BY SoundIsStacked DEF LateInv, SessionInv, Positioned
  <2>2. ~Sound(session')
    BY DEF Sound
  <2> QED BY <2>1, <2>2, StepKept
<1> QED BY <1>1, LateSoundness, PTL DEF OverlapSpec, StrandedOnlyAfterFlowChange
=============================================================================
