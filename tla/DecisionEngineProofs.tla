------------------------ MODULE DecisionEngineProofs ------------------------
(***************************************************************************)
(* Proofs about DecisionEngine for every set of flows the loader accepts,  *)
(* every vocabulary, telemetry and stack depth: a session can always be    *)
(* resumed, the engine implements TrainingSession, and what the validator  *)
(* says of a flow is what the engine does with it. Where the flows are     *)
(* sturdy, as the shipped ones are, no request ever breaks the session.    *)
(* And a cue of the telemetry that is marked once is spoken once.          *)
(***************************************************************************)
EXTENDS FlowValidator, TelemetryHistory, SequenceTheorems, OrderLemmas

Fields == {"flow", "state", "flowStack", "stateStack", "env", "noChain", "distress",
           "rbFail", "telemetry", "fired", "pending"}

\* What every outcome of a request preserves: the session has its fields, is at
\* a state of its flow, and so are the flows suspended under it.
Sound(s) ==
  /\ DOMAIN s = Fields
  /\ Positioned(s)
  /\ s.noChain \in BOOLEAN
  /\ s.distress \in BOOLEAN
  /\ s.rbFail \in [StateId -> Nat]

\* What is left of it in a session that may be at a state of another flow: the
\* flows suspended under it can be resumed all the same.
Stacked(s) ==
  /\ DOMAIN s = Fields
  /\ s.flow \in Slug
  /\ s.flowStack \in Seq(Slug)
  /\ s.stateStack \in Seq(StateId)
  /\ Len(s.flowStack) = Len(s.stateStack)
  /\ Len(s.flowStack) <= MAX_FLOW_STACK_DEPTH
  /\ \A i \in DOMAIN s.flowStack : s.stateStack[i] \in States(s.flowStack[i])
  /\ s.noChain \in BOOLEAN
  /\ s.distress \in BOOLEAN
  /\ s.rbFail \in [StateId -> Nat]

Status == {"ok", "not_found", "unprocessable", "error"}

\* A sound outcome: of requests that succeed and of those that raise.
SoundOutcome(r) == Sound(r.s) /\ r.status \in Status

IInv ==
  /\ Sound(session)
  /\ Sound(saved)
  /\ reply.status \in Status
  /\ now \in 0..MaxTime

----------------------------------------------------------------------------
\* The orchestrator

LEMMA StateIds == \A f \in Slug : States(f) \subseteq StateId
BY DEF StateId

LEMMA SoundIsStacked == \A s : Sound(s) <=> Stacked(s) /\ s.state \in States(s.flow)
BY DEF Sound, Positioned, Stacked

LEMMA OkIsSound == ASSUME NEW s, Sound(s) PROVE SoundOutcome(Ok(s))
BY DEF SoundOutcome, Ok, Status

LEMMA RaiseIsSound ==
  ASSUME NEW s, Sound(s), NEW status \in Status
  PROVE  SoundOutcome(Raise(s, status))
BY DEF SoundOutcome, Raise

\* Moving within the active flow.
LEMMA MoveIsSound ==
  ASSUME NEW s, Sound(s), NEW st \in States(s.flow), NEW env
  PROVE  Sound([s EXCEPT !.state = st, !.env = env])
BY DEF Sound, Positioned, Fields

LEMMA PushIsSound ==
  ASSUME NEW s, Sound(s), CanPush(s), NEW f \in Slug, NEW st \in States(f)
  PROVE  Sound(PushFlow(s, f, st))
<1> DEFINE t == PushFlow(s, f, st)
<1>1. /\ DOMAIN t = Fields
      /\ t.flow = f
      /\ t.state = st
      /\ t.flowStack = Append(s.flowStack, s.flow)
      /\ t.stateStack = Append(s.stateStack, s.state)
      /\ t.noChain = s.noChain
      /\ t.distress = s.distress
      /\ t.rbFail = s.rbFail
  BY DEF Sound, PushFlow, Fields
<1>2. /\ s.flow \in Slug
      /\ s.state \in StateId
      /\ s.flowStack \in Seq(Slug)
      /\ s.stateStack \in Seq(StateId)
  BY StateIds DEF Sound, Positioned
<1>3. /\ t.flowStack \in Seq(Slug)
      /\ t.stateStack \in Seq(StateId)
      /\ Len(t.flowStack) = Len(s.flowStack) + 1
      /\ Len(t.stateStack) = Len(s.stateStack) + 1
  BY <1>1, <1>2, AppendProperties
<1>4. Len(t.flowStack) = Len(t.stateStack) /\ Len(t.flowStack) <= MAX_FLOW_STACK_DEPTH
  BY <1>2, <1>3, LenProperties, DepthAssumption DEF CanPush, Sound, Positioned
<1>5. ASSUME NEW i \in DOMAIN t.flowStack
      PROVE  t.stateStack[i] \in States(t.flowStack[i])
  <2>1. i \in 1..(Len(s.flowStack) + 1)
    BY <1>3, LenProperties
  <2>2. CASE i = Len(s.flowStack) + 1
    BY <1>1, <1>2, <2>2, AppendProperties DEF Sound, Positioned
  <2>3. CASE i \in 1..Len(s.flowStack)
    BY <1>1, <1>2, <2>3, AppendProperties, LenProperties DEF Sound, Positioned
  <2> QED
    BY <2>1, <2>2, <2>3, <1>2, LenProperties
<1> QED
  BY <1>1, <1>3, <1>4, <1>5 DEF Sound, Positioned

LEMMA PopIsSound ==
  ASSUME NEW s, Stacked(s), s.flowStack # <<>>
  PROVE  Sound(PopFlow(s))
<1> DEFINE t == PopFlow(s)
           n == Len(s.flowStack)
<1>1. /\ DOMAIN t = Fields
      /\ t.flow = s.flowStack[n]
      /\ t.state = s.stateStack[Len(s.stateStack)]
      /\ t.flowStack = SubSeq(s.flowStack, 1, n - 1)
      /\ t.stateStack = SubSeq(s.stateStack, 1, Len(s.stateStack) - 1)
      /\ t.noChain = s.noChain
      /\ t.distress = s.distress
      /\ t.rbFail = s.rbFail
  BY DEF Stacked, PopFlow, Fields, Front, Last
<1>2. /\ s.flowStack \in Seq(Slug)
      /\ s.stateStack \in Seq(StateId)
      /\ Len(s.stateStack) = n
      /\ n <= MAX_FLOW_STACK_DEPTH
      /\ \A i \in DOMAIN s.flowStack : s.stateStack[i] \in States(s.flowStack[i])
  BY DEF Stacked
<1>3. n \in Nat \ {0} /\ DOMAIN s.flowStack = 1..n
  BY <1>2, EmptySeq, LenProperties
<1>4. t.flow \in Slug /\ t.state \in States(t.flow)
  BY <1>1, <1>2, <1>3, ElementOfSeq
<1>5. /\ t.flowStack \in Seq(Slug)
      /\ Len(t.flowStack) = n - 1
      /\ \A i \in 1..(n - 1) : t.flowStack[i] = s.flowStack[i]
  <2>1. \A i \in 1..(n - 1) : s.flowStack[i] \in Slug
    BY <1>2, <1>3, ElementOfSeq
  <2> QED
    BY <1>1, <1>3, <2>1, SubSeqProperties
<1>6. /\ t.stateStack \in Seq(StateId)
      /\ Len(t.stateStack) = n - 1
      /\ \A i \in 1..(n - 1) : t.stateStack[i] = s.stateStack[i]
  <2>1. \A i \in 1..(n - 1) : s.stateStack[i] \in StateId
    BY <1>2, <1>3, ElementOfSeq
  <2> QED
    BY <1>1, <1>2, <1>3, <2>1, SubSeqProperties
<1>7. ASSUME NEW i \in DOMAIN t.flowStack
      PROVE  t.stateStack[i] \in States(t.flowStack[i])
  <2>1. i \in 1..(n - 1)
    BY <1>5, LenProperties
  <2>2. i \in DOMAIN s.flowStack
    BY <1>3, <2>1
  <2>3. t.stateStack[i] = s.stateStack[i] /\ t.flowStack[i] = s.flowStack[i]
    BY <1>5, <1>6, <2>1
  <2> QED
    BY <1>2, <2>2, <2>3
<1> QED
  BY <1>1, <1>2, <1>3, <1>4, <1>5, <1>6, <1>7, DepthAssumption DEF Stacked, Sound, Positioned

LEMMA ChainIsSound ==
  ASSUME NEW s, Stacked(s), NEW next \in Slug
  PROVE  Sound(ChainFlow(s, next))
<1> DEFINE t == ChainFlow(s, next)
<1>1. /\ DOMAIN t = Fields
      /\ t.flow = next
      /\ t.state = Flow[next].start
      /\ t.flowStack = <<>>
      /\ t.stateStack = <<>>
      /\ t.noChain = s.noChain
      /\ t.distress = s.distress
      /\ t.rbFail = s.rbFail
  BY DEF Stacked, ChainFlow, ReplaceFlow, Fields
<1>2. t.state \in States(next)
  BY <1>1, FlowsWellFormed
<1> QED
  BY <1>1, <1>2, EmptySeq, DepthAssumption DEF Stacked, Sound, Positioned

\* Completion resumes, chains or stays; each is sound.
LEMMA CompletionIsSound ==
  ASSUME NEW s, Sound(s)
  PROVE  Sound(HandleFlowCompletion(s, s.flow))
BY SoundIsStacked, PopIsSound, ChainIsSound DEF HandleFlowCompletion, CanChain

----------------------------------------------------------------------------
\* Settling and following

\* A walk that rested ended at a state of the flow.
LEMMA WalkRests ==
  ASSUME NEW f, NEW st, NEW env, AdvanceThroughNonPilot(f, st, env).status = "rest"
  PROVE  AdvanceThroughNonPilot(f, st, env).at \in States(f)
BY DEF AdvanceThroughNonPilot, Arrived

LEMMA AdvanceIsSound ==
  ASSUME NEW s, Sound(s)
  PROVE  SoundOutcome(Advance(s))
<1> DEFINE w == AdvanceThroughNonPilot(s.flow, s.state, s.env)
           t == [s EXCEPT !.state = w.at, !.env = RunActions(s.env, w.path)]
<1>1. Advance(s) \in {Ok(s), Walked(s, w, t)}
  BY DEF Advance
<1> HIDE DEF w
<1>2. SoundOutcome(Walked(s, w, t))
  <2>1. CASE w.status = "rest"
    <3>1. Sound(t)
      BY <2>1, WalkRests, MoveIsSound DEF w
    <3> QED
      BY <2>1, <3>1, OkIsSound DEF Walked
  <2>2. CASE w.status # "rest"
    BY <2>2, RaiseIsSound DEF Walked, Status
  <2> QED
    BY <2>1, <2>2
<1> QED
  BY <1>1, <1>2, OkIsSound

LEMMA SettleIsSound ==
  ASSUME NEW s, Sound(s)
  PROVE  SoundOutcome(Settle(s))
<1>1. \A t : Sound(t) => SoundOutcome(Complete(t))
  BY CompletionIsSound, AdvanceIsSound, OkIsSound DEF Complete
<1>2. SoundOutcome(Advance(s))
  BY AdvanceIsSound
<1> QED
  BY <1>1, <1>2 DEF Settle, SoundOutcome

\* Whatever transition is followed, the outcome is sound: its target is looked
\* up, and the depth of the stack checked, before the session is touched.
LEMMA FollowIsSound ==
  ASSUME NEW s, Sound(s), NEW e
  PROVE  SoundOutcome(Follow(s, e))
<1> DEFINE f == IF e.interrupt = None THEN s.flow ELSE e.interrupt
           t == IF e.interrupt = None THEN [s EXCEPT !.state = e.to]
                                      ELSE PushFlow(s, f, e.to)
           u == [t EXCEPT !.env = RunActions(t.env, <<e>>)]
<1>1. CASE f \notin Slug \/ e.to \notin States(f) \/ (e.interrupt # None /\ ~CanPush(s))
  BY <1>1, RaiseIsSound DEF Follow, Status
<1>2. CASE f \in Slug /\ e.to \in States(f) /\ (e.interrupt = None \/ CanPush(s))
  <2>1. Sound(t)
    <3>1. CASE e.interrupt = None
      BY <1>2, <3>1 DEF Sound, Positioned, Fields
    <3>2. CASE e.interrupt # None
      BY <1>2, <3>2, PushIsSound
    <3> QED
      BY <3>1, <3>2
  <2>2. Sound(u)
    <3> HIDE DEF t
    <3> QED
      BY <2>1 DEF Sound, Positioned, Fields
  <2>3. Follow(s, e) = Settle(u)
    BY <1>2 DEF Follow
  <2> QED
    BY <2>2, <2>3, SettleIsSound
<1> QED
  BY <1>1, <1>2

----------------------------------------------------------------------------
\* The requests

LEMMA ReceiveIsSound ==
  ASSUME NEW s, Sound(s)
  PROVE  SoundOutcome(Receive(s))
<1> DEFINE w == AdvanceThroughNonPilot(s.flow, s.state, s.env)
           t == [s EXCEPT !.state = w.at]
<1>1. Receive(s) \in {Raise(s, "not_found"), Raise(s, "unprocessable"), Ok(s), Walked(s, w, t)}
  BY DEF Receive
<1>2. SoundOutcome(Walked(s, w, t))
  <2>1. CASE w.status = "rest"
    <3>1. w.at \in States(s.flow)
      BY <2>1, WalkRests
    <3> HIDE DEF w
    <3>2. Sound(t)
      BY <3>1 DEF Sound, Positioned, Fields
    <3> QED
      BY <2>1, <3>2, OkIsSound DEF Walked
  <2>2. CASE w.status # "rest"
    BY <2>2, RaiseIsSound DEF Walked, Status
  <2> QED
    BY <2>1, <2>2
<1> QED
  BY <1>1, <1>2, OkIsSound, RaiseIsSound DEF Status

\* The readback only changes the counter of the state the session is at.
LEMMA ReadbackIsSound ==
  ASSUME NEW s, Sound(s), NEW c, NEW correct \in BOOLEAN
  PROVE  Sound(EvaluateReadback(s, c, correct).s)
<1> DEFINE fails == s.rbFail[s.state] + 1
           count(n) == [s EXCEPT !.rbFail[s.state] = n]
<1>1. s.state \in StateId
  BY StateIds DEF Sound, Positioned
<1>2. fails \in Nat
  BY <1>1 DEF Sound
<1>3. \A n \in Nat : Sound(count(n))
  BY <1>1 DEF Sound, Positioned, Fields
<1>4. EvaluateReadback(s, c, correct).s \in {s, count(0), count(fails)}
  BY DEF EvaluateReadback
<1> QED
  BY <1>2, <1>3, <1>4

LEMMA RespondIsSound ==
  ASSUME IInv, NEW r, SoundOutcome(r), NEW reason, NEW edge, Respond(r, reason, edge)
  PROVE  IInv'
BY DEF IInv, SoundOutcome, Respond, Sound, Positioned, Status

\* Telemetry bookkeeping leaves the position alone.
LEMMA BookkeepingIsSound ==
  ASSUME NEW s, Sound(s), NEW x
  PROVE  /\ Sound([s EXCEPT !.telemetry = x])
         /\ Sound([s EXCEPT !.pending = x])
         /\ Sound([s EXCEPT !.fired = x])
BY DEF Sound, Positioned, Fields

----------------------------------------------------------------------------
\* The invariant

LEMMA InitIsSound == Init => IInv
<1> SUFFICES ASSUME Init PROVE IInv
  OBVIOUS
<1>1. PICK f \in Slug, noChain \in BOOLEAN : session = NewSession(f, noChain)
  BY DEF Init
<1>2. Sound(NewSession(f, noChain))
  BY FlowsWellFormed, EmptySeq, DepthAssumption
     DEF NewSession, Sound, Positioned, Fields
<1> QED
  BY <1>1, <1>2, MaxTimeAssumption DEF Init, IInv, Status

LEMMA RejectIsSound == IInv /\ Reject => IInv'
BY ReceiveIsSound, RespondIsSound DEF IInv, Reject

LEMMA RouteIsSound ==
  ASSUME IInv, NEW u, NEW s, Sound(s), Route(u, s)
  PROVE  IInv'
<1>1. PICK c \in Selections(u, s), correct \in BOOLEAN :
        LET g == EvaluateReadback(s, c, correct)
            e == HardFallback(g.s, g.edge)
        IN  Respond(IF e = None THEN Raise(g.s, "unprocessable") ELSE Follow(g.s, e),
                    c.reason, e)
  BY DEF Route
<1> DEFINE g == EvaluateReadback(s, c, correct)
           e == HardFallback(g.s, g.edge)
<1>2. Sound(g.s)
  BY ReadbackIsSound
<1>3. SoundOutcome(IF e = None THEN Raise(g.s, "unprocessable") ELSE Follow(g.s, e))
  BY <1>2, RaiseIsSound, FollowIsSound DEF Status
<1> QED
  BY <1>1, <1>3, RespondIsSound

LEMMA TransmitIsSound ==
  ASSUME IInv, NEW u \in Utterance, Transmit(u)
  PROVE  IInv'
<1> DEFINE s == Receive(session).s
<1>1. Sound(s)
  BY ReceiveIsSound DEF IInv, SoundOutcome
<1>2. CASE DeclareEmergency(u, s)
  <2>1. Sound([s EXCEPT !.distress = TRUE])
    BY <1>1 DEF Sound, Positioned, Fields
  <2>2. SoundOutcome(Follow([s EXCEPT !.distress = TRUE], MaydayEdge))
    BY <2>1, FollowIsSound
  <2> QED
    BY <1>2, <2>2, RespondIsSound DEF DeclareEmergency
<1>3. CASE CancelEmergency(u, s)
  <2>1. Sound([s EXCEPT !.distress = FALSE])
    BY <1>1 DEF Sound, Positioned, Fields
  <2> QED
    BY <1>3, <2>1, OkIsSound, RespondIsSound DEF CancelEmergency
<1>4. CASE Greet(u, s)
  BY <1>1, <1>4, OkIsSound, RespondIsSound DEF Greet
<1>5. CASE Route(u, s)
  BY <1>1, <1>5, RouteIsSound
<1> QED
  BY <1>2, <1>3, <1>4, <1>5 DEF Transmit

LEMMA TimeoutIsSound == IInv /\ Timeout => IInv'
<1> SUFFICES ASSUME IInv, Timeout PROVE IInv'
  OBVIOUS
<1>1. Sound(session)
  BY DEF IInv
<1>2. PICK r, edge : SoundOutcome(r) /\ Respond(r, "silence_timeout", edge)
  BY <1>1, RaiseIsSound, FollowIsSound DEF Timeout, Status
<1> QED
  BY <1>2, RespondIsSound

LEMMA TickIsSound ==
  ASSUME IInv, NEW reading \in Reading, Tick(reading)
  PROVE  IInv'
<1> DEFINE s == [session EXCEPT !.telemetry = Update(session.telemetry, reading)]
<1>1. Sound(s)
  BY BookkeepingIsSound DEF IInv
<1>2. Sound(Examine(s))
  BY <1>1, BookkeepingIsSound DEF Examine
<1>3. \A i : SoundOutcome(Fire(Examine(s), i))
  BY <1>2, BookkeepingIsSound, FollowIsSound DEF Fire
<1>4. PICK r, edge : SoundOutcome(r) /\ Respond(r, "telemetry", edge)
  BY <1>1, <1>2, <1>3, RaiseIsSound, OkIsSound DEF Tick, Status
<1> QED
  BY <1>4, RespondIsSound

LEMMA NextIsSound == IInv /\ [Next]_vars => IInv'
<1> SUFFICES ASSUME IInv, [Next]_vars PROVE IInv'
  OBVIOUS
<1>1. CASE Reject
  BY <1>1, RejectIsSound
<1>2. CASE \E u \in Utterance : Transmit(u)
  BY <1>2, TransmitIsSound
<1>3. CASE Timeout
  BY <1>3, TimeoutIsSound
<1>4. CASE \E reading \in Reading : Tick(reading)
  BY <1>4, TickIsSound
<1>5. CASE PassTime
  BY <1>5, MaxTimeAssumption DEF IInv, PassTime, Sound, Positioned
<1>6. CASE Restart
  BY <1>6 DEF IInv, Restart, Sound, Positioned, Status
<1>7. CASE UNCHANGED vars
  BY <1>7 DEF IInv, vars, Sound, Positioned
<1> QED
  BY <1>1, <1>2, <1>3, <1>4, <1>5, <1>6, <1>7 DEF Next

\* The invariant is inductive.
THEOREM Soundness == Spec => []IInv
<1>1. Init => IInv
  BY InitIsSound
<1>2. IInv /\ [Next]_vars => IInv'
  BY NextIsSound
<1> QED
  BY <1>1, <1>2, PTL DEF Spec

\* The fields of a session keep their types through every request.
THEOREM TypeCorrect == Spec => []TypeOK
<1>1. IInv => TypeOK
  BY StateIds DEF IInv, Sound, Positioned, TypeOK, Status
<1> QED
  BY <1>1, Soundness, PTL

\* However requests succeed, fail half-way or are lost to a restart, the session
\* is at a state of its flow and every suspended flow can be resumed.
THEOREM AlwaysPositioned == Spec => []PositionInv
<1>1. IInv => PositionInv
  BY DEF IInv, Sound, PositionInv
<1> QED
  BY <1>1, Soundness, PTL

----------------------------------------------------------------------------
\* The transitions that are chosen

InFlow(s) == s.flow \in Slug /\ s.state \in States(s.flow)

LEMMA Listed ==
  ASSUME NEW s, InFlow(s), NEW es \in TransitionLists(Here(s))
  PROVE  /\ es \in Seq(ToSet(es)) /\ DOMAIN es = 1..Len(es) /\ Len(es) \in Nat
         /\ ToSet(es) \subseteq Transitions(Here(s))
         /\ es # <<>> => es[1] \in ToSet(es)
<1>1. es \in Seq(ToSet(es))
  BY TransitionsAreLists DEF InFlow, Here, ToSet
<1>2. DOMAIN es = 1..Len(es) /\ Len(es) \in Nat
  BY <1>1, LenProperties
<1>3. es # <<>> => 1 \in DOMAIN es
  BY <1>1, <1>2, EmptySeq
<1>4. ToSet(es) \subseteq Transitions(Here(s))
  BY Zenon DEF Transitions, ToSet
<1> QED BY <1>1, <1>2, <1>3, <1>4 DEF ToSet

LEMMA FirstIsListed ==
  ASSUME NEW s, InFlow(s), NEW es \in TransitionLists(Here(s)), NEW hits \in SUBSET DOMAIN es
  PROVE  First(es, hits) \in Transitions(Here(s)) \cup {None}
<1>1. CASE hits = {}
  BY <1>1 DEF First
<1>2. CASE hits # {}
  <2>1. hits \in SUBSET Nat
    BY Listed
  <2>2. Min(hits) \in DOMAIN es
    BY <1>2, <2>1, MinIsLeast
  <2>3. es[Min(hits)] \in Transitions(Here(s))
    BY <2>2, Listed DEF ToSet
  <2> QED BY <1>2, <2>3 DEF First
<1> QED BY <1>1, <1>2

LEMMA SelectionIsListed ==
  ASSUME NEW s, InFlow(s), NEW u
  PROVE  SelectPilotTransition(u, s).edge \in Transitions(Here(s)) \cup {None}
<1> DEFINE ok == Here(s).ok
           bad == Here(s).bad
<1>1. ok \in TransitionLists(Here(s)) /\ bad \in TransitionLists(Here(s))
  BY DEF TransitionLists
<1>2. SelectTransition(u, ok, s.env).edge \in Transitions(Here(s)) \cup {None}
  <2>1. EmergencyHits(u, ok) \in SUBSET DOMAIN ok /\ RegexHits(u, ok, s.env) \in SUBSET DOMAIN ok
    BY DEF EmergencyHits, RegexHits
  <2> HIDE DEF ok
  <2>2. /\ First(ok, EmergencyHits(u, ok)) \in Transitions(Here(s)) \cup {None}
        /\ First(ok, RegexHits(u, ok, s.env)) \in Transitions(Here(s)) \cup {None}
    BY <1>1, <2>1, FirstIsListed
  <2>3. SelectTransition(u, ok, s.env).edge \in
          {First(ok, EmergencyHits(u, ok)), First(ok, RegexHits(u, ok, s.env))}
    BY DEF SelectTransition
  <2> QED BY <2>2, <2>3
<1>3. First(bad, {i \in DOMAIN bad : Eligible(bad[i], s.env)}) \in Transitions(Here(s)) \cup {None}
  BY <1>1, FirstIsListed
<1> QED BY <1>2, <1>3 DEF SelectPilotTransition

LEMMA RescueIsListed ==
  ASSUME NEW s, InFlow(s)
  PROVE  LlmRescue(s) \subseteq Transitions(Here(s)) \cup {None}
<1> DEFINE ok == Here(s).ok
           bad == Here(s).bad
           offered == ok \o bad
           leading(to) == {i \in DOMAIN offered : offered[i].to = to}
           T == Transitions(Here(s))
<1>1. ok \in Seq(T) /\ bad \in Seq(T)
  <2>1. ok \in TransitionLists(Here(s)) /\ bad \in TransitionLists(Here(s))
    BY DEF TransitionLists
  <2> HIDE DEF ok, bad
  <2>2. /\ ok \in Seq(ToSet(ok)) /\ ToSet(ok) \subseteq T
        /\ bad \in Seq(ToSet(bad)) /\ ToSet(bad) \subseteq T
    BY <2>1, Listed
  <2> HIDE DEF T
  <2> QED BY <2>2
<1> HIDE DEF ok, bad, T
<1>2. offered \in Seq(T)
  BY <1>1, ConcatProperties
<1> HIDE DEF offered
<1>3. DOMAIN offered \subseteq Nat /\ \A i \in DOMAIN offered : offered[i] \in T
  BY <1>2, LenProperties, ElementOfSeq
<1>4. \A to : First(offered, leading(to)) \in T \cup {None}
  <2> TAKE to
  <2>1. leading(to) \in SUBSET Nat /\ leading(to) \subseteq DOMAIN offered
    BY <1>3
  <2> HIDE DEF leading
  <2>2. leading(to) # {} => Min(leading(to)) \in DOMAIN offered
    BY <2>1, MinIsLeast
  <2> QED BY <1>3, <2>2 DEF First
<1> QED BY <1>4 DEF LlmRescue, ok, bad, offered, T

\* Steps 7 and 8 choose among the transitions of the state too.
LEMMA ReadbackIsListed ==
  ASSUME NEW s, InFlow(s), NEW c, c.edge \in Transitions(Here(s)) \cup {None},
         NEW correct \in BOOLEAN, DOMAIN s = Fields
  PROVE  LET g == EvaluateReadback(s, c, correct)
         IN  HardFallback(g.s, g.edge) \in Transitions(Here(s)) \cup {None}
<1> DEFINE g == EvaluateReadback(s, c, correct)
<1>1. /\ Here(s).ok \in TransitionLists(Here(s)) /\ Here(s).bad \in TransitionLists(Here(s))
  BY DEF TransitionLists
<1>2. /\ Here(s).ok # <<>> => Here(s).ok[1] \in Transitions(Here(s))
      /\ Here(s).bad # <<>> => Here(s).bad[1] \in Transitions(Here(s))
  BY <1>1, Listed
<1>3. g.edge \in Transitions(Here(s)) \cup {None}
  BY <1>2 DEF EvaluateReadback
<1>4. Here(g.s) = Here(s)
  BY DEF EvaluateReadback, Here, Fields
<1> QED BY <1>2, <1>3, <1>4 DEF HardFallback

LEMMA SilenceIsListed ==
  ASSUME NEW s, InFlow(s)
  PROVE  SilenceEdge(Here(s), s.env) \in Transitions(Here(s)) \cup {None}
<1>1. Here(s).auto \in TransitionLists(Here(s)) /\ Here(s).bad \in TransitionLists(Here(s))
  BY DEF TransitionLists
<1>2. Here(s).bad # <<>> => Here(s).bad[1] \in Transitions(Here(s))
  BY <1>1, Listed
<1>3. \A hits \in SUBSET DOMAIN Here(s).auto :
        First(Here(s).auto, hits) \in Transitions(Here(s)) \cup {None}
  BY <1>1, FirstIsListed
<1> QED BY <1>2, <1>3 DEF SilenceEdge

LEMMA DueIsListed ==
  ASSUME NEW s, InFlow(s), Due(s) # {}
  PROVE  Here(s).auto[Min(Due(s))] \in Transitions(Here(s))
<1>1. Here(s).auto \in TransitionLists(Here(s))
  BY DEF TransitionLists
<1>2. Due(s) \subseteq DOMAIN Here(s).auto
  BY DEF Due, Holding, Live
<1>3. Due(s) \in SUBSET Nat
  BY <1>1, <1>2, Listed
<1>4. Min(Due(s)) \in DOMAIN Here(s).auto
  BY <1>2, <1>3, MinIsLeast
<1> QED BY <1>1, <1>4, Listed DEF ToSet

(***************************************************************************)
(* DecisionEngine implements TrainingSession.                              *)
(***************************************************************************)
----------------------------------------------------------------------------
\* How the session t a request leaves relates to the session s it found.

SameStacks(s, t) == t.flowStack = s.flowStack /\ t.stateStack = s.stateStack

Stays(s, t) == t.flow = s.flow /\ SameStacks(s, t)

\* Suspended at st: at s's own state if that is a pilot state.
SuspendsAt(s, t, st) ==
  /\ CanPush(s)
  /\ st \in States(s.flow)
  /\ Here(s).role = "pilot" => st = s.state
  /\ t.flowStack = Append(s.flowStack, s.flow)
  /\ t.stateStack = Append(s.stateStack, st)

Resumes(s, t) ==
  /\ s.flowStack # <<>>
  /\ t.flow = Last(s.flowStack)
  /\ t.flowStack = Front(s.flowStack)
  /\ t.stateStack = Front(s.stateStack)
  /\ State(t.flow, Last(s.stateStack)).role = "pilot" => t.state = Last(s.stateStack)

Chains(s, t) ==
  /\ s.flowStack = <<>>
  /\ t.flowStack = <<>>
  /\ t.stateStack = <<>>
  /\ ~s.noChain
  /\ t.flow = Flow[s.flow].next

\* What settling may do, and what a whole request may do.
Settles(s, t) ==
  /\ t.noChain = s.noChain
  /\ Stays(s, t) \/ Resumes(s, t) \/ Chains(s, t)

Reaches(s, t) ==
  \/ Settles(s, t)
  \/ t.noChain = s.noChain /\ \E st : SuspendsAt(s, t, st)

LEMMA SettlesToItself == \A s : Settles(s, s)
BY DEF Settles, Stays, SameStacks

----------------------------------------------------------------------------
\* Advancing stays in the flow, and at a pilot state.
LEMMA AdvanceStays ==
  ASSUME NEW s, Sound(s)
  PROVE  LET t == Advance(s).s
         IN  /\ Stays(s, t)
             /\ t.noChain = s.noChain
             /\ Here(s).role = "pilot" => t = s
<1> DEFINE w == AdvanceThroughNonPilot(s.flow, s.state, s.env)
           u == [s EXCEPT !.state = w.at, !.env = RunActions(s.env, w.path)]
<1>1. Advance(s) = IF Here(s).role = "pilot" THEN Ok(s) ELSE Walked(s, w, u)
  BY DEF Advance
<1> HIDE DEF w
<1>2. Stays(s, u) /\ u.noChain = s.noChain
  BY DEF Sound, Fields, Stays, SameStacks
<1> HIDE DEF u
<1>3. Walked(s, w, u).s \in {s, u}
  BY DEF Walked, Ok, Raise
<1> QED
  BY <1>1, <1>2, <1>3 DEF Ok, Stays, SameStacks

LEMMA PopResumes ==
  ASSUME NEW s, Sound(s), s.flowStack # <<>>
  PROVE  LET t == PopFlow(s)
         IN  /\ Resumes(s, t)
             /\ t.noChain = s.noChain
             /\ t.state = Last(s.stateStack)
BY DEF PopFlow, Resumes, Sound, Fields

LEMMA ChainChains ==
  ASSUME NEW s, Sound(s), s.flowStack = <<>>, CanChain(s, s.flow)
  PROVE  LET t == ChainFlow(s, Flow[s.flow].next)
         IN  Chains(s, t) /\ t.noChain = s.noChain
BY DEF ChainFlow, ReplaceFlow, CanChain, Chains, Sound, Fields

LEMMA CompleteSettles ==
  ASSUME NEW s, Sound(s)
  PROVE  Settles(s, Complete(s).s)
<1> DEFINE c == HandleFlowCompletion(s, s.flow)
<1>1. Sound(c)
  BY CompletionIsSound
<1>2. /\ Settles(s, c)
      /\ Resumes(s, c) => c = s \/ c.state = Last(s.stateStack)
  <2>1. CASE c = s
    BY <2>1, SettlesToItself
  <2>2. CASE s.flowStack # <<>> /\ c = PopFlow(s)
    BY <2>2, PopResumes DEF Settles
  <2>3. CASE s.flowStack = <<>> /\ CanChain(s, s.flow) /\ c = ChainFlow(s, Flow[s.flow].next)
    BY <2>3, ChainChains DEF Settles, Resumes
  <2> QED
    BY <2>1, <2>2, <2>3 DEF HandleFlowCompletion
<1> HIDE DEF c
<1>3. CASE c.flow = s.flow
  BY <1>2, <1>3 DEF Complete, Ok, c
<1>4. CASE c.flow # s.flow
  <2> DEFINE t == Advance(c).s
  <2>1. Complete(s).s = t
    BY <1>4 DEF Complete, c
  <2>2. Stays(c, t) /\ t.noChain = c.noChain /\ (Here(c).role = "pilot" => t = c)
    BY <1>1, AdvanceStays
  <2> HIDE DEF t
  <2>3. CASE Resumes(s, c)
    <3>1. c.state = Last(s.stateStack)
      BY <1>2, <1>4, <2>3
    <3>2. Resumes(s, t)
      BY <2>2, <2>3, <3>1 DEF Resumes, Stays, SameStacks, Here
    <3> QED
      BY <1>2, <2>1, <2>2, <3>2 DEF Settles
  <2>4. CASE Chains(s, c)
    BY <1>2, <2>1, <2>2, <2>4 DEF Settles, Chains, Stays, SameStacks
  <2> QED
    BY <1>2, <1>4, <2>3, <2>4 DEF Settles, Stays
<1> QED
  BY <1>3, <1>4

LEMMA SettleSettles ==
  ASSUME NEW s, Sound(s)
  PROVE  Settles(s, Settle(s).s)
<1> DEFINE r == Advance(s)
<1>1. Stays(s, r.s) /\ r.s.noChain = s.noChain /\ Sound(r.s)
  BY AdvanceStays, AdvanceIsSound DEF SoundOutcome
<1> HIDE DEF r
<1>2. CASE r.status = "ok"
  <2>1. Settles(r.s, Complete(r.s).s)
    BY <1>1, CompleteSettles
  <2>2. Settle(s) = Complete(r.s)
    BY <1>2 DEF Settle, r
  <2> QED
    BY <1>1, <2>1, <2>2 DEF Settles, Stays, SameStacks, Resumes, Chains
<1>3. CASE r.status # "ok"
  BY <1>1, <1>3 DEF Settle, Settles, r
<1> QED
  BY <1>2, <1>3

\* Taking off what was put on.
LEMMA FrontOfAppend ==
  ASSUME NEW S, NEW q \in Seq(S), NEW x \in S
  PROVE  Front(Append(q, x)) = q /\ Last(Append(q, x)) = x
<1> DEFINE a == Append(q, x)
           n == Len(q)
<1>1. /\ n \in Nat /\ DOMAIN q = 1..n
      /\ a \in Seq(S) /\ Len(a) = n + 1
      /\ \A i \in 1..n : a[i] = q[i]
      /\ a[n + 1] = x
  BY LenProperties, AppendProperties
<1>2. \A i \in 1..n : a[i] \in S
  BY <1>1, ElementOfSeq
<1> HIDE DEF a
<1>3. /\ SubSeq(a, 1, n) \in Seq(S)
      /\ Len(SubSeq(a, 1, n)) = n
      /\ \A i \in 1..n : SubSeq(a, 1, n)[i] = a[i]
  BY <1>1, <1>2, SubSeqProperties
<1>4. SubSeq(a, 1, n) = q
  BY <1>1, <1>3, SeqEqual
<1> QED
  BY <1>1, <1>4 DEF Front, Last, a

\* Following a transition of the flow settles; one that interrupts the flow
\* suspends it, or has ended by itself and resumed it.
LEMMA FollowReaches ==
  ASSUME NEW s, Sound(s), NEW e
  PROVE  /\ Follow(s, e).s.noChain = s.noChain
         /\ \/ Settles(s, Follow(s, e).s)
            \/ SuspendsAt(s, Follow(s, e).s, s.state)
<1> DEFINE f == IF e.interrupt = None THEN s.flow ELSE e.interrupt
           t == IF e.interrupt = None THEN [s EXCEPT !.state = e.to]
                                      ELSE PushFlow(s, f, e.to)
           u == [t EXCEPT !.env = RunActions(t.env, <<e>>)]
<1>1. CASE f \notin Slug \/ e.to \notin States(f) \/ (e.interrupt # None /\ ~CanPush(s))
  BY <1>1, SettlesToItself DEF Follow, Raise, Settles
<1>2. CASE /\ f \in Slug /\ e.to \in States(f) /\ e.interrupt = None
  <2>1. Sound(u) /\ Stays(s, u) /\ u.noChain = s.noChain
    BY <1>2 DEF Sound, Positioned, Fields, Stays, SameStacks
  <2>2. Follow(s, e) = Settle(u)
    BY <1>2 DEF Follow
  <2> HIDE DEF u
  <2>3. Settles(u, Settle(u).s)
    BY <2>1, SettleSettles
  <2> QED
    BY <2>1, <2>2, <2>3 DEF Settles, Stays, SameStacks, Resumes, Chains
<1>3. CASE /\ f \in Slug /\ e.to \in States(f) /\ e.interrupt # None /\ CanPush(s)
  <2>1. Sound(t) /\ t = PushFlow(s, f, e.to)
    BY <1>3, PushIsSound
  <2>2. /\ t.flowStack = Append(s.flowStack, s.flow)
        /\ t.stateStack = Append(s.stateStack, s.state)
        /\ t.noChain = s.noChain
    BY <2>1 DEF PushFlow, Sound, Fields
  <2>3. Follow(s, e) = Settle(u)
    BY <1>3 DEF Follow
  <2> HIDE DEF t
  <2>4. Sound(u) /\ SameStacks(t, u) /\ u.noChain = t.noChain
    BY <2>1 DEF Sound, Positioned, Fields, SameStacks
  <2> HIDE DEF u
  <2> DEFINE v == Settle(u).s
  <2>5. Settles(u, v)
    BY <2>4, SettleSettles
  <2> HIDE DEF v
  <2>6. /\ u.flowStack # <<>>
        /\ Front(u.flowStack) = s.flowStack /\ Last(u.flowStack) = s.flow
        /\ Front(u.stateStack) = s.stateStack /\ Last(u.stateStack) = s.state
    <3>1. /\ s.flow \in Slug /\ s.state \in StateId
          /\ s.flowStack \in Seq(Slug) /\ s.stateStack \in Seq(StateId)
      BY StateIds DEF Sound, Positioned
    <3>2. /\ Append(s.flowStack, s.flow) # <<>>
          /\ Front(Append(s.flowStack, s.flow)) = s.flowStack
          /\ Last(Append(s.flowStack, s.flow)) = s.flow
      BY <3>1, FrontOfAppend, AppendProperties
    <3>3. /\ Front(Append(s.stateStack, s.state)) = s.stateStack
          /\ Last(Append(s.stateStack, s.state)) = s.state
      BY <3>1, FrontOfAppend
    <3> QED
      BY <2>2, <2>4, <3>2, <3>3 DEF SameStacks
  <2>7. v.noChain = s.noChain
    BY <2>2, <2>4, <2>5 DEF Settles
  <2>8. CASE Stays(u, v)
    <3>1. SuspendsAt(s, v, s.state)
      BY <1>3, <2>2, <2>4, <2>8 DEF SuspendsAt, Stays, SameStacks, Sound, Positioned
    <3> QED
      BY <2>3, <2>7, <3>1 DEF v
  <2>9. CASE Resumes(u, v)
    <3>1. Settles(s, v)
      BY <2>6, <2>7, <2>9 DEF Resumes, Settles, Stays, SameStacks
    <3> QED
      BY <2>3, <2>7, <3>1 DEF v
  <2>10. ~Chains(u, v)
    BY <2>6 DEF Chains
  <2> QED
    BY <2>5, <2>8, <2>9, <2>10 DEF Settles
<1> QED
  BY <1>1, <1>2, <1>3

\* Receiving stays in the flow, and at a pilot state; what the request then does
\* to the received session, it does to the session it found.
LEMMA ReceiveStays ==
  ASSUME NEW s, Sound(s)
  PROVE  LET r == Receive(s)
         IN  /\ Stays(s, r.s)
             /\ r.s.noChain = s.noChain
             /\ r.s.state \in States(s.flow)
             /\ Here(s).role = "pilot" => r.s.state = s.state
<1> DEFINE w == AdvanceThroughNonPilot(s.flow, s.state, s.env)
           u == [s EXCEPT !.state = w.at]
<1>1. \/ Receive(s).s = s
      \/ Here(s).role # "pilot" /\ Receive(s) = Walked(s, w, u)
  BY DEF Receive, Raise, Ok
<1>2. Walked(s, w, u).s \in {s, u}
  BY DEF Walked, Raise, Ok
<1>3. Stays(s, u) /\ u.noChain = s.noChain
  BY DEF Sound, Fields, Stays, SameStacks
<1>4. Receive(s).s.state \in States(Receive(s).s.flow)
  BY ReceiveIsSound DEF SoundOutcome, Sound, Positioned
<1> HIDE DEF w, u
<1> QED
  BY <1>1, <1>2, <1>3, <1>4 DEF Stays, SameStacks

\* The sessions x that a request has before it follows a transition: s, moved.
Holds(s, x) ==
  /\ Sound(x)
  /\ Stays(s, x)
  /\ x.noChain = s.noChain
  /\ Here(s).role = "pilot" => x.state = s.state

LEMMA HeldReaches ==
  ASSUME NEW s, Sound(s), NEW x, Holds(s, x), NEW e
  PROVE  Reaches(s, x) /\ Reaches(s, Follow(x, e).s)
<1> DEFINE t == Follow(x, e).s
<1>1. /\ t.noChain = x.noChain
      /\ Settles(x, t) \/ SuspendsAt(x, t, x.state)
  BY FollowReaches DEF Holds
<1> HIDE DEF t
<1>2. Reaches(s, x)
  BY DEF Holds, Reaches, Settles
<1>3. ASSUME Settles(x, t) PROVE Reaches(s, t)
  <2>1. Settles(s, t)
    BY <1>3 DEF Holds, Settles, Stays, SameStacks, Resumes, Chains
  <2> QED
    BY <2>1 DEF Reaches
<1>4. ASSUME SuspendsAt(x, t, x.state) PROVE Reaches(s, t)
  <2>1. SuspendsAt(s, t, x.state)
    BY <1>4 DEF Holds, SuspendsAt, Stays, SameStacks, CanPush
  <2>2. t.noChain = s.noChain
    BY <1>1 DEF Holds
  <2> QED
    BY <2>1, <2>2 DEF Reaches
<1> QED
  BY <1>1, <1>2, <1>3, <1>4 DEF t

\* Every request reaches what it leaves, and may save it.
Requested ==
  /\ Reaches(session, session')
  /\ saved' \in {saved, session'}

LEMMA RespondReaches ==
  ASSUME NEW r, Reaches(session, r.s), NEW reason, NEW edge, Respond(r, reason, edge)
  PROVE  Requested
BY DEF Respond, Requested

LEMMA RejectReaches == IInv /\ Reject => Requested
<1> SUFFICES ASSUME IInv, Reject PROVE Requested
  OBVIOUS
<1>1. Reaches(session, Receive(session).s)
  BY ReceiveStays DEF IInv, Reaches, Settles
<1> QED
  BY <1>1, RespondReaches DEF Reject

LEMMA RouteReaches ==
  ASSUME IInv, NEW u, NEW s, Holds(session, s), Route(u, s)
  PROVE  Requested
<1>1. PICK c \in Selections(u, s), correct \in BOOLEAN :
        LET g == EvaluateReadback(s, c, correct)
            e == HardFallback(g.s, g.edge)
        IN  Respond(IF e = None THEN Raise(g.s, "unprocessable") ELSE Follow(g.s, e),
                    c.reason, e)
  BY DEF Route
<1> DEFINE g == EvaluateReadback(s, c, correct)
           e == HardFallback(g.s, g.edge)
<1>2. Sound(g.s)
  BY ReadbackIsSound DEF Holds
<1>3. g.s = s \/ \E n : g.s = [s EXCEPT !.rbFail[s.state] = n]
  BY DEF EvaluateReadback
<1>4. Holds(session, g.s)
  BY <1>2, <1>3 DEF Holds, Sound, Fields, Stays, SameStacks
<1>5. Reaches(session, (IF e = None THEN Raise(g.s, "unprocessable") ELSE Follow(g.s, e)).s)
  BY <1>4, HeldReaches DEF IInv, Raise
<1> QED
  BY <1>1, <1>5, RespondReaches

LEMMA TransmitReaches ==
  ASSUME IInv, NEW u \in Utterance, Transmit(u)
  PROVE  Requested
<1> DEFINE s == Receive(session).s
<1>1. Holds(session, s)
  BY ReceiveIsSound, ReceiveStays DEF IInv, SoundOutcome, Holds
<1> HIDE DEF s
<1>2. \A b \in BOOLEAN : Holds(session, [s EXCEPT !.distress = b])
  BY <1>1 DEF Holds, Sound, Positioned, Fields, Stays, SameStacks
<1>3. CASE DeclareEmergency(u, s)
  <2>1. Reaches(session, Follow([s EXCEPT !.distress = TRUE], MaydayEdge).s)
    BY <1>2, HeldReaches DEF IInv
  <2> QED
    BY <1>3, <2>1, RespondReaches DEF DeclareEmergency
<1>4. CASE CancelEmergency(u, s)
  <2>1. Reaches(session, Ok([s EXCEPT !.distress = FALSE]).s)
    BY <1>2, HeldReaches DEF IInv, Ok
  <2> QED
    BY <1>4, <2>1, RespondReaches DEF CancelEmergency
<1>5. CASE Greet(u, s)
  <2>1. Reaches(session, Ok(s).s)
    BY <1>1, HeldReaches DEF IInv, Ok
  <2> QED
    BY <1>5, <2>1, RespondReaches DEF Greet
<1>6. CASE Route(u, s)
  BY <1>1, <1>6, RouteReaches
<1> QED
  BY <1>3, <1>4, <1>5, <1>6 DEF Transmit, s

LEMMA TimeoutReaches == IInv /\ Timeout => Requested
<1> SUFFICES ASSUME IInv, Timeout PROVE Requested
  OBVIOUS
<1>1. Holds(session, session)
  BY DEF IInv, Holds, Stays, SameStacks
<1>2. PICK r, edge : Reaches(session, r.s) /\ Respond(r, "silence_timeout", edge)
  BY <1>1, HeldReaches DEF IInv, Timeout, Raise
<1> QED
  BY <1>2, RespondReaches

LEMMA TickReaches ==
  ASSUME IInv, NEW reading \in Reading, Tick(reading)
  PROVE  Requested
<1> DEFINE s == [session EXCEPT !.telemetry = Update(session.telemetry, reading)]
<1>1. \A t, x : Holds(session, t) => /\ Holds(session, [t EXCEPT !.telemetry = x])
                                     /\ Holds(session, [t EXCEPT !.pending = x])
                                     /\ Holds(session, [t EXCEPT !.fired = x])
  BY BookkeepingIsSound DEF Holds, Sound, Fields, Stays, SameStacks
<1>2. Holds(session, s)
  BY <1>1 DEF IInv, Holds, Stays, SameStacks
<1>3. Holds(session, Examine(s))
  BY <1>1, <1>2 DEF Examine
<1>4. \A i : Reaches(session, Fire(Examine(s), i).s)
  BY <1>1, <1>3, HeldReaches DEF IInv, Fire
<1>5. Reaches(session, s) /\ Reaches(session, Examine(s))
  BY <1>2, <1>3, HeldReaches DEF IInv
<1>6. PICK r, edge : Reaches(session, r.s) /\ Respond(r, "telemetry", edge)
  BY <1>4, <1>5 DEF Tick, Ok, Raise
<1> QED
  BY <1>6, RespondReaches

----------------------------------------------------------------------------
\* The refinement

\* A row is of the session it was saved from: no_chain is set once.
SameChain == saved.noChain = session.noChain

LEMMA NextReaches ==
  ASSUME IInv, [Next]_vars
  PROVE  \/ Requested
         \/ session' = saved /\ saved' = saved
         \/ UNCHANGED <<session, saved>>
<1>1. CASE Reject
  BY <1>1, RejectReaches
<1>2. CASE \E u \in Utterance : Transmit(u)
  BY <1>2, TransmitReaches
<1>3. CASE Timeout
  BY <1>3, TimeoutReaches
<1>4. CASE \E reading \in Reading : Tick(reading)
  BY <1>4, TickReaches
<1>5. CASE PassTime \/ Restart \/ UNCHANGED vars
  BY <1>5 DEF PassTime, Restart, vars
<1> QED
  BY <1>1, <1>2, <1>3, <1>4, <1>5 DEF Next

LEMMA ReachesKeepsChain == \A s, t : Reaches(s, t) => t.noChain = s.noChain
BY DEF Reaches, Settles

LEMMA ChainKept == IInv /\ SameChain /\ [Next]_vars => SameChain' /\ UNCHANGED session.noChain
<1> SUFFICES ASSUME IInv, SameChain, [Next]_vars
             PROVE  SameChain' /\ session'.noChain = session.noChain
  OBVIOUS
<1>1. CASE Requested
  BY <1>1, ReachesKeepsChain DEF Requested, SameChain
<1>2. CASE session' = saved /\ saved' = saved
  BY <1>2 DEF SameChain
<1>3. CASE UNCHANGED <<session, saved>>
  BY <1>3 DEF SameChain
<1> QED
  BY <1>1, <1>2, <1>3, NextReaches

\* The frames of the stacks, as a sequence of pairs.
Frame == Slug \X StateId

LEMMA SuspendedIsSeq ==
  ASSUME NEW s, Sound(s)
  PROVE  /\ Suspended(s) \in Seq(Frame)
         /\ Len(Suspended(s)) = Len(s.flowStack)
         /\ \A i \in 1..Len(s.flowStack) :
              Suspended(s)[i] = <<s.flowStack[i], s.stateStack[i]>>
<1> DEFINE n == Len(s.flowStack)
<1>1. n \in Nat /\ \A i \in 1..n : <<s.flowStack[i], s.stateStack[i]>> \in Frame
  BY LenProperties, ElementOfSeq DEF Sound, Positioned, Frame
<1>2. Suspended(s) \in [1..n -> Frame]
  BY <1>1 DEF Suspended
<1>3. Suspended(s) \in Seq(Frame)
  BY <1>1, <1>2
<1>4. Len(Suspended(s)) = n
  BY <1>1, <1>2, <1>3, LenProperties
<1> QED
  BY <1>3, <1>4 DEF Suspended

LEMMA PushedFrames ==
  ASSUME NEW s, Sound(s), NEW t, Sound(t), NEW st, SuspendsAt(s, t, st)
  PROVE  Suspended(t) = Append(Suspended(s), <<s.flow, st>>)
<1> DEFINE n == Len(s.flowStack)
           q == Suspended(s)
           frame == <<s.flow, st>>
           a == Append(q, frame)
<1>1. st \in StateId /\ s.flow \in Slug /\ <<s.flow, st>> \in Frame
  BY StateIds DEF SuspendsAt, Sound, Positioned, Frame
<1>2. /\ n \in Nat
      /\ a \in Seq(Frame)
      /\ Len(a) = n + 1
      /\ a[n + 1] = <<s.flow, st>>
      /\ \A i \in 1..n : a[i] = <<s.flowStack[i], s.stateStack[i]>>
  <2>1. n \in Nat
    BY LenProperties DEF Sound, Positioned
  <2>2. /\ q \in Seq(Frame) /\ Len(q) = n
        /\ \A i \in 1..n : q[i] = <<s.flowStack[i], s.stateStack[i]>>
    BY SuspendedIsSeq
  <2> HIDE DEF q, n
  <2>3. frame \in Frame
    BY <1>1
  <2> HIDE DEF frame
  <2>4. /\ a \in Seq(Frame) /\ Len(a) = n + 1 /\ a[n + 1] = frame
        /\ \A i \in 1..n : a[i] = q[i]
    BY <2>2, <2>3, AppendProperties
  <2> QED
    BY <2>1, <2>2, <2>4 DEF frame
<1>3. /\ Len(t.flowStack) = n + 1
      /\ t.flowStack[n + 1] = s.flow /\ t.stateStack[n + 1] = st
      /\ \A i \in 1..n : t.flowStack[i] = s.flowStack[i] /\ t.stateStack[i] = s.stateStack[i]
  BY <1>1, AppendProperties DEF SuspendsAt, Sound, Positioned
<1>4. /\ Suspended(t) \in Seq(Frame)
      /\ Len(Suspended(t)) = n + 1
      /\ \A i \in 1..(n + 1) : Suspended(t)[i] = <<t.flowStack[i], t.stateStack[i]>>
  BY <1>3, SuspendedIsSeq
<1> HIDE DEF a, n
<1>5. ASSUME NEW i \in 1..(n + 1) PROVE Suspended(t)[i] = a[i]
  <2>1. CASE i = n + 1
    BY <1>2, <1>3, <1>4, <2>1
  <2>2. CASE i \in 1..n
    BY <1>2, <1>3, <1>4, <2>2
  <2> QED
    BY <1>2, <2>1, <2>2
<1> QED
  BY <1>2, <1>4, <1>5, SeqEqual DEF a

LEMMA FrontOfSeq ==
  ASSUME NEW S, NEW q \in Seq(S), q # <<>>
  PROVE  /\ Front(q) \in Seq(S)
         /\ Len(Front(q)) = Len(q) - 1
         /\ \A i \in 1..(Len(q) - 1) : Front(q)[i] = q[i]
<1> DEFINE n == Len(q)
<1>1. n \in Nat \ {0}
  BY EmptySeq
<1>2. \A i \in 1..(n - 1) : q[i] \in S
  BY <1>1, ElementOfSeq
<1>3. /\ SubSeq(q, 1, n - 1) \in Seq(S)
      /\ Len(SubSeq(q, 1, n - 1)) = n - 1
      /\ \A i \in 1..(n - 1) : SubSeq(q, 1, n - 1)[i] = q[i]
  <2> HIDE DEF n
  <2> QED
    BY <1>1, <1>2, SubSeqProperties
<1> QED
  BY <1>3 DEF Front

LEMMA PoppedFrames ==
  ASSUME NEW s, Sound(s), NEW t, Sound(t), Resumes(s, t)
  PROVE  /\ Suspended(s) # <<>>
         /\ Suspended(t) = Front(Suspended(s))
         /\ Last(Suspended(s)) = <<Last(s.flowStack), Last(s.stateStack)>>
<1> DEFINE n == Len(s.flowStack)
           q == Suspended(s)
<1>1. /\ s.flowStack \in Seq(Slug) /\ s.flowStack # <<>>
      /\ s.stateStack \in Seq(StateId) /\ Len(s.stateStack) = n
      /\ n \in Nat \ {0}
  BY EmptySeq DEF Resumes, Sound, Positioned
<1>2. s.stateStack # <<>>
  BY <1>1, EmptySeq
<1>3. /\ q \in Seq(Frame) /\ Len(q) = n
      /\ \A i \in 1..n : q[i] = <<s.flowStack[i], s.stateStack[i]>>
  BY SuspendedIsSeq
<1> HIDE DEF q
<1>4. q # <<>> /\ Last(q) = <<Last(s.flowStack), Last(s.stateStack)>>
  BY <1>1, <1>3, EmptySeq DEF Last
<1>5. /\ Front(q) \in Seq(Frame) /\ Len(Front(q)) = n - 1
      /\ \A i \in 1..(n - 1) : Front(q)[i] = <<s.flowStack[i], s.stateStack[i]>>
  BY <1>1, <1>3, <1>4, FrontOfSeq
<1>6. /\ Len(t.flowStack) = n - 1
      /\ \A i \in 1..(n - 1) : t.flowStack[i] = s.flowStack[i] /\ t.stateStack[i] = s.stateStack[i]
  BY <1>1, <1>2, FrontOfSeq DEF Resumes
<1>7. /\ Suspended(t) \in Seq(Frame) /\ Len(Suspended(t)) = n - 1
      /\ \A i \in 1..(n - 1) : Suspended(t)[i] = <<t.flowStack[i], t.stateStack[i]>>
  BY <1>6, SuspendedIsSeq
<1> HIDE DEF n
<1>8. \A i \in 1..(n - 1) : Suspended(t)[i] = Front(q)[i]
  BY <1>5, <1>6, <1>7
<1>9. Suspended(t) = Front(q)
  BY <1>5, <1>7, <1>8, SeqEqual
<1> QED
  BY <1>4, <1>9 DEF q

\* Each way of leaving a session is a step of TrainingSession.
LEMMA ReachesRefines ==
  ASSUME Sound(session), Sound(session)', Reaches(session, session')
  PROVE  \/ Abstract!Moves(Position(session), Position(session'))
         \/ Abstract!Suspends(Position(session), Position(session'))
         \/ Abstract!Resumes(Position(session), Position(session'))
         \/ Abstract!Chains(Position(session), Position(session'))
<1> DEFINE s == session
           t == session'
<1>1. Sound(t)
  BY DEF Sound, Positioned
<1>2. ASSUME Stays(s, t) PROVE Abstract!Moves(Position(s), Position(t))
  BY <1>2 DEF Stays, SameStacks, Abstract!Moves, Position, Suspended
<1>3. ASSUME NEW st, SuspendsAt(s, t, st)
      PROVE  Abstract!Suspends(Position(s), Position(t))
  <2>1. Suspended(t) = Append(Suspended(s), <<s.flow, st>>)
    BY <1>1, <1>3, PushedFrames
  <2>2. Len(Suspended(s)) < MAX_FLOW_STACK_DEPTH
    BY <1>3, SuspendedIsSeq DEF SuspendsAt, CanPush
  <2>3. st \in States(s.flow) /\ (State(s.flow, s.state).role = "pilot" => st = s.state)
    BY <1>3 DEF SuspendsAt, Here
  <2> QED
    BY <2>1, <2>2, <2>3
       DEF Abstract!Suspends, Abstract!IsPilot, Abstract!State, Abstract!States,
           State, States, Position
<1>4. ASSUME Resumes(s, t) PROVE Abstract!Resumes(Position(s), Position(t))
  <2>1. /\ Suspended(s) # <<>>
        /\ Suspended(t) = Front(Suspended(s))
        /\ Last(Suspended(s)) = <<Last(s.flowStack), Last(s.stateStack)>>
    BY <1>1, <1>4, PoppedFrames
  <2>2. /\ Abstract!Last(Suspended(s)) = <<Last(s.flowStack), Last(s.stateStack)>>
        /\ Abstract!Front(Suspended(s)) = Suspended(t)
    BY <2>1 DEF Abstract!Last, Abstract!Front, Last, Front
  <2> QED
    BY <1>4, <2>1, <2>2
       DEF Resumes, Abstract!Resumes, Abstract!IsPilot, Abstract!State, State, Position
<1>5. ASSUME Chains(s, t) PROVE Abstract!Chains(Position(s), Position(t))
  <2>1. Suspended(s) = <<>> /\ Suspended(t) = <<>>
    BY <1>5 DEF Chains, Suspended
  <2> QED
    BY <1>5, <2>1 DEF Chains, Abstract!Chains, Position
<1> QED
  BY <1>2, <1>3, <1>4, <1>5 DEF Reaches, Settles

LEMMA RequestRefines ==
  ASSUME IInv, IInv', Requested, session'.noChain = session.noChain
  PROVE  Abstract!Request
<1>1. Sound(session) /\ Sound(session)'
  BY DEF IInv
<1>2. session'.flow \in Slug /\ session'.state \in States(session'.flow)
  BY <1>1 DEF Sound, Positioned
<1>3. Position(saved') \in {Position(saved), Position(session')}
  BY DEF Requested
<1> QED
  BY <1>1, <1>2, <1>3, ReachesRefines
     DEF Requested, Abstract!Request, Abstract!Slug, Abstract!States, Slug, States, Position

LEMMA InitRefines == Init => Abstract!Init /\ SameChain
<1> SUFFICES ASSUME Init PROVE Abstract!Init /\ SameChain
  OBVIOUS
<1>1. PICK f \in Slug, noChain \in BOOLEAN : session = NewSession(f, noChain)
  BY DEF Init
<1>2. Suspended(session) = <<>>
  BY <1>1 DEF NewSession, Suspended
<1>3. Position(session) = Abstract!Start(f)
  BY <1>1, <1>2 DEF NewSession, Position, Abstract!Start
<1> QED
  BY <1>1, <1>3 DEF Init, NewSession, SameChain, Abstract!Init, Abstract!Slug, Slug

LEMMA NextRefines ==
  ASSUME IInv, IInv', SameChain, [Next]_vars
  PROVE  [Abstract!Next]_Abstract!vars
<1>1. session'.noChain = session.noChain
  BY ChainKept
<1>2. CASE Requested
  BY <1>1, <1>2, RequestRefines DEF Abstract!Next
<1>3. CASE session' = saved /\ saved' = saved
  BY <1>1, <1>3 DEF Abstract!Next, Abstract!Restart
<1>4. CASE UNCHANGED <<session, saved>>
  BY <1>4 DEF Abstract!vars
<1> QED
  BY <1>2, <1>3, <1>4, NextReaches

\* DecisionEngine implements TrainingSession: no sequence of requests, failed or
\* not, and no restart, moves a session in a way that TrainingSession forbids.
THEOREM Refinement == Spec => ImplementsTrainingSession
<1>1. Init => Abstract!Init /\ SameChain
  BY InitRefines
<1>2. IInv /\ SameChain /\ [Next]_vars => SameChain'
  BY ChainKept
<1>3. IInv /\ IInv' /\ SameChain /\ [Next]_vars => [Abstract!Next]_Abstract!vars
  BY NextRefines
<1>4. Spec => []IInv
  BY Soundness
<1> QED
  BY <1>1, <1>2, <1>3, <1>4, PTL DEF Spec, Abstract!Spec, ImplementsTrainingSession

(***************************************************************************)
(* What the verdict of the validator is worth: the states it calls         *)
(* unreachable are never reached, and a request loses its state only in a  *)
(* flow it calls invalid.                                                  *)
(***************************************************************************)
----------------------------------------------------------------------------
\* Transitions that stay in the flow do not leave X but to states that do not exist.
Closed(f, X) ==
  /\ X \subseteq States(f)
  /\ \A id \in X : \A e \in Staying(f, id) : e.to \in States(f) => e.to \in X

----------------------------------------------------------------------------
\* _reachable_states

LEMMA VisitGrows ==
  ASSUME NEW f, NEW X \in SUBSET States(f)
  PROVE  Visit(f, X) \in SUBSET States(f) /\ X \subseteq Visit(f, X)
BY DEF Visit

LEMMA SettledIsClosed ==
  ASSUME NEW f, NEW X \in SUBSET States(f), Visit(f, X) = X
  PROVE  Closed(f, X)
<1> SUFFICES ASSUME NEW id \in X, NEW e \in Staying(f, id), e.to \in States(f)
             PROVE  e.to \in X
  BY DEF Closed
<1>1. e \in UNION {Staying(f, i) : i \in X}
  BY Zenon
<1>2. e.to \in {x.to : x \in UNION {Staying(f, i) : i \in X}}
  BY <1>1, Zenon
<1> QED BY <1>2 DEF Visit

\* The rounds are what the recursion says.
LEMMA Rounds ==
  ASSUME NEW f \in Slug, NEW st
  PROVE  LET N == Cardinality(States(f))
         IN  /\ N \in Nat
             /\ \E r \in [0..N -> SUBSET States(f)] :
                  /\ r[0] = {st} \cap States(f)
                  /\ \A n \in 1..N : r[n] = Visit(f, r[n - 1])
                  /\ ReachableStates(f, st) = r[N]
<1> DEFINE N == Cardinality(States(f))
           S == SUBSET States(f)
           first == {st} \cap States(f)
           step == [X \in S |-> Visit(f, X)]
           Recursive(r) == r = [n \in 0..N |-> IF n = 0 THEN first ELSE Visit(f, r[n - 1])]
<1>1. N \in Nat
  BY FlowsAreFinite, FS_CardinalityType
<1>2. step \in [S -> S] /\ first \in S
  BY VisitGrows
<1> HIDE DEF N
<1>3. PICK g \in [0..N -> S] : g = [n \in 0..N |-> IF n = 0 THEN first ELSE step[g[n - 1]]]
  <2> HIDE DEF S, first, step
  <2> QED BY <1>1, <1>2, Iterates
<1>4. \A n \in 0..N : n # 0 => step[g[n - 1]] = Visit(f, g[n - 1])
  <2> TAKE n \in 0..N
  <2> HAVE n # 0
  <2>1. n - 1 \in 0..N
    BY <1>1
  <2>2. g[n - 1] \in S
    BY <2>1
  <2> QED BY <2>2
<1>5. Recursive(g)
  <2> HIDE DEF S, first, step
  <2> QED BY <1>3, <1>4
<1> DEFINE r == CHOOSE x : Recursive(x)
<1>6. Recursive(r)
  <2> HIDE DEF Recursive
  <2> QED BY <1>5
<1>7. ReachableStates(f, st) = r[N]
  BY DEF ReachableStates, N
<1> HIDE DEF r
<1>8. r[0] = first /\ \A n \in 1..N : r[n] = Visit(f, r[n - 1])
  <2> HIDE DEF first, S, step
  <2>1. \A n \in 0..N : r[n] = IF n = 0 THEN first ELSE Visit(f, r[n - 1])
    BY <1>6, Zenon
  <2>2. 0 \in 0..N /\ \A n \in 1..N : n \in 0..N /\ n # 0
    BY <1>1
  <2> QED BY <2>1, <2>2
<1>9. r \in [0..N -> S]
  <2> DEFINE P == {n \in 0..N : r[n] \in S}
  <2>1. 0 \in P
    BY <1>1, <1>2, <1>8
  <2>2. \A n \in 0..N : n \in P /\ n < N => n + 1 \in P
    <3> SUFFICES ASSUME NEW n \in 0..N, n \in P, n < N PROVE n + 1 \in P
      OBVIOUS
    <3>1. n + 1 \in 1..N /\ (n + 1) - 1 = n
      BY <1>1
    <3>2. r[n + 1] = Visit(f, r[n])
      BY <1>8, <3>1
    <3>3. r[n + 1] \in S
      BY <3>2, VisitGrows
    <3> QED BY <3>1, <3>3
  <2> HIDE DEF P
  <2>3. \A n \in 0..N : n \in P
    BY <1>1, <2>1, <2>2, UpTo
  <2>4. \A n \in 0..N : r[n] \in S
    BY <2>3 DEF P
  <2>5. r = [n \in 0..N |-> r[n]]
    BY <1>6
  <2> HIDE DEF S
  <2> QED BY <2>4, <2>5
<1> QED BY <1>1, <1>7, <1>8, <1>9 DEF N

\* As many rounds as there are states are enough.
LEMMA ReachedIsClosed ==
  ASSUME NEW f \in Slug, NEW st
  PROVE  /\ Closed(f, ReachableStates(f, st))
         /\ st \in States(f) => st \in ReachableStates(f, st)
<1> DEFINE N == Cardinality(States(f))
<1>1. N \in Nat /\ IsFiniteSet(States(f))
  BY FlowsAreFinite, FS_CardinalityType
<1>2. PICK r \in [0..N -> SUBSET States(f)] :
        /\ r[0] = {st} \cap States(f)
        /\ \A n \in 1..N : r[n] = Visit(f, r[n - 1])
        /\ ReachableStates(f, st) = r[N]
  BY Rounds
<1>3. \A n \in 0..N : IsFiniteSet(r[n]) /\ Cardinality(r[n]) \in Nat
  BY <1>1, <1>2, FS_Subset, FS_CardinalityType
<1> DEFINE P == {n \in 0..N : /\ {st} \cap States(f) \subseteq r[n]
                              /\ Visit(f, r[n]) = r[n] \/ Cardinality(r[n]) > n}
<1>4. 0 \in P
  <2>1. CASE st \in States(f)
    <3>1. r[0] = {st}
      BY <1>2, <2>1
    <3>2. Cardinality(r[0]) = 1
      BY <3>1, FS_Singleton
    <3> HIDE DEF N
    <3>3. 0 \in 0..N /\ Cardinality(r[0]) > 0
      BY <1>1, <3>2
    <3> QED BY <3>1, <3>3
  <2>2. CASE st \notin States(f)
    <3>1. r[0] = {}
      BY <1>2, <2>2
    <3>2. Visit(f, {}) = {}
      BY DEF Visit
    <3> QED BY <1>1, <2>2, <3>1, <3>2
  <2> QED BY <2>1, <2>2
<1>5. ASSUME NEW n \in 0..N, n \in P, n < N PROVE n + 1 \in P
  <2>1. n + 1 \in 0..N /\ n + 1 \in 1..N /\ (n + 1) - 1 = n
    BY <1>1, <1>5
  <2>2. r[n + 1] = Visit(f, r[n])
    BY <1>2, <2>1
  <2>3. r[n] \subseteq r[n + 1]
    BY <2>2, VisitGrows
  <2>4. {st} \cap States(f) \subseteq r[n + 1]
    BY <1>5, <2>3
  <2>5. CASE Visit(f, r[n]) = r[n]
    <3>1. Visit(f, r[n + 1]) = r[n + 1]
      BY <2>2, <2>5
    <3> QED BY <2>1, <2>4, <3>1
  <2>6. CASE Visit(f, r[n]) # r[n] /\ Cardinality(r[n]) > n
    <3>1. Cardinality(r[n]) <= Cardinality(r[n + 1]) /\ Cardinality(r[n]) # Cardinality(r[n + 1])
      BY <1>3, <2>1, <2>2, <2>3, <2>6, FS_Subset
    <3>2. Cardinality(r[n + 1]) > n + 1
      BY <1>3, <2>1, <2>6, <3>1
    <3> QED BY <2>1, <2>4, <3>2
  <2> QED BY <1>5, <2>5, <2>6
<1>6. N \in P
  <2> HIDE DEF P, N
  <2>1. \A n \in 0..N : n \in P
    BY <1>1, <1>4, <1>5, UpTo
  <2> QED BY <1>1, <2>1
<1>7. Cardinality(r[N]) <= N
  BY <1>1, <1>2, FS_Subset
<1>8. Visit(f, r[N]) = r[N]
  BY <1>1, <1>3, <1>6, <1>7
<1> QED BY <1>1, <1>2, <1>6, <1>8, SettledIsClosed

----------------------------------------------------------------------------
\* The walk through states that are not the pilot's

\* Every transition of f, and every state one names.
EdgesIn(f) == UNION {Transitions(State(f, id)) : id \in States(f)}
Named(f) == States(f) \cup {e.to : e \in EdgesIn(f)}

WalkStatus == {"walking", "rest", "loop", "missing"}
Walks(f) == [at : Named(f), path : Seq(EdgesIn(f)), status : WalkStatus]

LEMMA SilentIsListed ==
  ASSUME NEW f \in Slug, NEW st \in States(f), NEW env
  PROVE  LET e == FindAutoTransition(f, st, env)
         IN  \/ e = None
             \/ /\ e \in Transitions(State(f, st))
                /\ e \in ToSet(State(f, st).auto)
                /\ e.telemetry = None
<1> DEFINE s == [flow |-> f, state |-> st]
           auto == State(f, st).auto
           hits == AutoHits(f, st, env)
<1>1. InFlow(s) /\ Here(s) = State(f, st)
  BY DEF InFlow, Here
<1>2. auto \in TransitionLists(Here(s))
  BY <1>1 DEF TransitionLists
<1> HIDE DEF s
<1>3. hits \subseteq DOMAIN auto /\ \A i \in hits : auto[i].telemetry = None
  BY DEF AutoHits
<1>4. DOMAIN auto \subseteq Nat /\ ToSet(auto) \subseteq Transitions(State(f, st))
  BY <1>1, <1>2, Listed
<1>5. CASE hits = {}
  BY <1>5 DEF FindAutoTransition, First
<1>6. CASE hits # {}
  <2> HIDE DEF hits, auto
  <2>1. Min(hits) \in hits
    BY <1>3, <1>4, <1>6, MinIsLeast
  <2>2. auto[Min(hits)] \in ToSet(auto)
    BY <1>3, <2>1 DEF ToSet
  <2>3. FindAutoTransition(f, st, env) = auto[Min(hits)]
    BY <1>6 DEF FindAutoTransition, First, hits, auto
  <2> QED BY <1>3, <1>4, <2>1, <2>2, <2>3 DEF auto
<1> QED BY <1>5, <1>6

LEMMA SilentStays ==
  ASSUME SilenceStays, NEW f \in Slug, NEW st \in States(f), NEW env,
         FindAutoTransition(f, st, env) # None
  PROVE  FindAutoTransition(f, st, env) \in Staying(f, st)
BY SilentIsListed DEF SilenceStays, Staying, AllTransitions

\* One hop stays where hops can lead.
LEMMA HopWalks ==
  ASSUME NEW f \in Slug, NEW start, NEW env, NEW w \in Walks(f)
  PROVE  Hop(f, start, env, w) \in Walks(f)
<1> DEFINE next == FindAutoTransition(f, w.at, env)
<1>1. \A why \in WalkStatus : [w EXCEPT !.status = why] \in Walks(f)
  BY DEF Walks
<1>2. ASSUME w.at \in States(f), next # None
      PROVE  [w EXCEPT !.at = next.to, !.path = Append(w.path, next)] \in Walks(f)
  <2>1. next \in Transitions(State(f, w.at))
    BY <1>2, SilentIsListed
  <2>2. next \in EdgesIn(f)
    BY <1>2, <2>1 DEF EdgesIn
  <2> HIDE DEF next
  <2>3. next.to \in Named(f)
    BY <2>2 DEF Named
  <2>4. Append(w.path, next) \in Seq(EdgesIn(f))
    BY <2>2, AppendProperties DEF Walks
  <2> QED BY <2>3, <2>4 DEF Walks
<1> HIDE DEF next
<1>3. Take(f, start, w, next) \in Walks(f)
  BY <1>1, <1>2 DEF Take, WalkStatus
<1> QED BY <1>3 DEF Hop, next

LEMMA WalkExists ==
  ASSUME NEW f \in Slug, NEW start \in States(f), NEW env
  PROVE  \E g \in [0..MAX_HOPS -> Walks(f)] :
           /\ g[0] = [at |-> start, path |-> <<>>, status |-> "walking"]
           /\ \A n \in 1..MAX_HOPS : g[n] = Hop(f, start, env, g[n - 1])
           /\ AdvanceThroughNonPilot(f, start, env) = Arrived(f, g[MAX_HOPS])
<1> DEFINE N == MAX_HOPS
           S == Walks(f)
           first == [at |-> start, path |-> <<>>, status |-> "walking"]
           step == [w \in S |-> Hop(f, start, env, w)]
           Recursive(g) ==
             g = [n \in 0..N |-> IF n = 0 THEN first ELSE Hop(f, start, env, g[n - 1])]
<1>1. N \in Nat
  BY DEF MAX_HOPS
<1>2. step \in [S -> S] /\ first \in S
  BY HopWalks DEF Walks, WalkStatus, Named
<1> HIDE DEF N
<1>3. PICK g \in [0..N -> S] : g = [n \in 0..N |-> IF n = 0 THEN first ELSE step[g[n - 1]]]
  <2> HIDE DEF S, first, step
  <2> QED BY <1>1, <1>2, Iterates
<1>4. \A n \in 0..N : n # 0 => step[g[n - 1]] = Hop(f, start, env, g[n - 1])
  <2> TAKE n \in 0..N
  <2> HAVE n # 0
  <2>1. n - 1 \in 0..N
    BY <1>1
  <2>2. g[n - 1] \in S
    BY <2>1
  <2> QED BY <2>2
<1>5. Recursive(g)
  <2> HIDE DEF S, first, step
  <2> QED BY <1>3, <1>4
<1> DEFINE r == CHOOSE x : Recursive(x)
<1>6. Recursive(r)
  <2> HIDE DEF Recursive
  <2> QED BY <1>5
<1>7. AdvanceThroughNonPilot(f, start, env) = Arrived(f, r[N])
  BY DEF AdvanceThroughNonPilot, N
<1> HIDE DEF r
<1>8. r[0] = first /\ \A n \in 1..N : r[n] = Hop(f, start, env, r[n - 1])
  <2> HIDE DEF first, S, step
  <2>1. \A n \in 0..N : r[n] = IF n = 0 THEN first ELSE Hop(f, start, env, r[n - 1])
    BY <1>6, Zenon
  <2>2. 0 \in 0..N /\ \A n \in 1..N : n \in 0..N /\ n # 0
    BY <1>1
  <2> QED BY <2>1, <2>2
<1>9. r \in [0..N -> S]
  <2> DEFINE P == {n \in 0..N : r[n] \in S}
  <2> HIDE DEF S, first, step
  <2>1. 0 \in P
    BY <1>1, <1>2, <1>8
  <2>2. \A n \in 0..N : n \in P /\ n < N => n + 1 \in P
    <3> SUFFICES ASSUME NEW n \in 0..N, n \in P, n < N PROVE n + 1 \in P
      OBVIOUS
    <3>1. n + 1 \in 1..N /\ (n + 1) - 1 = n /\ n + 1 \in 0..N
      BY <1>1
    <3>2. r[n + 1] = Hop(f, start, env, r[n])
      BY <1>8, <3>1
    <3>3. r[n + 1] \in S
      BY <3>2, HopWalks DEF S
    <3> QED BY <3>1, <3>3
  <2> HIDE DEF P
  <2>3. \A n \in 0..N : n \in P
    BY <1>1, <2>1, <2>2, UpTo
  <2>4. \A n \in 0..N : r[n] \in S
    BY <2>3 DEF P
  <2>5. r = [n \in 0..N |-> r[n]]
    BY <1>6
  <2> QED BY <2>4, <2>5
<1> QED BY <1>7, <1>8, <1>9 DEF N

\* A walk that starts in X is in X, or at a state that does not exist.
Within(f, X, w) ==
  /\ w.at \in X \/ (w.at \notin States(f) /\ MissingTargets(f) # {})
  /\ w.status = "missing" => w.at \notin States(f)

LEMMA HopWithin ==
  ASSUME SilenceStays, NEW f \in Slug, NEW X, Closed(f, X), NEW start, NEW env,
         NEW w \in Walks(f), Within(f, X, w)
  PROVE  Within(f, X, Hop(f, start, env, w))
<1> DEFINE next == FindAutoTransition(f, w.at, env)
<1>1. \A why : why # "missing" \/ w.at \notin States(f) =>
              Within(f, X, [w EXCEPT !.status = why])
  BY DEF Within, Walks
<1>2. ASSUME w.at \in States(f), next # None, w.status = "walking"
      PROVE  Within(f, X, [w EXCEPT !.at = next.to, !.path = Append(w.path, next)])
  <2>1. next \in Staying(f, w.at)
    BY <1>2, SilentStays
  <2> HIDE DEF next
  <2>2. next.to \in X \/ (next.to \notin States(f) /\ MissingTargets(f) # {})
    <3>1. w.at \in X
      BY <1>2 DEF Within
    <3>2. CASE next.to \in States(f)
      BY <2>1, <3>1, <3>2 DEF Closed
    <3>3. CASE next.to \notin States(f)
      BY <1>2, <2>1, <3>3 DEF MissingTargets
    <3> QED BY <3>2, <3>3
  <2> QED BY <1>2, <2>2 DEF Within, Walks
<1> HIDE DEF next
<1>3. w.status = "walking" => Within(f, X, Take(f, start, w, next))
  BY <1>1, <1>2 DEF Take
<1> QED BY <1>3 DEF Hop, next

LEMMA WalkWithin ==
  ASSUME SilenceStays, NEW f \in Slug, NEW X, Closed(f, X), NEW start \in X, NEW env
  PROVE  LET w == AdvanceThroughNonPilot(f, start, env)
         IN  /\ w.status = "rest" => w.at \in X
             /\ w.status \in {"rest", "loop"} \/ MissingTargets(f) # {}
<1> DEFINE N == MAX_HOPS
<1>1. N \in Nat /\ start \in States(f)
  BY DEF MAX_HOPS, Closed
<1>2. PICK g \in [0..N -> Walks(f)] :
        /\ g[0] = [at |-> start, path |-> <<>>, status |-> "walking"]
        /\ \A n \in 1..N : g[n] = Hop(f, start, env, g[n - 1])
        /\ AdvanceThroughNonPilot(f, start, env) = Arrived(f, g[N])
  BY <1>1, WalkExists
<1> HIDE DEF N
<1> DEFINE P == {n \in 0..N : Within(f, X, g[n])}
<1>3. 0 \in P
  BY <1>1, <1>2 DEF Within
<1>4. ASSUME NEW n \in 0..N, n \in P, n < N PROVE n + 1 \in P
  <2>1. n + 1 \in 1..N /\ (n + 1) - 1 = n /\ n + 1 \in 0..N
    BY <1>1, <1>4
  <2>2. g[n + 1] = Hop(f, start, env, g[n])
    BY <1>2, <2>1
  <2>3. Within(f, X, g[n + 1])
    BY <1>4, <2>2, HopWithin
  <2> QED BY <2>1, <2>3
<1>5. N \in P
  <2> HIDE DEF P
  <2>1. \A n \in 0..N : n \in P
    BY <1>1, <1>3, <1>4, UpTo
  <2> QED BY <1>1, <2>1
<1>6. g[N] \in Walks(f)
  BY <1>1, <1>2
<1>7. Within(f, X, g[N])
  BY <1>5
<1>8. ASSUME NEW v \in Walks(f), Within(f, X, v)
      PROVE  /\ Arrived(f, v).status = "rest" => Arrived(f, v).at \in X
             /\ Arrived(f, v).status \in {"rest", "loop"} \/ MissingTargets(f) # {}
  <2>1. v.status \in WalkStatus
    BY <1>8 DEF Walks
  <2>2. Arrived(f, v).at = v.at
    BY DEF Arrived
  <2>3. Arrived(f, v).status = IF v.status = "walking" THEN "loop"
                               ELSE IF v.at \in States(f) THEN v.status ELSE "missing"
    BY DEF Arrived
  <2>4. CASE v.at \in States(f)
    BY <1>8, <2>1, <2>2, <2>3, <2>4 DEF Within, WalkStatus
  <2>5. CASE v.at \notin States(f)
    BY <1>8, <2>1, <2>2, <2>3, <2>5 DEF Within, Closed
  <2> QED BY <2>4, <2>5
<1> QED BY <1>2, <1>6, <1>7, <1>8

----------------------------------------------------------------------------
\* Where a session may enter a flow

LEMMA EnteredIsClosed ==
  ASSUME NEW f \in Slug
  PROVE  Closed(f, Entered[f])
<1> DEFINE start == Flow[f].start
<1>1. Entered[f] = States(f) \cap (ReachableStates(f, start)
                                     \cup UNION {ReachableStates(f, e) : e \in EntryOf(f)})
  BY DEF Entered
<1> SUFFICES ASSUME NEW id \in Entered[f], NEW e \in Staying(f, id), e.to \in States(f)
             PROVE  e.to \in Entered[f]
  BY <1>1 DEF Closed
<1>2. PICK st : /\ id \in ReachableStates(f, st)
                /\ ReachableStates(f, st) \cap States(f) \subseteq Entered[f]
  <2>1. CASE id \in ReachableStates(f, start)
    BY <1>1, <2>1
  <2>2. CASE id \in UNION {ReachableStates(f, x) : x \in EntryOf(f)}
    <3>1. PICK x \in EntryOf(f) : id \in ReachableStates(f, x)
      BY <2>2
    <3>2. ReachableStates(f, x) \subseteq UNION {ReachableStates(f, y) : y \in EntryOf(f)}
      BY <3>1, Zenon
    <3> QED BY <1>1, <3>1, <3>2
  <2> QED BY <1>1, <2>1, <2>2
<1>3. Closed(f, ReachableStates(f, st))
  BY ReachedIsClosed
<1>4. e.to \in ReachableStates(f, st)
  BY <1>2, <1>3 DEF Closed
<1> QED BY <1>2, <1>4

LEMMA StartIsEntered ==
  ASSUME NEW f \in Slug
  PROVE  Flow[f].start \in Entered[f]
BY FlowsWellFormed, ReachedIsClosed DEF Entered

LEMMA EntryIsEntered ==
  ASSUME NEW f \in Slug, NEW st \in EntryOf(f), st \in States(f)
  PROVE  st \in Entered[f]
<1>1. st \in ReachableStates(f, st)
  BY ReachedIsClosed
<1>2. ReachableStates(f, st) \subseteq UNION {ReachableStates(f, x) : x \in EntryOf(f)}
  BY Zenon
<1> QED BY <1>1, <1>2 DEF Entered

----------------------------------------------------------------------------
\* The requests

\* A session at states the validator knows to be reachable, in every flow it is in.
Inside(s) ==
  /\ s.state \in Entered[s.flow]
  /\ \A i \in DOMAIN s.flowStack : s.stateStack[i] \in Entered[s.flowStack[i]]

\* An outcome that lost its state only where the validator reported it, or after a
\* transition e that interrupts.
Told(r, e) ==
  r.status = "not_found" => HasErrors(r.s.flow) \/ (e # None /\ e.interrupt # None)

Safe(r, e) == SoundOutcome(r) /\ Inside(r.s) /\ Told(r, e)

LEMMA SameIsInside ==
  ASSUME NEW s, Inside(s), NEW t, t.flow = s.flow, t.state = s.state, SameStacks(s, t)
  PROVE  Inside(t)
BY DEF Inside, SameStacks

LEMMA OkIsSafe == ASSUME NEW s, Sound(s), Inside(s), NEW e PROVE Safe(Ok(s), e)
BY OkIsSound DEF Safe, Told, Ok

LEMMA RaiseIsSafe ==
  ASSUME NEW s, Sound(s), Inside(s), NEW e, NEW status \in Status \ {"not_found"}
  PROVE  Safe(Raise(s, status), e)
BY RaiseIsSound DEF Safe, Told, Raise

LEMMA WalkedIsSafe ==
  ASSUME SilenceStays, NEW s, Sound(s), Inside(s), NEW e, NEW t,
         NEW w, w = AdvanceThroughNonPilot(s.flow, s.state, s.env),
         w.status = "rest" => Sound(t) /\ t.flow = s.flow /\ t.state = w.at /\ SameStacks(s, t)
  PROVE  Safe(Walked(s, w, t), e)
<1>1. s.flow \in Slug /\ s.state \in Entered[s.flow]
  BY DEF Sound, Positioned, Inside
<1>2. Closed(s.flow, Entered[s.flow])
  BY <1>1, EnteredIsClosed
<1>3. /\ w.status = "rest" => w.at \in Entered[s.flow]
      /\ w.status \in {"rest", "loop"} \/ MissingTargets(s.flow) # {}
  BY <1>1, <1>2, WalkWithin
<1>4. CASE w.status = "rest"
  <2>1. Inside(t)
    BY <1>3, <1>4 DEF Inside, SameStacks
  <2> QED BY <1>4, <2>1, OkIsSafe DEF Walked
<1>5. CASE w.status = "loop"
  BY <1>5, RaiseIsSafe DEF Walked, Status
<1>6. CASE w.status \notin {"rest", "loop"}
  <2>1. Walked(s, w, t) = Raise(s, "not_found")
    BY <1>6 DEF Walked
  <2>2. HasErrors(s.flow)
    BY <1>3, <1>6 DEF HasErrors
  <2>3. SoundOutcome(Raise(s, "not_found"))
    BY RaiseIsSound DEF Status
  <2> QED BY <2>1, <2>2, <2>3 DEF Safe, Told, Raise
<1> QED BY <1>4, <1>5, <1>6

LEMMA AdvanceIsSafe ==
  ASSUME SilenceStays, NEW s, Sound(s), Inside(s), NEW e
  PROVE  Safe(Advance(s), e)
<1> DEFINE w == AdvanceThroughNonPilot(s.flow, s.state, s.env)
           t == [s EXCEPT !.state = w.at, !.env = RunActions(s.env, w.path)]
<1>1. Advance(s) \in {Ok(s), Walked(s, w, t)}
  BY DEF Advance
<1>2. w.status = "rest" => w.at \in States(s.flow)
  BY WalkRests
<1> HIDE DEF w
<1>3. w.status = "rest" => Sound(t)
  BY <1>2, MoveIsSound
<1>4. t.flow = s.flow /\ t.state = w.at /\ SameStacks(s, t)
  BY DEF Sound, Fields, SameStacks
<1> HIDE DEF t
<1>5. Safe(Walked(s, w, t), e)
  BY <1>3, <1>4, WalkedIsSafe DEF w
<1> QED BY <1>1, <1>5, OkIsSafe

LEMMA CompletionIsInside ==
  ASSUME NEW s, Sound(s), Inside(s)
  PROVE  Inside(HandleFlowCompletion(s, s.flow))
<1>1. CASE s.flowStack # <<>>
  <2> DEFINE t == PopFlow(s)
             n == Len(s.flowStack)
  <2>1. /\ s.flowStack \in Seq(Slug) /\ s.stateStack \in Seq(StateId)
        /\ Len(s.stateStack) = n /\ n \in Nat \ {0} /\ DOMAIN s.flowStack = 1..n
        /\ s.stateStack # <<>>
    BY <1>1, EmptySeq, LenProperties DEF Sound, Positioned
  <2>2. /\ t.flow = Last(s.flowStack) /\ t.state = Last(s.stateStack)
        /\ t.flowStack = Front(s.flowStack) /\ t.stateStack = Front(s.stateStack)
    BY DEF PopFlow, Sound, Fields
  <2>3. t.flow = s.flowStack[n] /\ t.state = s.stateStack[n]
    BY <2>1, <2>2 DEF Last
  <2>4. /\ t.flowStack \in Seq(Slug) /\ Len(t.flowStack) = n - 1
        /\ \A i \in 1..(n - 1) : /\ t.flowStack[i] = s.flowStack[i]
                                 /\ t.stateStack[i] = s.stateStack[i]
    BY <1>1, <2>1, <2>2, FrontOfSeq
  <2>5. DOMAIN t.flowStack = 1..(n - 1)
    BY <2>4, LenProperties
  <2> HIDE DEF t, n
  <2>6. Inside(t)
    BY <2>1, <2>3, <2>4, <2>5 DEF Inside
  <2> QED BY <1>1, <2>6 DEF HandleFlowCompletion, t
<1>2. CASE s.flowStack = <<>>
  <2>1. ASSUME NEW next \in Slug PROVE Inside(ChainFlow(s, next))
    <3>1. /\ ChainFlow(s, next).flow = next
          /\ ChainFlow(s, next).state = Flow[next].start
          /\ ChainFlow(s, next).flowStack = <<>>
      BY DEF ChainFlow, ReplaceFlow, Sound, Fields
    <3> QED BY <3>1, StartIsEntered DEF Inside
  <2> QED BY <1>2, <2>1 DEF HandleFlowCompletion, CanChain
<1> QED BY <1>1, <1>2

LEMMA SettleIsSafe ==
  ASSUME SilenceStays, NEW s, Sound(s), Inside(s), NEW e
  PROVE  Safe(Settle(s), e)
<1>1. ASSUME NEW t, Sound(t), Inside(t) PROVE Safe(Complete(t), e)
  <2> DEFINE c == HandleFlowCompletion(t, t.flow)
  <2>1. Sound(c) /\ Inside(c)
    BY <1>1, CompletionIsSound, CompletionIsInside
  <2> QED BY <2>1, OkIsSafe, AdvanceIsSafe DEF Complete
<1>2. Safe(Advance(s), e)
  BY AdvanceIsSafe
<1> QED BY <1>1, <1>2 DEF Settle, Safe, SoundOutcome

\* A transition that leads where the validator looked.
Leads(s, e) ==
  /\ e.interrupt = None =>
       \/ e.to \in Entered[s.flow]
       \/ e.to \notin States(s.flow) /\ MissingTargets(s.flow) # {}
  /\ e.interrupt # None =>
       IF e.interrupt \in Slug /\ e.to \in States(e.interrupt)
         THEN e.to \in Entered[e.interrupt]
         ELSE e # None

LEMMA ListedLeads ==
  ASSUME NEW s, Sound(s), Inside(s), NEW e \in Transitions(Here(s))
  PROVE  Leads(s, e)
<1>1. s.flow \in Slug /\ s.state \in States(s.flow) /\ s.state \in Entered[s.flow]
  BY DEF Sound, Positioned, Inside
<1>2. e \in AllTransitions(s.flow, s.state)
  BY DEF AllTransitions, Here
<1>3. ASSUME e.interrupt = None
      PROVE  \/ e.to \in Entered[s.flow]
             \/ e.to \notin States(s.flow) /\ MissingTargets(s.flow) # {}
  <2>1. e \in Staying(s.flow, s.state)
    BY <1>2, <1>3 DEF Staying
  <2> QED BY <1>1, <2>1, EnteredIsClosed DEF Closed, MissingTargets
<1>4. ASSUME e.interrupt # None, e.interrupt \in Slug, e.to \in States(e.interrupt)
      PROVE  e.to \in Entered[e.interrupt]
  <2>1. e \in EveryTransition
    <3>1. e \in UNION {AllTransitions(s.flow, id) : id \in States(s.flow)}
      BY <1>1, <1>2, Zenon
    <3> QED BY <1>1, <3>1, Zenon DEF EveryTransition
  <2>2. e.to \in {x.to : x \in {y \in EveryTransition : y.interrupt = e.interrupt}}
    BY <2>1, Zenon
  <2>3. e.to \in EntryOf(e.interrupt)
    BY <2>2 DEF EntryOf
  <2> QED BY <1>4, <2>3, EntryIsEntered
<1>5. e # None
  BY <1>1, TransitionsAreLists DEF Here
<1> QED BY <1>3, <1>4, <1>5 DEF Leads

LEMMA FollowIsSafe ==
  ASSUME SilenceStays, NEW s, Sound(s), Inside(s), NEW e, Leads(s, e)
  PROVE  Safe(Follow(s, e), e)
<1> DEFINE f == IF e.interrupt = None THEN s.flow ELSE e.interrupt
           t == IF e.interrupt = None THEN [s EXCEPT !.state = e.to]
                                      ELSE PushFlow(s, f, e.to)
           u == [t EXCEPT !.env = RunActions(t.env, <<e>>)]
<1>1. CASE f \notin Slug \/ e.to \notin States(f)
  <2>1. Follow(s, e) = Raise(s, "not_found")
    BY <1>1 DEF Follow
  <2>2. SoundOutcome(Follow(s, e))
    BY FollowIsSound
  <2>3. s.flow \in Slug
    BY DEF Sound, Positioned
  <2>4. e.interrupt = None => e.to \notin States(s.flow)
    BY <1>1, <2>3
  <2>5. s.flow \in Slug => Entered[s.flow] \subseteq States(s.flow)
    BY EnteredIsClosed DEF Closed
  <2>6. HasErrors(s.flow) \/ (e # None /\ e.interrupt # None)
    BY <1>1, <2>3, <2>4, <2>5 DEF Leads, HasErrors
  <2> QED BY <2>1, <2>2, <2>6 DEF Safe, Told, Raise
<1>2. CASE f \in Slug /\ e.to \in States(f) /\ e.interrupt # None /\ ~CanPush(s)
  BY <1>2, RaiseIsSafe DEF Follow, Status
<1>3. CASE f \in Slug /\ e.to \in States(f) /\ (e.interrupt = None \/ CanPush(s))
  <2>1. Sound(t) /\ Inside(t)
    <3>1. CASE e.interrupt = None
      <4>1. Sound(t)
        BY <1>3, <3>1 DEF Sound, Positioned, Fields
      <4>2. /\ t.flow = s.flow /\ t.state = e.to
            /\ t.flowStack = s.flowStack /\ t.stateStack = s.stateStack
        BY <3>1 DEF Sound, Fields
      <4> QED BY <1>3, <3>1, <4>1, <4>2 DEF Inside, Leads
    <3>2. CASE e.interrupt # None
      <4>1. Sound(t)
        BY <1>3, <3>2, PushIsSound
      <4>2. /\ t.flow = e.interrupt /\ t.state = e.to
            /\ t.flowStack = Append(s.flowStack, s.flow)
            /\ t.stateStack = Append(s.stateStack, s.state)
        BY <3>2 DEF PushFlow, Sound, Fields
      <4> HIDE DEF t
      <4> DEFINE n == Len(s.flowStack)
      <4>3. /\ s.flow \in Slug /\ s.state \in StateId
            /\ s.flowStack \in Seq(Slug) /\ s.stateStack \in Seq(StateId)
            /\ Len(s.stateStack) = n /\ n \in Nat
        BY StateIds, LenProperties DEF Sound, Positioned
      <4>4. /\ t.flowStack \in Seq(Slug) /\ Len(t.flowStack) = n + 1
            /\ t.flowStack[n + 1] = s.flow
            /\ \A i \in 1..n : t.flowStack[i] = s.flowStack[i]
        BY <4>2, <4>3, AppendProperties
      <4>5. /\ t.stateStack[n + 1] = s.state
            /\ \A i \in 1..n : t.stateStack[i] = s.stateStack[i]
        BY <4>2, <4>3, AppendProperties
      <4>6. DOMAIN t.flowStack = 1..(n + 1) /\ DOMAIN s.flowStack = 1..n
        BY <4>3, <4>4, LenProperties
      <4>7. ASSUME NEW i \in 1..(n + 1) PROVE t.stateStack[i] \in Entered[t.flowStack[i]]
        <5> HIDE DEF n
        <5>1. CASE i = n + 1
          BY <4>4, <4>5, <5>1 DEF Inside
        <5>2. CASE i \in 1..n
          BY <4>4, <4>5, <4>6, <5>2 DEF Inside
        <5> QED BY <4>3, <5>1, <5>2
      <4>8. t.state \in Entered[t.flow]
        BY <1>3, <3>2, <4>2 DEF Leads
      <4> QED BY <4>1, <4>6, <4>7, <4>8 DEF Inside
    <3> QED BY <3>1, <3>2
  <2>2. Follow(s, e) = Settle(u)
    BY <1>3 DEF Follow
  <2> HIDE DEF t
  <2>3. Sound(u)
    BY <2>1 DEF Sound, Positioned, Fields
  <2>4. u.flow = t.flow /\ u.state = t.state /\ SameStacks(t, u)
    BY <2>1 DEF Sound, Fields, SameStacks
  <2> HIDE DEF u
  <2>5. Inside(u)
    BY <2>1, <2>4, SameIsInside
  <2> QED BY <2>2, <2>3, <2>5, SettleIsSafe
<1> QED BY <1>1, <1>2, <1>3

\* The session a request has before it follows a transition.
LEMMA ReceiveIsSafe ==
  ASSUME SilenceStays, NEW s, Sound(s), Inside(s), NEW e
  PROVE  Safe(Receive(s), e)
<1> DEFINE w == AdvanceThroughNonPilot(s.flow, s.state, s.env)
           t == [s EXCEPT !.state = w.at]
<1>1. s.state \in States(s.flow)
  BY DEF Sound, Positioned
<1>2. Receive(s) \in {Raise(s, "unprocessable"), Ok(s), Walked(s, w, t)}
  BY <1>1 DEF Receive
<1>3. w.status = "rest" => w.at \in States(s.flow)
  BY WalkRests
<1> HIDE DEF w
<1>4. w.status = "rest" => Sound(t)
  BY <1>3 DEF Sound, Positioned, Fields
<1>5. t.flow = s.flow /\ t.state = w.at /\ SameStacks(s, t)
  BY DEF Sound, Fields, SameStacks
<1> HIDE DEF t
<1>6. Safe(Walked(s, w, t), e)
  BY <1>4, <1>5, WalkedIsSafe DEF w
<1>7. Safe(Raise(s, "unprocessable"), e)
  BY RaiseIsSafe DEF Status
<1> QED BY <1>2, <1>6, <1>7, OkIsSafe

VInv ==
  /\ IInv
  /\ Inside(session)
  /\ Inside(saved)
  /\ Told([s |-> session, status |-> reply.status], reply.edge)

\* The session is answered from a safe outcome.
Answers == \E r, reason, edge : Safe(r, edge) /\ Respond(r, reason, edge)

LEMMA RejectAnswers ==
  ASSUME SilenceStays, VInv, Reject
  PROVE  Answers
<1>1. Safe(Receive(session), None)
  BY ReceiveIsSafe DEF VInv, IInv
<1>2. Respond(Receive(session), "rejected", None)
  BY DEF Reject
<1> QED BY <1>1, <1>2 DEF Answers

LEMMA RouteAnswers ==
  ASSUME SilenceStays, NEW u, NEW s, Sound(s), Inside(s), Route(u, s)
  PROVE  Answers
<1>1. PICK c \in Selections(u, s), correct \in BOOLEAN :
        LET g == EvaluateReadback(s, c, correct)
            e == HardFallback(g.s, g.edge)
        IN  Respond(IF e = None THEN Raise(g.s, "unprocessable") ELSE Follow(g.s, e),
                    c.reason, e)
  BY DEF Route
<1> DEFINE g == EvaluateReadback(s, c, correct)
           e == HardFallback(g.s, g.edge)
           r == IF e = None THEN Raise(g.s, "unprocessable") ELSE Follow(g.s, e)
<1>2. InFlow(s) /\ DOMAIN s = Fields
  BY DEF InFlow, Sound, Positioned
<1>3. c.edge \in Transitions(Here(s)) \cup {None}
  BY <1>2, SelectionIsListed, RescueIsListed DEF Selections
<1>4. e \in Transitions(Here(s)) \cup {None}
  BY <1>2, <1>3, ReadbackIsListed
<1>5. Sound(g.s)
  BY ReadbackIsSound
<1>6. Here(g.s) = Here(s) /\ g.s.flow = s.flow /\ g.s.state = s.state /\ SameStacks(s, g.s)
  BY <1>2 DEF EvaluateReadback, Here, Fields, SameStacks
<1>7. Respond(r, c.reason, e)
  BY <1>1
<1> HIDE DEF g, e
<1>8. Inside(g.s)
  BY <1>6, SameIsInside
<1>9. Safe(r, e)
  <2>1. CASE e = None
    <3>1. Safe(Raise(g.s, "unprocessable"), e)
      BY <1>5, <1>8, RaiseIsSafe DEF Status
    <3> QED BY <2>1, <3>1
  <2>2. CASE e # None
    <3>1. Leads(g.s, e)
      BY <1>4, <1>5, <1>6, <1>8, <2>2, ListedLeads
    <3>2. Safe(Follow(g.s, e), e)
      BY <1>5, <1>8, <3>1, FollowIsSafe
    <3> QED BY <2>2, <3>2
  <2> QED BY <2>1, <2>2
<1> HIDE DEF r
<1> QED BY <1>7, <1>9 DEF Answers

LEMMA TransmitAnswers ==
  ASSUME SilenceStays, VInv, NEW u \in Utterance, Transmit(u)
  PROVE  Answers
<1> DEFINE s == Receive(session).s
<1>1. Sound(s) /\ Inside(s)
  BY ReceiveIsSafe DEF VInv, IInv, Safe, SoundOutcome
<1> HIDE DEF s
<1>2. \A b \in BOOLEAN : Sound([s EXCEPT !.distress = b]) /\ Inside([s EXCEPT !.distress = b])
  <2> TAKE b \in BOOLEAN
  <2> DEFINE d == [s EXCEPT !.distress = b]
  <2>1. Sound(d) /\ d.flow = s.flow /\ d.state = s.state /\ SameStacks(s, d)
    BY <1>1 DEF Sound, Positioned, Fields, SameStacks
  <2> QED BY <1>1, <2>1, SameIsInside
<1>3. CASE DeclareEmergency(u, s)
  <2> DEFINE d == [s EXCEPT !.distress = TRUE]
  <2>1. EmergencyFlow \in Slug /\ EmergencyEntry \in States(EmergencyFlow)
    BY <1>3 DEF DeclareEmergency, IsMayday
  <2>2. EmergencyEntry \in Entered[EmergencyFlow]
    BY <2>1, EntryIsEntered DEF EntryOf
  <2>3. Leads(d, MaydayEdge)
    BY <2>1, <2>2, FlowsWellFormed DEF Leads, MaydayEdge
  <2>4. Safe(Follow(d, MaydayEdge), MaydayEdge)
    BY <1>2, <2>3, FollowIsSafe
  <2>5. Respond(Follow(d, MaydayEdge), "emergency_override", MaydayEdge)
    BY <1>3 DEF DeclareEmergency
  <2> HIDE DEF d
  <2> QED BY <2>4, <2>5 DEF Answers
<1>4. CASE CancelEmergency(u, s)
  <2> DEFINE d == [s EXCEPT !.distress = FALSE]
  <2>1. Safe(Ok(d), None)
    BY <1>2, OkIsSafe
  <2>2. Respond(Ok(d), "emergency_cancel", None)
    BY <1>4 DEF CancelEmergency
  <2> HIDE DEF d
  <2> QED BY <2>1, <2>2 DEF Answers
<1>5. CASE Greet(u, s)
  BY <1>1, <1>5, OkIsSafe DEF Greet, Answers
<1>6. CASE Route(u, s)
  BY <1>1, <1>6, RouteAnswers
<1> QED BY <1>3, <1>4, <1>5, <1>6 DEF Transmit, s

\* Silence takes a transition of the state that does not interrupt.
LEMMA SilenceLeads ==
  ASSUME SilenceStays, NEW s, Sound(s), Inside(s),
         NEW e, e = SilenceEdge(Here(s), s.env), e # None
  PROVE  /\ Leads(s, [e EXCEPT !.interrupt = None])
         /\ [e EXCEPT !.interrupt = None].interrupt = None
<1> DEFINE x == [e EXCEPT !.interrupt = None]
           auto == Here(s).auto
<1>1. InFlow(s)
  BY DEF InFlow, Sound, Positioned
<1>2. e \in Transitions(Here(s))
  BY <1>1, SilenceIsListed
<1>3. DOMAIN e = TransitionFields
  BY <1>1, <1>2, TransitionsAreLists DEF InFlow, Here
<1>4. x.interrupt = None /\ x.to = e.to
  BY <1>3 DEF TransitionFields
<1> HIDE DEF x
<1>5. e.interrupt = None
  <2>1. CASE Here(s).silence
    <3> DEFINE hits == {i \in DOMAIN auto : /\ auto[i].trigger = {}
                                           /\ auto[i].telemetry = None
                                           /\ Eligible(auto[i], s.env)}
    <3>1. e = First(auto, hits) /\ hits # {}
      BY <2>1 DEF SilenceEdge, First
    <3>2. auto \in TransitionLists(Here(s))
      BY DEF TransitionLists
    <3>3. hits \in SUBSET Nat
      BY <1>1, <3>2, Listed
    <3>4. \A i \in hits : i \in DOMAIN auto /\ auto[i].telemetry = None
      OBVIOUS
    <3> HIDE DEF hits, auto
    <3>5. e = auto[Min(hits)] /\ Min(hits) \in hits
      BY <3>1, <3>3, MinIsLeast DEF First
    <3>6. e \in ToSet(auto) /\ e.telemetry = None
      BY <3>4, <3>5 DEF ToSet
    <3> QED BY <1>1, <3>6 DEF SilenceStays, InFlow, Here, auto
  <2>2. CASE ~Here(s).silence
    <3>1. Here(s).readback /\ Here(s).bad # <<>> /\ e = Here(s).bad[1]
      BY <2>2 DEF SilenceEdge
    <3> QED BY <1>1, <3>1 DEF SilenceStays, InFlow, Here
  <2> QED BY <2>1, <2>2
<1>6. Leads(s, e)
  BY <1>2, ListedLeads
<1>7. Leads(s, x)
  BY <1>4, <1>5, <1>6 DEF Leads
<1> QED BY <1>4, <1>7 DEF x

LEMMA TimeoutAnswers ==
  ASSUME SilenceStays, VInv, Timeout
  PROVE  Answers
<1> DEFINE s == session
           e == SilenceEdge(Here(s), s.env)
           x == [e EXCEPT !.interrupt = None]
<1>1. Sound(s) /\ Inside(s) /\ s.state \in States(s.flow)
  BY DEF VInv, IInv, Sound, Positioned
<1>2. CASE Here(s).role # "pilot" \/ e = None
  <2>1. Safe(Raise(s, "unprocessable"), None)
    BY <1>1, RaiseIsSafe DEF Status
  <2>2. Respond(Raise(s, "unprocessable"), "silence_timeout", None)
    BY <1>1, <1>2 DEF Timeout
  <2> QED BY <2>1, <2>2 DEF Answers
<1>3. CASE ~(Here(s).role # "pilot" \/ e = None)
  <2>1. Respond(Follow(s, x), "silence_timeout", e)
    BY <1>1, <1>3 DEF Timeout
  <2>2. Leads(s, x) /\ x.interrupt = None
    BY <1>1, <1>3, SilenceLeads
  <2> HIDE DEF x, e
  <2>3. Safe(Follow(s, x), x)
    BY <1>1, <2>2, FollowIsSafe
  <2>4. Safe(Follow(s, x), e)
    BY <2>2, <2>3 DEF Safe, Told
  <2> QED BY <2>1, <2>4 DEF Answers
<1> QED BY <1>2, <1>3

LEMMA TickAnswers ==
  ASSUME SilenceStays, VInv, NEW reading \in Reading, Tick(reading)
  PROVE  Answers
<1> DEFINE s == [session EXCEPT !.telemetry = Update(session.telemetry, reading)]
           x == Examine(s)
           i == Min(Due(s))
           e == Here(s).auto[i]
<1>1. ASSUME NEW t, Sound(t), Inside(t), NEW y
      PROVE  /\ Inside([t EXCEPT !.telemetry = y])
             /\ Inside([t EXCEPT !.pending = y])
             /\ Inside([t EXCEPT !.fired = y])
  <2>1. /\ Stays(t, [t EXCEPT !.telemetry = y]) /\ [t EXCEPT !.telemetry = y].state = t.state
        /\ Stays(t, [t EXCEPT !.pending = y]) /\ [t EXCEPT !.pending = y].state = t.state
        /\ Stays(t, [t EXCEPT !.fired = y]) /\ [t EXCEPT !.fired = y].state = t.state
    BY <1>1 DEF Sound, Fields, Stays, SameStacks
  <2> QED BY <1>1, <2>1, SameIsInside DEF Stays
<1>2. Sound(s) /\ Inside(s)
  BY <1>1, BookkeepingIsSound DEF VInv, IInv
<1>3. s.state \in States(s.flow) /\ InFlow(s)
  BY <1>2 DEF Sound, Positioned, InFlow
<1>4. /\ Sound(x) /\ Inside(x) /\ x.flow = s.flow /\ x.state = s.state
      /\ Here(x) = Here(s)
  <2>1. Sound(x) /\ Inside(x)
    BY <1>1, <1>2, BookkeepingIsSound DEF Examine
  <2>2. x.flow = s.flow /\ x.state = s.state
    BY <1>2 DEF Examine, Sound, Fields
  <2> QED BY <2>1, <2>2 DEF Here
<1>5. \/ Respond(Ok(s), "telemetry", None)
      \/ Respond(Ok(x), "telemetry", None)
      \/ Due(s) # {} /\ Respond(Fire(x, i), "telemetry", e)
  BY <1>3 DEF Tick
<1>6. ASSUME Due(s) # {}
      PROVE  Safe(Fire(x, i), e)
  <2>1. e \in Transitions(Here(s))
    BY <1>3, <1>6, DueIsListed
  <2> DEFINE fired == IF e.telemetry.once THEN x.fired \cup {TelemetryKey(x, i)} ELSE x.fired
             y == [x EXCEPT !.fired = fired]
  <2>2. Fire(x, i) = Follow(y, e)
    BY <1>4 DEF Fire
  <2>3. Sound(y) /\ Inside(y)
    BY <1>1, <1>4, BookkeepingIsSound
  <2>4. Here(y) = Here(s)
    BY <1>4 DEF Here, Sound, Fields
  <2> HIDE DEF y, e
  <2>5. Leads(y, e)
    BY <2>1, <2>3, <2>4, ListedLeads
  <2> QED BY <2>2, <2>3, <2>5, FollowIsSafe
<1> HIDE DEF s, x, e, i
<1> QED BY <1>2, <1>4, <1>5, <1>6, OkIsSafe DEF Answers

LEMMA NextStaysInside ==
  ASSUME SilenceStays, VInv, [Next]_vars
  PROVE  VInv'
<1>1. IInv'
  BY NextIsSound DEF VInv
<1>2. CASE Answers
  <2>1. PICK r, reason, edge : Safe(r, edge) /\ Respond(r, reason, edge)
    BY <1>2 DEF Answers
  <2> QED BY <1>1, <2>1 DEF VInv, Safe, Told, Respond, Inside
<1>3. CASE PassTime \/ UNCHANGED vars
  BY <1>1, <1>3 DEF VInv, PassTime, vars, Inside, Told
<1>4. CASE Restart
  BY <1>1, <1>4 DEF VInv, Restart, Inside, Told
<1> QED BY <1>2, <1>3, <1>4, RejectAnswers, TransmitAnswers, TimeoutAnswers, TickAnswers
        DEF Next

LEMMA InitIsInside == Init => VInv
<1> SUFFICES ASSUME Init PROVE VInv
  OBVIOUS
<1>1. PICK f \in Slug, noChain \in BOOLEAN : session = NewSession(f, noChain)
  BY DEF Init
<1>2. session.flow = f /\ session.state = Flow[f].start /\ session.flowStack = <<>>
  BY <1>1 DEF NewSession
<1> QED BY <1>2, InitIsSound, StartIsEntered DEF Init, VInv, Inside, Told

\* The invariant is inductive where silence does not interrupt.
THEOREM StaysInside == ASSUME SilenceStays PROVE Spec => []VInv
<1>1. VInv /\ [Next]_vars => VInv'
  BY NextStaysInside
<1> QED BY <1>1, InitIsInside, PTL DEF Spec

\* No sequence of requests, failures and restarts brings a session to a state that
\* the validator calls unreachable, but where an interrupting flow enters.
THEOREM ReachableIsEnough == ASSUME SilenceStays PROVE Spec => []UnreachableIsNeverReached
<1>1. VInv => UnreachableIsNeverReached
  BY DEF VInv, Inside, UnreachableIsNeverReached
<1> QED BY <1>1, StaysInside, PTL

\* A request fails with 404 only in a flow the validator calls invalid, or at a
\* transition that interrupts.
THEOREM LossIsReported == ASSUME SilenceStays PROVE Spec => []LostStateWasReported
<1>1. VInv => LostStateWasReported
  BY DEF VInv, IInv, Sound, Positioned, Told, LostStateWasReported, Report
<1> QED BY <1>1, StaysInside, PTL

(***************************************************************************)
(* Sturdy flows, the shipped ones among them: no request breaks a session, *)
(* and between requests it waits for the pilot.                            *)
(***************************************************************************)
----------------------------------------------------------------------------
\* The silent walk goes down in rank, so that it rests before either limit stops it

\* An edge that no guard closes is always found.
LEMMA OpenEdgeIsFound ==
  ASSUME NEW f \in Slug, NEW st \in States(f), NEW env,
         \E e \in SilentEdges(f, st) : e.guard = None
  PROVE  FindAutoTransition(f, st, env) # None
<1> DEFINE s == [flow |-> f, state |-> st]
           auto == State(f, st).auto
           hits == AutoHits(f, st, env)
<1>1. PICK i \in DOMAIN auto : auto[i].telemetry = None /\ auto[i].guard = None
  BY DEF SilentEdges, ToSet
<1>2. i \in hits
  BY <1>1 DEF AutoHits, Eligible
<1>3. InFlow(s) /\ Here(s) = State(f, st) /\ auto \in TransitionLists(Here(s))
  BY DEF InFlow, Here, TransitionLists
<1> HIDE DEF s
<1>4. DOMAIN auto \subseteq Nat /\ ToSet(auto) \subseteq Transitions(State(f, st))
  BY <1>3, Listed
<1>5. hits \subseteq DOMAIN auto
  BY DEF AutoHits
<1>6. FindAutoTransition(f, st, env) = auto[Min(hits)]
  BY <1>2 DEF FindAutoTransition, First
<1> HIDE DEF hits, auto
<1>7. Min(hits) \in DOMAIN auto
  BY <1>2, <1>4, <1>5, MinIsLeast
<1>8. auto[Min(hits)] \in Transitions(State(f, st))
  BY <1>4, <1>7 DEF ToSet
<1> QED BY <1>6, <1>8, TransitionsAreLists

\* Where the walk w from start was after i hops.
Place(start, w, i) == IF i = 0 THEN start ELSE w.path[i].to

\* The walk w from start after n hops, or at rest.
Descends(rank, opening, f, start, w, n) ==
  /\ w \in Walks(f)
  /\ w.at \in States(f)
  /\ start \in opening[f] => w.at \in opening[f]
  /\ w.status = "walking" =>
       /\ Len(w.path) = n
       /\ rank[f][w.at] + n <= rank[f][start]
       /\ Place(start, w, n) = w.at
       /\ \A i \in 0..n - 1 :
            rank[f][Place(start, w, i)] \in Nat /\ rank[f][Place(start, w, i)] > rank[f][w.at]
  /\ w.status # "walking" =>
       /\ w.status = "rest"
       /\ State(f, w.at).role = "pilot" \/ w.at \in Flow[f].ends

LEMMA RankIsNat ==
  ASSUME NEW rank, WalksDown(rank), NEW f \in Slug, NEW st \in States(f)
  PROVE  rank[f][st] \in Nat /\ rank[f][st] < MAX_HOPS
<1>1. rank[f][st] \in 0..MAX_HOPS - 1
  BY DEF WalksDown
<1>2. \A r : r \in 0..MAX_HOPS - 1 => r \in Nat /\ r < MAX_HOPS
  BY DEF MAX_HOPS
<1> QED BY <1>1, <1>2

\* A walk that has only gone down is at its state for the first time.
LEMMA FirstVisit ==
  ASSUME NEW rank, NEW opening, NEW f, NEW start, NEW w, NEW n \in Nat, WalksDown(rank), f \in Slug,
         Descends(rank, opening, f, start, w, n), w.status = "walking"
  PROVE  Visits(start, w) < MAX_VISITS
<1> DEFINE here == {i \in 0..Len(w.path) : Place(start, w, i) = w.at}
<1>1. Visits(start, w) = Cardinality(here)
  BY DEF Visits, Place
<1>2. Len(w.path) = n
  BY DEF Descends
<1>3. rank[f][w.at] \in Nat
  <2>1. w.at \in States(f)
    BY DEF Descends
  <2> QED BY <2>1, RankIsNat
<1>4. \A i \in here : i = n
  <2> SUFFICES ASSUME NEW i \in here, i # n PROVE FALSE
    OBVIOUS
  <2>1. i \in 0..n - 1 /\ Place(start, w, i) = w.at
    BY <1>2
  <2>2. rank[f][Place(start, w, i)] > rank[f][w.at]
    BY <2>1 DEF Descends
  <2> QED BY <1>3, <2>1, <2>2
<1> HIDE DEF here
<1>5. here \subseteq {n}
  BY <1>4
<1>6. Cardinality(here) \in Nat /\ Cardinality(here) <= 1
  <2>1. IsFiniteSet({n}) /\ Cardinality({n}) = 1
    BY FS_Singleton
  <2>2. IsFiniteSet(here) /\ Cardinality(here) <= Cardinality({n})
    BY <1>5, <2>1, FS_Subset
  <2> QED BY <2>1, <2>2, FS_CardinalityType
<1> QED BY <1>1, <1>6 DEF MAX_VISITS

LEMMA HopDescends ==
  ASSUME NEW rank, NEW opening, Sturdy(rank, opening), NEW f \in Slug, NEW start \in States(f),
         NEW env, NEW w, NEW n \in Nat, Descends(rank, opening, f, start, w, n)
  PROVE  Descends(rank, opening, f, start, Hop(f, start, env, w), n + 1)
<1> DEFINE next == FindAutoTransition(f, w.at, env)
           rested == [w EXCEPT !.status = "rest"]
           on == [w EXCEPT !.at = next.to, !.path = Append(w.path, next)]
<1>1. w \in Walks(f) /\ w.at \in States(f)
  BY DEF Descends
<1>2. CASE w.status # "walking"
  BY <1>2 DEF Descends, Hop
<1>3. ASSUME w.status = "walking", State(f, w.at).role = "pilot" \/ w.at \in Flow[f].ends
      PROVE  Descends(rank, opening, f, start, rested, n + 1)
  <2>1. rested.status = "rest" /\ rested.at = w.at /\ rested \in Walks(f)
    BY <1>1 DEF Walks, WalkStatus
  <2> HIDE DEF rested
  <2> QED BY <1>3, <2>1 DEF Descends
<1>4. CASE w.status = "walking" /\ State(f, w.at).role = "pilot"
  BY <1>1, <1>3, <1>4 DEF Hop, Take
<1>5. ASSUME w.status = "walking", State(f, w.at).role # "pilot"
      PROVE  Hop(f, start, env, w) = IF next = None THEN rested ELSE on
  <2>1. ~(Visits(start, w) >= MAX_VISITS)
    <3>1. Visits(start, w) < MAX_VISITS
      BY <1>5, FirstVisit DEF Sturdy
    <3>2. Visits(start, w) \in Int
      <4>1. Len(w.path) \in Nat
        BY <1>1, LenProperties DEF Walks
      <4>2. IsFiniteSet(0..Len(w.path))
        BY <4>1, FS_Interval
      <4> QED BY <4>2, FS_Subset, FS_CardinalityType DEF Visits
    <3> QED BY <3>1, <3>2 DEF MAX_VISITS
  <2> QED BY <1>1, <1>5, <2>1 DEF Hop, Take
<1>6. CASE w.status = "walking" /\ State(f, w.at).role # "pilot" /\ next = None
  <2>1. w.at \in Controllers(f)
    BY <1>1, <1>6 DEF Controllers
  <2>2. w.at \in Flow[f].ends
    BY <1>1, <1>6, <2>1, OpenEdgeIsFound DEF Sturdy, WalksDown
  <2> QED BY <1>3, <1>5, <1>6, <2>2
<1>7. CASE w.status = "walking" /\ State(f, w.at).role # "pilot" /\ next # None
  <2>1. w.at \in Controllers(f)
    BY <1>1, <1>7 DEF Controllers
  <2>2. next \in Transitions(State(f, w.at)) /\ next \in SilentEdges(f, w.at)
    BY <1>1, <1>7, SilentIsListed DEF SilentEdges
  <2>3. on \in Walks(f)
    <3>1. Hop(f, start, env, w) = on
      BY <1>5, <1>7
    <3> QED BY <1>1, <3>1, HopWalks
  <2>4. on.at = next.to /\ on.path = Append(w.path, next) /\ on.status = "walking"
    BY <1>1, <1>7 DEF Walks
  <2> HIDE DEF next, on
  <2>5. next.to \in States(f)
    BY <1>1, <2>2 DEF Sturdy, Linked
  <2>6. rank[f][next.to] < rank[f][w.at] /\ rank[f][next.to] \in Nat /\ rank[f][w.at] \in Nat
        /\ rank[f][start] \in Nat
    BY <1>1, <2>1, <2>2, <2>5 DEF Sturdy, WalksDown, MAX_HOPS
  <2>7. start \in opening[f] => next.to \in opening[f]
    BY <2>1, <2>2 DEF Sturdy, Opens, Descends
  <2>8. w.path \in Seq(EdgesIn(f)) /\ next \in EdgesIn(f) /\ Len(w.path) = n
    BY <1>1, <1>7, <2>2 DEF Walks, EdgesIn, Descends
  <2>9. Len(on.path) = n + 1
    BY <2>4, <2>8
  <2>10. \A i \in 0..n : rank[f][Place(start, on, i)] \in Nat /\ rank[f][Place(start, on, i)] > rank[f][next.to]
    <3> TAKE i \in 0..n
    <3>1. Place(start, on, i) = Place(start, w, i)
      <4>1. i # 0 => on.path[i] = w.path[i]
        BY <2>4, <2>8
      <4> QED BY <4>1 DEF Place
    <3>2. CASE i = n
      BY <1>7, <2>6, <3>1, <3>2 DEF Descends
    <3>3. CASE i # n
      <4>1. i \in 0..n - 1
        BY <3>3
      <4>2. rank[f][Place(start, w, i)] \in Nat /\ rank[f][Place(start, w, i)] > rank[f][w.at]
        BY <1>7, <4>1 DEF Descends
      <4> QED BY <2>6, <3>1, <4>2
    <3> QED BY <3>2, <3>3
  <2>11. Place(start, on, n + 1) = next.to
    BY <2>4, <2>8 DEF Place
  <2>12. rank[f][next.to] + (n + 1) <= rank[f][start]
    <3>1. rank[f][w.at] + n <= rank[f][start]
      BY <1>7 DEF Descends
    <3> QED BY <2>6, <3>1
  <2>13. (n + 1) - 1 = n
    OBVIOUS
  <2>14. Descends(rank, opening, f, start, on, n + 1)
    BY <2>3, <2>4, <2>5, <2>7, <2>9, <2>10, <2>11, <2>12, <2>13 DEF Descends
  <2> QED BY <1>5, <1>7, <2>14 DEF on, next
<1> QED BY <1>2, <1>4, <1>6, <1>7

\* In a sturdy flow the silent walk rests: at a state of the pilot, or at an end.
LEMMA WalkRestsWell ==
  ASSUME NEW rank, NEW opening, Sturdy(rank, opening), NEW f \in Slug, NEW start \in States(f), NEW env
  PROVE  LET w == AdvanceThroughNonPilot(f, start, env)
         IN  /\ w.status = "rest"
             /\ w.at \in States(f)
             /\ State(f, w.at).role = "pilot" \/ w.at \in Flow[f].ends
             /\ start = Flow[f].start => State(f, w.at).role = "pilot"
<1> DEFINE N == MAX_HOPS
<1>1. N \in Nat
  BY DEF MAX_HOPS
<1>2. PICK g \in [0..N -> Walks(f)] :
        /\ g[0] = [at |-> start, path |-> <<>>, status |-> "walking"]
        /\ \A n \in 1..N : g[n] = Hop(f, start, env, g[n - 1])
        /\ AdvanceThroughNonPilot(f, start, env) = Arrived(f, g[N])
  BY WalkExists
<1> HIDE DEF N
<1> DEFINE P == {n \in 0..N : Descends(rank, opening, f, start, g[n], n)}
<1>3. rank[f][start] \in Nat /\ rank[f][start] < N
  BY RankIsNat DEF Sturdy, N
<1>4. 0 \in P
  <2>1. g[0] \in Walks(f)
    BY <1>1, <1>2
  <2>2. Len(<<>>) = 0 /\ 0..0 - 1 = {}
    OBVIOUS
  <2>3. rank[f][start] + 0 <= rank[f][start]
    BY <1>3
  <2> QED BY <1>1, <1>2, <2>1, <2>2, <2>3 DEF Descends, Place
<1>5. ASSUME NEW n \in 0..N, n \in P, n < N PROVE n + 1 \in P
  <2>1. n + 1 \in 1..N /\ (n + 1) - 1 = n /\ n + 1 \in 0..N /\ n \in Nat
    BY <1>1, <1>5
  <2>2. g[n + 1] = Hop(f, start, env, g[n])
    BY <1>2, <2>1
  <2>3. Descends(rank, opening, f, start, g[n + 1], n + 1)
    BY <1>5, <2>1, <2>2, HopDescends
  <2> QED BY <2>1, <2>3
<1>6. Descends(rank, opening, f, start, g[N], N)
  <2>1. N \in P
    <3> HIDE DEF P
    <3>1. \A n \in 0..N : n \in P
      BY <1>1, <1>4, <1>5, UpTo
    <3> QED BY <1>1, <3>1
  <2> QED BY <2>1
<1>7. g[N].status # "walking"
  <2> SUFFICES ASSUME g[N].status = "walking" PROVE FALSE
    OBVIOUS
  <2>1. rank[f][g[N].at] + N <= rank[f][start] /\ g[N].at \in States(f)
    BY <1>6 DEF Descends
  <2>2. rank[f][g[N].at] \in Nat
    BY <2>1, RankIsNat DEF Sturdy
  <2> QED BY <1>1, <1>3, <2>1, <2>2
<1>8. AdvanceThroughNonPilot(f, start, env).status = "rest" /\ AdvanceThroughNonPilot(f, start, env).at = g[N].at
  BY <1>2, <1>6, <1>7 DEF Arrived, Descends
<1>9. start = Flow[f].start => State(f, g[N].at).role = "pilot"
  <2> SUFFICES ASSUME start = Flow[f].start, State(f, g[N].at).role # "pilot" PROVE FALSE
    OBVIOUS
  <2>1. start \in opening[f]
    BY DEF Sturdy, Opens
  <2>2. g[N].at \in opening[f] \cap Controllers(f) /\ g[N].at \in Flow[f].ends
    BY <1>6, <1>7, <2>1 DEF Descends, Controllers
  <2> QED BY <2>2 DEF Sturdy, Opens
<1> QED BY <1>6, <1>7, <1>8, <1>9 DEF Descends

----------------------------------------------------------------------------
\* Coming to rest

AtPilot(s) == Here(s).role = "pilot"

\* At most one flow is suspended, by the emergency flow, at a state of the pilot.
Suspendable(s) ==
  s.flowStack # <<>> =>
    /\ s.flow = EmergencyFlow
    /\ Len(s.flowStack) = 1
    /\ State(s.flowStack[1], s.stateStack[1]).role = "pilot"

\* A session in the middle of a request, and between requests.
Steady(s) == Sound(s) /\ Suspendable(s)

Waiting(s) == AtPilot(s) \/ SessionComplete(s) \/ Fresh(s)

Rested(s) == Steady(s) /\ Waiting(s)

\* What a request may answer: 200 or 422.
Served == {"ok", "unprocessable"}

RestedOutcome(r) == Rested(r.s) /\ r.status \in Served

\* What a request writes besides the position does not unsettle a session.
LEMMA WritesKeepSteady ==
  ASSUME NEW s, Steady(s), NEW t, Sound(t), Stays(s, t)
  PROVE  Steady(t)
BY DEF Steady, Suspendable, Stays, SameStacks

\* The auto-advance raises nothing, and ends at a state of the pilot or at an end.
LEMMA AdvanceRests ==
  ASSUME NEW rank, NEW opening, Sturdy(rank, opening), NEW s, Steady(s)
  PROVE  LET r == Advance(s)
         IN  /\ r.status = "ok"
             /\ Steady(r.s)
             /\ AtPilot(r.s) \/ AtEnd(r.s, r.s.flow)
             /\ AtPilot(s) \/ s.state = Flow[s.flow].start => AtPilot(r.s)
<1> DEFINE w == AdvanceThroughNonPilot(s.flow, s.state, s.env)
           u == [s EXCEPT !.state = w.at, !.env = RunActions(s.env, w.path)]
<1>1. Sound(s) /\ s.flow \in Slug /\ s.state \in States(s.flow)
  BY DEF Steady, Sound, Positioned
<1>2. /\ w.status = "rest"
      /\ State(s.flow, w.at).role = "pilot" \/ w.at \in Flow[s.flow].ends
      /\ s.state = Flow[s.flow].start => State(s.flow, w.at).role = "pilot"
  BY <1>1, WalkRestsWell
<1>3. Steady(Advance(s).s)
  BY <1>1, AdvanceStays, AdvanceIsSound, WritesKeepSteady DEF SoundOutcome
<1>4. Advance(s) = IF AtPilot(s) THEN Ok(s) ELSE Walked(s, w, u)
  BY DEF Advance, AtPilot
<1> HIDE DEF w
<1>5. u.flow = s.flow /\ u.state = w.at
  BY <1>1 DEF Sound, Fields
<1> HIDE DEF u
<1>6. CASE AtPilot(s)
  BY <1>3, <1>4, <1>6 DEF Ok
<1>7. CASE ~AtPilot(s)
  <2>1. Advance(s).status = "ok" /\ Advance(s).s = u
    BY <1>2, <1>4, <1>7 DEF Walked, Ok
  <2> QED BY <1>2, <1>3, <1>5, <1>7, <2>1 DEF AtPilot, Here, AtEnd
<1> QED BY <1>6, <1>7

\* The flow that resumes does so at the state of the pilot it was suspended at.
LEMMA PopRests ==
  ASSUME NEW s, Steady(s), s.flowStack # <<>>
  PROVE  Steady(PopFlow(s)) /\ AtPilot(PopFlow(s))
<1> DEFINE t == PopFlow(s)
<1>1. /\ Sound(s) /\ Stacked(s) /\ Len(s.flowStack) = 1 /\ Len(s.stateStack) = 1
      /\ State(s.flowStack[1], s.stateStack[1]).role = "pilot"
  BY SoundIsStacked DEF Steady, Suspendable, Sound, Positioned
<1>2. /\ t.flow = Last(s.flowStack) /\ t.state = Last(s.stateStack)
      /\ t.flowStack = Front(s.flowStack)
  BY <1>1, PopResumes DEF Resumes
<1>3. Sound(t)
  BY <1>1, PopIsSound
<1> HIDE DEF t
<1>4. Last(s.flowStack) = s.flowStack[1] /\ Last(s.stateStack) = s.stateStack[1]
  BY <1>1 DEF Last
<1>5. Front(s.flowStack) = <<>>
  <2>1. SubSeq(s.flowStack, 1, 0) = <<>>
    BY <1>1, SubSeqEmpty DEF Stacked
  <2> QED BY <1>1, <2>1 DEF Front
<1>6. AtPilot(t)
  BY <1>1, <1>2, <1>4 DEF AtPilot, Here
<1>7. Suspendable(t)
  BY <1>2, <1>5 DEF Suspendable
<1> QED BY <1>3, <1>6, <1>7 DEF Steady, t

LEMMA ChainRests ==
  ASSUME NEW s, Steady(s), NEW next \in Slug
  PROVE  LET t == ChainFlow(s, next)
         IN  Steady(t) /\ t.flow = next /\ Fresh(t)
<1>1. Sound(s) /\ Stacked(s)
  BY SoundIsStacked DEF Steady
<1>2. Sound(ChainFlow(s, next))
  BY <1>1, ChainIsSound
<1>3. /\ ChainFlow(s, next).flow = next
      /\ ChainFlow(s, next).state = Flow[next].start
      /\ ChainFlow(s, next).flowStack = <<>>
  BY <1>1 DEF ChainFlow, ReplaceFlow, Sound, Fields
<1> QED BY <1>2, <1>3 DEF Steady, Suspendable, Fresh

\* Flow completion resumes, chains or leaves a session that is complete.
LEMMA CompleteRests ==
  ASSUME NEW rank, NEW opening, Sturdy(rank, opening), NEW s, Steady(s), AtPilot(s) \/ AtEnd(s, s.flow)
  PROVE  RestedOutcome(Complete(s))
<1> DEFINE c == HandleFlowCompletion(s, s.flow)
<1>1. Steady(c) /\ (Waiting(c) \/ AtPilot(c)) /\ (AtPilot(c) \/ c.state = Flow[c.flow].start \/ c.flow = s.flow)
  <2>1. CASE ~AtEnd(s, s.flow)
    BY <2>1 DEF HandleFlowCompletion
  <2>2. CASE AtEnd(s, s.flow) /\ s.flowStack # <<>>
    BY <2>2, PopRests DEF HandleFlowCompletion
  <2>3. CASE AtEnd(s, s.flow) /\ s.flowStack = <<>> /\ CanChain(s, s.flow)
    <3>1. c = ChainFlow(s, Flow[s.flow].next) /\ Flow[s.flow].next \in Slug
      BY <2>3 DEF HandleFlowCompletion, CanChain
    <3> QED BY <3>1, ChainRests DEF Waiting, Fresh
  <2>4. CASE AtEnd(s, s.flow) /\ s.flowStack = <<>> /\ ~CanChain(s, s.flow)
    <3>1. c = s
      BY <2>4 DEF HandleFlowCompletion
    <3>2. Flow[s.flow].next = None \/ s.noChain
      BY <2>4 DEF CanChain, Sturdy, Linked, Steady, Sound, Positioned
    <3>3. SessionComplete(s)
      BY <2>4, <3>2 DEF SessionComplete
    <3> QED BY <3>1, <3>3 DEF Waiting
  <2> QED BY <2>1, <2>2, <2>3, <2>4
<1> HIDE DEF c
<1>2. CASE c.flow = s.flow
  <2>1. Complete(s) = Ok(c)
    BY <1>2 DEF Complete, c
  <2> QED BY <1>1, <2>1 DEF Ok, RestedOutcome, Rested, Waiting, Served
<1>3. CASE c.flow # s.flow
  <2>1. Complete(s) = Advance(c)
    BY <1>3 DEF Complete, c
  <2>2. Advance(c).status = "ok" /\ Steady(Advance(c).s) /\ AtPilot(Advance(c).s)
    BY <1>1, <1>3, AdvanceRests
  <2> QED BY <2>1, <2>2 DEF RestedOutcome, Rested, Waiting, Served
<1> QED BY <1>2, <1>3

LEMMA SettleRests ==
  ASSUME NEW rank, NEW opening, Sturdy(rank, opening), NEW s, Steady(s)
  PROVE  RestedOutcome(Settle(s))
BY AdvanceRests, CompleteRests DEF Settle

LEMMA FollowRests ==
  ASSUME NEW rank, NEW opening, Sturdy(rank, opening), NEW s, Steady(s),
         NEW e, e.interrupt = None, e.to \in States(s.flow)
  PROVE  RestedOutcome(Follow(s, e))
<1> DEFINE t == [s EXCEPT !.state = e.to, !.env = RunActions(s.env, <<e>>)]
<1>1. Sound(s) /\ s.flow \in Slug
  BY DEF Steady, Sound, Positioned
<1>2. Sound(t)
  BY <1>1, MoveIsSound
<1>3. Stays(s, t)
  BY <1>1 DEF Stays, SameStacks, Sound, Fields
<1>4. [[s EXCEPT !.state = e.to] EXCEPT !.env = RunActions([s EXCEPT !.state = e.to].env, <<e>>)] = t
  BY <1>1 DEF Sound, Fields
<1>5. Follow(s, e) = Settle(t)
  BY <1>1, <1>4 DEF Follow
<1> HIDE DEF t
<1> QED BY <1>2, <1>3, <1>5, WritesKeepSteady, SettleRests

\* MAYDAY finds nothing suspended, so that there is room to suspend the flow.
LEMMA MaydayRests ==
  ASSUME NEW rank, NEW opening, Sturdy(rank, opening), NEW s, Steady(s), AtPilot(s),
         s.flow # EmergencyFlow, EmergencyFlow \in Slug, EmergencyEntry \in States(EmergencyFlow)
  PROVE  RestedOutcome(Follow(s, MaydayEdge))
<1> DEFINE t == PushFlow(s, EmergencyFlow, EmergencyEntry)
           v == [t EXCEPT !.env = RunActions(t.env, <<MaydayEdge>>)]
<1>1. Sound(s) /\ s.flowStack = <<>> /\ s.stateStack = <<>>
  <2>1. s.flowStack = <<>>
    BY DEF Steady, Suspendable
  <2>2. Len(s.stateStack) = 0 /\ s.stateStack \in Seq(StateId)
    BY <2>1 DEF Steady, Sound, Positioned
  <2> QED BY <2>1, <2>2, EmptySeq DEF Steady
<1>2. CanPush(s) /\ EmergencyFlow # None
  BY <1>1, FlowsWellFormed DEF CanPush, Sturdy
<1>3. Sound(t)
  BY <1>1, <1>2, PushIsSound
<1>4. /\ t.flow = EmergencyFlow
      /\ t.flowStack = <<s.flow>> /\ t.stateStack = <<s.state>>
  BY <1>1 DEF PushFlow, Sound, Fields
<1>5. Follow(s, MaydayEdge) = Settle(v)
  BY <1>2 DEF Follow, MaydayEdge
<1> HIDE DEF t
<1>6. Sound(v)
  BY <1>3 DEF Sound, Positioned, Fields
<1>7. Suspendable(v)
  <2>1. v.flow = t.flow /\ v.flowStack = t.flowStack /\ v.stateStack = t.stateStack
    BY <1>3 DEF Sound, Fields
  <2>2. /\ Len(<<s.flow>>) = 1 /\ <<s.flow>>[1] = s.flow /\ <<s.state>>[1] = s.state
    OBVIOUS
  <2> HIDE DEF v
  <2> QED BY <1>4, <2>1, <2>2 DEF Suspendable, AtPilot, Here
<1> HIDE DEF v
<1> QED BY <1>5, <1>6, <1>7, SettleRests DEF Steady

----------------------------------------------------------------------------
\* The requests

\* A transmission is rejected, or finds the session at a state of the pilot.
LEMMA ReceiveRests ==
  ASSUME NEW rank, NEW opening, Sturdy(rank, opening), NEW s, Rested(s)
  PROVE  LET r == Receive(s)
         IN  \/ r.status = "unprocessable" /\ r.s = s
             \/ r.status = "ok" /\ Steady(r.s) /\ AtPilot(r.s)
<1> DEFINE w == AdvanceThroughNonPilot(s.flow, s.state, s.env)
           t == [s EXCEPT !.state = w.at]
<1>1. Sound(s) /\ s.flow \in Slug /\ s.state \in States(s.flow)
  BY DEF Rested, Steady, Sound, Positioned
<1>2. CASE AtEnd(s, s.flow) /\ s.flowStack = <<>>
  BY <1>1, <1>2 DEF Receive, Raise
<1>3. CASE ~(AtEnd(s, s.flow) /\ s.flowStack = <<>>) /\ AtPilot(s)
  BY <1>1, <1>3 DEF Receive, Ok, Rested, AtPilot
<1>4. CASE ~(AtEnd(s, s.flow) /\ s.flowStack = <<>>) /\ ~AtPilot(s)
  <2>1. s.state = Flow[s.flow].start
    BY <1>4 DEF Rested, Waiting, SessionComplete, Fresh
  <2>2. w.status = "rest" /\ State(s.flow, w.at).role = "pilot" /\ w.at \in States(s.flow)
    BY <1>1, <2>1, WalkRestsWell
  <2>3. Receive(s) = Ok(t)
    BY <1>1, <1>4, <2>2 DEF Receive, Walked, AtPilot
  <2> HIDE DEF w
  <2>4. Sound(t) /\ Stays(s, t) /\ AtPilot(t)
    BY <1>1, <2>2 DEF Sound, Positioned, Fields, Stays, SameStacks, AtPilot, Here
  <2>5. Steady(t)
    BY <2>4, WritesKeepSteady DEF Rested
  <2> QED BY <2>3, <2>4, <2>5 DEF Ok
<1> QED BY <1>2, <1>3, <1>4

\* The invariant: every session rests well, and no request has answered 404 or 500.
RestInv ==
  /\ Rested(session)
  /\ Rested(saved)
  /\ reply.status \in Served

LEMMA RespondRests ==
  ASSUME RestInv, NEW r, RestedOutcome(r), NEW reason, NEW edge, Respond(r, reason, edge)
  PROVE  RestInv'
<1>1. session' = r.s /\ saved' \in {saved, r.s} /\ reply'.status = r.status
  BY DEF Respond
<1>2. \A s : s = session \/ s = saved \/ s = r.s => Rested(s)
  BY DEF RestInv, RestedOutcome
<1>3. (Rested(session))' <=> Rested(session')
  OBVIOUS
<1> QED BY <1>1, <1>2 DEF RestInv, RestedOutcome

LEMMA RejectRests ==
  ASSUME NEW rank, NEW opening, Sturdy(rank, opening), RestInv, Reject
  PROVE  RestInv'
<1>1. RestedOutcome(Receive(session))
  BY ReceiveRests DEF RestInv, Reject, RestedOutcome, Served
<1> QED BY <1>1, RespondRests DEF Reject

\* The transitions of a state interrupt nothing and lead to a state of its flow.
LEMMA TransitionRests ==
  ASSUME NEW rank, NEW opening, Sturdy(rank, opening), NEW s, Steady(s),
         NEW e \in Transitions(Here(s))
  PROVE  /\ RestedOutcome(Follow(s, e))
         /\ RestedOutcome(Follow(s, [e EXCEPT !.interrupt = None]))
<1>1. s.flow \in Slug /\ s.state \in States(s.flow)
  BY DEF Steady, Sound, Positioned
<1>2. e.interrupt = None /\ e.to \in States(s.flow) /\ DOMAIN e = TransitionFields
  BY <1>1, TransitionsAreLists DEF Here, Sturdy, InterruptsNothing, Linked
<1>3. [e EXCEPT !.interrupt = None].interrupt = None /\ [e EXCEPT !.interrupt = None].to = e.to
  BY <1>2 DEF TransitionFields
<1> QED BY <1>2, <1>3, FollowRests

LEMMA RouteRests ==
  ASSUME NEW rank, NEW opening, Sturdy(rank, opening), RestInv,
         NEW u, NEW s, Steady(s), AtPilot(s), Route(u, s)
  PROVE  RestInv'
<1>1. PICK c \in Selections(u, s), correct \in BOOLEAN :
        LET g == EvaluateReadback(s, c, correct)
            e == HardFallback(g.s, g.edge)
        IN  Respond(IF e = None THEN Raise(g.s, "unprocessable") ELSE Follow(g.s, e),
                    c.reason, e)
  BY DEF Route
<1> DEFINE g == EvaluateReadback(s, c, correct)
           e == HardFallback(g.s, g.edge)
<1>2. Sound(s) /\ InFlow(s) /\ DOMAIN s = Fields
  BY DEF Steady, Sound, Positioned, InFlow
<1>3. Sound(g.s)
  BY <1>2, ReadbackIsSound
<1>4. g.s = s \/ \E n : g.s = [s EXCEPT !.rbFail[s.state] = n]
  BY DEF EvaluateReadback
<1>5. Stays(s, g.s) /\ Here(g.s) = Here(s)
  BY <1>2, <1>4 DEF Stays, SameStacks, Here, Fields
<1>6. Steady(g.s) /\ AtPilot(g.s)
  BY <1>3, <1>5, WritesKeepSteady DEF AtPilot
<1>7. c.edge \in Transitions(Here(s)) \cup {None}
  <2>1. c = SelectPilotTransition(u, s) \/ c.edge \in LlmRescue(s)
    BY DEF Selections
  <2> QED BY <1>2, <2>1, SelectionIsListed, RescueIsListed
<1>8. e \in Transitions(Here(s)) \cup {None}
  BY <1>2, <1>7, ReadbackIsListed
<1> HIDE DEF g, e
<1>9. CASE e = None
  <2>1. RestedOutcome(Raise(g.s, "unprocessable"))
    BY <1>6 DEF RestedOutcome, Rested, Waiting, Raise, Served
  <2> QED BY <1>1, <1>9, <2>1, RespondRests DEF g, e
<1>10. CASE e # None
  <2>1. RestedOutcome(Follow(g.s, e))
    BY <1>5, <1>6, <1>8, <1>10, TransitionRests
  <2> QED BY <1>1, <1>10, <2>1, RespondRests DEF g, e
<1> QED BY <1>9, <1>10

LEMMA TransmitRests ==
  ASSUME NEW rank, NEW opening, Sturdy(rank, opening), RestInv, NEW u \in Utterance, Transmit(u)
  PROVE  RestInv'
<1> DEFINE s == Receive(session).s
<1>1. Steady(s) /\ AtPilot(s)
  BY ReceiveRests DEF RestInv, Transmit
<1> HIDE DEF s
<1>2. ASSUME NEW b \in BOOLEAN
      PROVE  LET d == [s EXCEPT !.distress = b]
             IN  /\ Steady(d) /\ AtPilot(d)
                 /\ d.flow = s.flow
  <2>1. Sound([s EXCEPT !.distress = b]) /\ Stays(s, [s EXCEPT !.distress = b])
    BY <1>1 DEF Steady, Sound, Positioned, Fields, Stays, SameStacks
  <2>2. [s EXCEPT !.distress = b].state = s.state /\ [s EXCEPT !.distress = b].flow = s.flow
    BY <1>1 DEF Steady, Sound, Fields
  <2> QED BY <1>1, <2>1, <2>2, WritesKeepSteady DEF AtPilot, Here
<1>3. ASSUME NEW t, Steady(t), AtPilot(t) PROVE RestedOutcome(Ok(t))
  BY <1>3 DEF RestedOutcome, Rested, Waiting, Ok, Served
<1>4. CASE DeclareEmergency(u, s)
  <2>1. s.flow # EmergencyFlow /\ EmergencyFlow \in Slug /\ EmergencyEntry \in States(EmergencyFlow)
    BY <1>4 DEF DeclareEmergency, IsMayday
  <2>2. RestedOutcome(Follow([s EXCEPT !.distress = TRUE], MaydayEdge))
    BY <1>2, <2>1, MaydayRests
  <2> QED BY <1>4, <2>2, RespondRests DEF DeclareEmergency
<1>5. CASE CancelEmergency(u, s)
  <2>1. RestedOutcome(Ok([s EXCEPT !.distress = FALSE]))
    BY <1>2, <1>3
  <2> QED BY <1>5, <2>1, RespondRests DEF CancelEmergency
<1>6. CASE Greet(u, s)
  BY <1>1, <1>3, <1>6, RespondRests DEF Greet
<1>7. CASE Route(u, s)
  BY <1>1, <1>7, RouteRests
<1> QED BY <1>4, <1>5, <1>6, <1>7 DEF Transmit, s

LEMMA TimeoutRests ==
  ASSUME NEW rank, NEW opening, Sturdy(rank, opening), RestInv, Timeout
  PROVE  RestInv'
<1> DEFINE e == SilenceEdge(Here(session), session.env)
<1>1. Rested(session) /\ Steady(session) /\ InFlow(session)
  BY DEF RestInv, Rested, Steady, Sound, Positioned, InFlow
<1>2. e \in Transitions(Here(session)) \cup {None}
  BY <1>1, SilenceIsListed
<1>3. RestedOutcome(Raise(session, "unprocessable"))
  BY <1>1 DEF RestedOutcome, Raise, Served
<1>4. e # None => RestedOutcome(Follow(session, [e EXCEPT !.interrupt = None]))
  BY <1>1, <1>2, TransitionRests
<1>5. PICK r, edge : RestedOutcome(r) /\ Respond(r, "silence_timeout", edge)
  BY <1>1, <1>3, <1>4 DEF Timeout, InFlow
<1> QED BY <1>5, RespondRests

\* What telemetry writes down leaves a session where it rests.
LEMMA TelemetryRests ==
  ASSUME NEW s, Rested(s), NEW x
  PROVE  /\ Rested([s EXCEPT !.telemetry = x])
         /\ Rested([s EXCEPT !.pending = x])
         /\ Steady([s EXCEPT !.fired = x])
         /\ Here([s EXCEPT !.telemetry = x]) = Here(s)
         /\ Here([s EXCEPT !.pending = x]) = Here(s)
         /\ Here([s EXCEPT !.fired = x]) = Here(s)
<1>1. Sound(s) /\ Steady(s)
  BY DEF Rested, Steady
<1>2. ASSUME NEW t, Sound(t), Stays(s, t), t.state = s.state, t.noChain = s.noChain
      PROVE  Rested(t) /\ Here(t) = Here(s)
  <2>1. Steady(t)
    BY <1>1, <1>2, WritesKeepSteady
  <2> QED BY <1>2, <2>1 DEF Rested, Waiting, AtPilot, Here, SessionComplete, AtEnd, Fresh, Stays, SameStacks
<1>3. /\ Sound([s EXCEPT !.telemetry = x])
      /\ Sound([s EXCEPT !.pending = x])
      /\ Sound([s EXCEPT !.fired = x])
  BY <1>1, BookkeepingIsSound
<1>4. ASSUME NEW t \in {[s EXCEPT !.telemetry = x], [s EXCEPT !.pending = x], [s EXCEPT !.fired = x]}
      PROVE  Stays(s, t) /\ t.state = s.state /\ t.noChain = s.noChain
  BY <1>1 DEF Stays, SameStacks, Sound, Fields
<1> QED BY <1>2, <1>3, <1>4 DEF Rested

LEMMA TickRests ==
  ASSUME NEW rank, NEW opening, Sturdy(rank, opening), RestInv, NEW reading \in Reading, Tick(reading)
  PROVE  RestInv'
<1> DEFINE s == [session EXCEPT !.telemetry = Update(session.telemetry, reading)]
           x == Examine(s)
           edge == Here(s).auto[Min(Due(s))]
<1>1. Rested(s)
  BY TelemetryRests DEF RestInv
<1>2. Steady(s) /\ InFlow(s)
  BY <1>1 DEF Rested, Steady, Sound, Positioned, InFlow
<1> HIDE DEF s
<1>3. Rested(x) /\ Here(x) = Here(s)
  BY <1>1, TelemetryRests DEF Examine
<1>4. RestedOutcome(Ok(s)) /\ RestedOutcome(Ok(x))
  BY <1>1, <1>3 DEF RestedOutcome, Ok, Served
<1> HIDE DEF x
<1>5. Due(s) # {} => RestedOutcome(Fire(x, Min(Due(s))))
  <2> SUFFICES ASSUME Due(s) # {} PROVE RestedOutcome(Fire(x, Min(Due(s))))
    OBVIOUS
  <2>1. edge \in Transitions(Here(s))
    BY <1>2, DueIsListed
  <2>2. PICK fired : Fire(x, Min(Due(s))) = Follow([x EXCEPT !.fired = fired], edge)
    BY <1>3 DEF Fire
  <2> HIDE DEF edge
  <2>3. Steady([x EXCEPT !.fired = fired]) /\ Here([x EXCEPT !.fired = fired]) = Here(s)
    BY <1>3, TelemetryRests
  <2>4. RestedOutcome(Follow([x EXCEPT !.fired = fired], edge))
    BY <2>1, <2>3, TransitionRests
  <2> QED BY <2>2, <2>4
<1>6. PICK r, e : RestedOutcome(r) /\ Respond(r, "telemetry", e)
  BY <1>2, <1>4, <1>5 DEF Tick, InFlow, s, x
<1> QED BY <1>6, RespondRests

LEMMA InitRests == Init => RestInv
<1> SUFFICES ASSUME Init PROVE RestInv
  OBVIOUS
<1>1. PICK f \in Slug, noChain \in BOOLEAN : session = NewSession(f, noChain)
  BY DEF Init
<1>2. Sound(session)
  BY InitIsSound DEF IInv
<1>3. Fresh(session) /\ session.flowStack = <<>>
  BY <1>1 DEF NewSession, Fresh
<1>4. Rested(session) /\ Rested(saved)
  BY <1>2, <1>3 DEF Init, Rested, Steady, Suspendable, Waiting
<1> QED BY <1>4 DEF Init, RestInv, Served

LEMMA NextRests ==
  ASSUME NEW rank, NEW opening, Sturdy(rank, opening), RestInv, [Next]_vars
  PROVE  RestInv'
<1>1. CASE Reject
  BY <1>1, RejectRests
<1>2. CASE \E u \in Utterance : Transmit(u)
  BY <1>2, TransmitRests
<1>3. CASE Timeout
  BY <1>3, TimeoutRests
<1>4. CASE \E reading \in Reading : Tick(reading)
  BY <1>4, TickRests
<1>5. ASSUME session' \in {session, saved}, saved' = saved, reply'.status \in Served
      PROVE  RestInv'
  <2>1. (Rested(session))' <=> Rested(session')
    OBVIOUS
  <2>2. (Rested(saved))' <=> Rested(saved')
    OBVIOUS
  <2> QED BY <1>5, <2>1, <2>2 DEF RestInv
<1>6. CASE PassTime \/ Restart \/ UNCHANGED vars
  <2>1. session' \in {session, saved} /\ saved' = saved /\ reply'.status \in Served
    BY <1>6 DEF PassTime, Restart, vars, RestInv, Served
  <2> QED BY <1>5, <2>1
<1> QED BY <1>1, <1>2, <1>3, <1>4, <1>6 DEF Next

\* In sturdy flows every session rests well, the row a restart loads included.
THEOREM RestsWell ==
  ASSUME NEW CONSTANT rank, NEW CONSTANT opening, Sturdy(rank, opening)
  PROVE  Spec => []RestInv
<1>1. RestInv /\ [Next]_vars => RestInv'
  BY NextRests
<1> QED BY <1>1, InitRests, PTL DEF Spec

\* process_transmission, process_timeout, process_telemetry: no sequence of requests
\* on sturdy flows is answered 404 or 500.
THEOREM SturdyIsNeverBroken ==
  ASSUME NEW CONSTANT rank, NEW CONSTANT opening, Sturdy(rank, opening)
  PROVE  Spec => []NeverBroken
<1>1. RestInv => NeverBroken
  BY DEF RestInv, Served, NeverBroken
<1> QED BY <1>1, RestsWell, PTL

\* Steps 9 to 11: on sturdy flows every request leaves the session to the pilot, or
\* complete.
THEOREM SturdyWaitsForPilot ==
  ASSUME NEW CONSTANT rank, NEW CONSTANT opening, Sturdy(rank, opening)
  PROVE  Spec => []WaitsForPilot
<1>1. RestInv => WaitsForPilot
  BY DEF RestInv, Rested, Waiting, AtPilot, WaitsForPilot
<1> QED BY <1>1, RestsWell, PTL

----------------------------------------------------------------------------
\* What fired_telemetry promises, for every telemetry and every sequence of requests,
\* failures and restarts.

\* What everything but a tick leaves alone.
Keeps(s, t) ==
  /\ DOMAIN t = Fields
  /\ t.telemetry = s.telemetry
  /\ t.fired = s.fired

\* The entry of a cue in fired_telemetry.
KeyOf(c) == <<c[2], c[3], EdgeOf(c).to>>

\* A cue the pilot was told of is in the session, and in the row a restart loads.
Recorded(c) ==
  /\ told[c] <= 1
  /\ told[c] = 1 => KeyOf(c) \in session.fired /\ KeyOf(c) \in saved.fired

OnceInv ==
  /\ DOMAIN session = Fields
  /\ DOMAIN saved = Fields
  /\ told \in [Cue -> Nat]
  /\ \A c \in Cue : EdgeOf(c).telemetry.once => Recorded(c)

----------------------------------------------------------------------------
\* Following a transition touches neither the telemetry nor what has fired.

LEMMA AdvanceKeeps ==
  ASSUME NEW s, DOMAIN s = Fields
  PROVE  Keeps(s, Advance(s).s)
BY DEF Advance, Walked, Ok, Raise, Keeps, Fields

LEMMA CompletionKeeps ==
  ASSUME NEW s, DOMAIN s = Fields, NEW f
  PROVE  Keeps(s, HandleFlowCompletion(s, f))
<1>1. Keeps(s, PopFlow(s))
  BY DEF PopFlow, Keeps, Fields
<1>2. \A g : Keeps(s, ChainFlow(s, g))
  BY DEF ChainFlow, ReplaceFlow, Keeps, Fields
<1>3. Keeps(s, s)
  BY DEF Keeps
<1> QED BY <1>1, <1>2, <1>3 DEF HandleFlowCompletion

LEMMA SettleKeeps ==
  ASSUME NEW s, DOMAIN s = Fields
  PROVE  Keeps(s, Settle(s).s)
<1>1. ASSUME NEW t, DOMAIN t = Fields PROVE Keeps(t, Complete(t).s)
  <2> DEFINE c == HandleFlowCompletion(t, t.flow)
  <2>1. Keeps(t, c)
    BY <1>1, CompletionKeeps
  <2>2. Complete(t) = IF c.flow = t.flow THEN Ok(c) ELSE Advance(c)
    BY DEF Complete
  <2> HIDE DEF c
  <2>3. Keeps(c, Advance(c).s)
    BY <2>1, AdvanceKeeps DEF Keeps
  <2> QED BY <2>1, <2>2, <2>3 DEF Keeps, Ok
<1>2. Keeps(s, Advance(s).s)
  BY AdvanceKeeps
<1> QED BY <1>1, <1>2 DEF Settle, Keeps

LEMMA FollowKeeps ==
  ASSUME NEW s, DOMAIN s = Fields, NEW e
  PROVE  Keeps(s, Follow(s, e).s)
<1> DEFINE f == IF e.interrupt = None THEN s.flow ELSE e.interrupt
           t == IF e.interrupt = None THEN [s EXCEPT !.state = e.to]
                                      ELSE PushFlow(s, f, e.to)
           u == [t EXCEPT !.env = RunActions(t.env, <<e>>)]
<1>1. Follow(s, e) = Settle(u) \/ \E status : Follow(s, e) = Raise(s, status)
  BY DEF Follow
<1>2. Keeps(s, t)
  BY DEF PushFlow, Keeps, Fields
<1> HIDE DEF t
<1>3. Keeps(s, u)
  BY <1>2 DEF Keeps, Fields
<1> HIDE DEF u
<1>4. Keeps(u, Settle(u).s)
  BY <1>3, SettleKeeps DEF Keeps
<1> QED BY <1>1, <1>3, <1>4 DEF Keeps, Raise

LEMMA ReceiveKeeps ==
  ASSUME NEW s, DOMAIN s = Fields
  PROVE  Keeps(s, Receive(s).s)
BY DEF Receive, Walked, Ok, Raise, Keeps, Fields

LEMMA ReadbackKeeps ==
  ASSUME NEW s, DOMAIN s = Fields, NEW c, NEW correct
  PROVE  Keeps(s, EvaluateReadback(s, c, correct).s)
BY DEF EvaluateReadback, Keeps, Fields

----------------------------------------------------------------------------
\* The steps

\* What was recorded stays recorded.
Grows ==
  /\ DOMAIN session' = Fields
  /\ DOMAIN saved' = Fields
  /\ \A k : k \in session.fired /\ k \in saved.fired => k \in session'.fired /\ k \in saved'.fired

LEMMA RespondGrows ==
  ASSUME OnceInv, NEW r, NEW reason, NEW edge, Respond(r, reason, edge),
         DOMAIN r.s = Fields, \A k \in session.fired : k \in r.s.fired
  PROVE  Grows
BY DEF OnceInv, Respond, Grows

LEMMA TransmitGrows ==
  ASSUME OnceInv, NEW u, Reject \/ Transmit(u) \/ Timeout
  PROVE  Grows
<1> DEFINE s == Receive(session).s
<1>0. DOMAIN session = Fields
  BY DEF OnceInv
<1>1. Keeps(session, s)
  BY <1>0, ReceiveKeeps
<1> HIDE DEF s
<1>2. ASSUME NEW t, Keeps(session, t) PROVE \A e : Keeps(session, Follow(t, e).s)
  BY <1>2, FollowKeeps DEF Keeps
<1>3. SUFFICES \E r, reason, edge : Keeps(session, r.s) /\ Respond(r, reason, edge)
  BY RespondGrows DEF Keeps
<1>4. CASE Reject
  BY <1>1, <1>4 DEF Reject, s
<1>5. CASE Timeout
  <2>1. Keeps(session, session)
    BY <1>0 DEF Keeps
  <2> QED BY <1>2, <1>5, <2>1 DEF Timeout, Raise
<1>6. CASE DeclareEmergency(u, s)
  <2> DEFINE d == [s EXCEPT !.distress = TRUE]
  <2>1. Keeps(session, d)
    BY <1>1 DEF Keeps, Fields
  <2>2. Respond(Follow(d, MaydayEdge), "emergency_override", MaydayEdge)
    BY <1>6 DEF DeclareEmergency
  <2> HIDE DEF d
  <2> QED BY <1>2, <2>1, <2>2
<1>7. CASE CancelEmergency(u, s)
  <2> DEFINE d == [s EXCEPT !.distress = FALSE]
  <2>1. Keeps(session, Ok(d).s)
    BY <1>1 DEF Keeps, Fields, Ok
  <2>2. Respond(Ok(d), "emergency_cancel", None)
    BY <1>7 DEF CancelEmergency
  <2> HIDE DEF d
  <2> QED BY <2>1, <2>2
<1>8. CASE Greet(u, s)
  BY <1>1, <1>8 DEF Greet, Ok
<1>9. CASE Route(u, s)
  <2>1. PICK c \in Selections(u, s), correct \in BOOLEAN :
          LET g == EvaluateReadback(s, c, correct)
              e == HardFallback(g.s, g.edge)
          IN  Respond(IF e = None THEN Raise(g.s, "unprocessable") ELSE Follow(g.s, e),
                      c.reason, e)
    BY <1>9 DEF Route
  <2> DEFINE g == EvaluateReadback(s, c, correct)
             e == HardFallback(g.s, g.edge)
             r == IF e = None THEN Raise(g.s, "unprocessable") ELSE Follow(g.s, e)
  <2>2. Respond(r, c.reason, e)
    BY <2>1
  <2>3. Keeps(session, g.s)
    BY <1>1, ReadbackKeeps DEF Keeps
  <2> HIDE DEF g, e
  <2>4. Keeps(session, r.s)
    BY <1>2, <2>3 DEF Raise
  <2> HIDE DEF r
  <2> QED BY <2>2, <2>4
<1> QED BY <1>4, <1>5, <1>6, <1>7, <1>8, <1>9 DEF Transmit, s

\* A cue is a transition of a state of a flow.
LEMMA CueIsEdge ==
  ASSUME NEW c \in Cue
  PROVE  /\ c[1] \in Slug /\ c[2] \in States(c[1])
         /\ EdgeOf(c) # None /\ c[3] \in DOMAIN State(c[1], c[2]).auto
<1>1. PICK f \in Slug : \E st \in States(f) : \E i \in DOMAIN State(f, st).auto : c = <<f, st, i>>
  BY DEF Cue
<1> PICK st \in States(f) : \E i \in DOMAIN State(f, st).auto : c = <<f, st, i>>
  BY <1>1
<1> PICK i \in DOMAIN State(f, st).auto : c = <<f, st, i>>
  OBVIOUS
<1>2. State(f, st).auto[i] \in Transitions(State(f, st))
  BY Zenon DEF Transitions, TransitionLists
<1>3. State(f, st).auto[i] # None
  BY <1>2, TransitionsAreLists
<1> QED BY <1>1, <1>3 DEF EdgeOf

\* The edge a tick fires is one that is due: had it been spoken, it would not be live.
LEMMA DueIsLive ==
  ASSUME NEW s, s.flow \in Slug, s.state \in States(s.flow), Due(s) # {}
  PROVE  Min(Due(s)) \in Due(s)
<1>1. Here(s).auto \in TransitionLists(State(s.flow, s.state))
  BY DEF TransitionLists, Here
<1>2. Here(s).auto \in Seq({Here(s).auto[i] : i \in DOMAIN Here(s).auto})
  BY <1>1, TransitionsAreLists
<1>3. DOMAIN Here(s).auto \subseteq Nat
  BY <1>2
<1>4. Due(s) \in SUBSET Nat
  BY <1>3 DEF Due, Holding, Live
<1> QED BY <1>4, MinIsLeast

LEMMA TickOnce ==
  ASSUME OnceInv, NEW reading \in Reading, Tick(reading)
  PROVE  /\ Grows
         /\ \A c \in Cue : Fires(c) /\ EdgeOf(c).telemetry.once =>
              /\ KeyOf(c) \notin session.fired
              /\ reply'.status = "ok" => KeyOf(c) \in session'.fired /\ KeyOf(c) \in saved'.fired
<1> DEFINE s == [session EXCEPT !.telemetry = Update(session.telemetry, reading)]
           i == Min(Due(s))
<1>1. DOMAIN session = Fields /\ Keeps(s, s) /\ s.fired = session.fired
      /\ s.flow = session.flow /\ s.state = session.state
  BY DEF OnceInv, Keeps, Fields
<1>2. \/ s.state \notin States(s.flow) /\ Respond(Raise(s, "not_found"), "telemetry", None)
      \/ \E t \in {s, Examine(s)} : Respond(Ok(t), "telemetry", None)
      \/ Due(s) # {} /\ Respond(Fire(Examine(s), i), "telemetry", Here(s).auto[i])
  BY DEF Tick
<1> HIDE DEF s, i
<1>3. ASSUME NEW t \in {s, Examine(s)}
      PROVE  /\ DOMAIN t = Fields
             /\ t.flow = s.flow /\ t.state = s.state
             /\ t.telemetry = s.telemetry /\ t.fired = s.fired
  BY <1>1 DEF Examine, Keeps, Fields
<1>4. ASSUME NEW r, Respond(r, "telemetry", None), DOMAIN r.s = Fields,
             r.s.fired = session.fired
      PROVE  Grows /\ \A c \in Cue : ~Fires(c)
  <2>1. reply'.edge = None
    BY <1>4 DEF Respond
  <2> QED BY <1>4, <2>1, RespondGrows, CueIsEdge DEF Fires
<1>5. CASE s.state \notin States(s.flow) /\ Respond(Raise(s, "not_found"), "telemetry", None)
  <2>1. Raise(s, "not_found").s = s
    BY DEF Raise
  <2> QED BY <1>1, <1>3, <1>4, <1>5, <2>1
<1>6. CASE \E t \in {s, Examine(s)} : Respond(Ok(t), "telemetry", None)
  <2> PICK t \in {s, Examine(s)} : Respond(Ok(t), "telemetry", None)
    BY <1>6
  <2>1. Ok(t).s = t
    BY DEF Ok
  <2> QED BY <1>1, <1>3, <1>4, <2>1
<1>7. CASE Due(s) # {} /\ Respond(Fire(Examine(s), i), "telemetry", Here(s).auto[i])
  <2> DEFINE t   == Examine(s)
             e   == Here(s).auto[i]
             key == TelemetryKey(s, i)
             v   == [t EXCEPT !.fired = IF e.telemetry.once THEN @ \cup {key} ELSE @]
             r   == Fire(t, i)
  <2>1. /\ DOMAIN t = Fields /\ t.flow = s.flow /\ t.state = s.state
        /\ t.telemetry = s.telemetry /\ t.fired = session.fired
    BY <1>1, <1>3
  <2>2. Here(t) = Here(s) /\ TelemetryKey(t, i) = key
    BY <2>1 DEF Here, TelemetryKey
  <2> HIDE DEF t
  <2>3. r = Follow(v, e)
    BY <2>2 DEF Fire
  <2>4. /\ DOMAIN v = Fields /\ v.telemetry = s.telemetry
        /\ v.fired = IF e.telemetry.once THEN session.fired \cup {key} ELSE session.fired
    BY <2>1 DEF Fields
  <2> HIDE DEF v, key, e
  <2>5. Keeps(v, r.s)
    BY <2>3, <2>4, FollowKeeps
  <2> HIDE DEF r
  <2>6. Respond(r, "telemetry", e)
    BY <1>7 DEF r, t, e
  <2>7. DOMAIN r.s = Fields /\ r.s.telemetry = s.telemetry /\ r.s.fired = v.fired
    BY <2>4, <2>5 DEF Keeps
  <2>8. Grows
    BY <2>4, <2>6, <2>7, RespondGrows
  <2>9. ASSUME NEW c \in Cue, Fires(c), EdgeOf(c).telemetry.once
        PROVE  /\ KeyOf(c) \notin session.fired
               /\ reply'.status = "ok" => KeyOf(c) \in session'.fired /\ KeyOf(c) \in saved'.fired
    <3>1. session' = r.s /\ (reply'.status = "ok" => saved' = r.s)
      BY <2>6 DEF Respond
    <3>2. [session EXCEPT !.telemetry = session'.telemetry] = s
      BY <2>7, <3>1 DEF s, OnceInv, Fields
    <3>3. c[1] = s.flow /\ c[2] = s.state /\ c[3] = i
      BY <1>1, <2>9, <3>2 DEF Fires, i
    <3>4. EdgeOf(c) = e /\ KeyOf(c) = key
      BY <3>3 DEF EdgeOf, KeyOf, TelemetryKey, Here, e, key
    <3>5. i \in Due(s)
      BY <1>7, <3>3, CueIsEdge, DueIsLive DEF i
    <3>6. key \notin s.fired
      BY <2>9, <3>4, <3>5 DEF Due, Holding, Live, e, key
    <3> QED BY <1>1, <2>4, <2>7, <2>9, <3>1, <3>4, <3>6
  <2> QED BY <2>8, <2>9
<1> QED BY <1>2, <1>5, <1>6, <1>7

LEMMA OnceStep == OnceInv /\ [HNext]_hvars => OnceInv'
<1> SUFFICES ASSUME OnceInv, [HNext]_hvars PROVE OnceInv'
  OBVIOUS
<1>1. ASSUME Grows, UNCHANGED told PROVE OnceInv'
  BY <1>1 DEF OnceInv, Grows, Recorded, KeyOf, EdgeOf
<1>2. ASSUME Reject \/ (\E u \in Utterance : Transmit(u)) \/ Timeout, UNCHANGED told
      PROVE  OnceInv'
  BY <1>1, <1>2, TransmitGrows
<1>3. ASSUME PassTime \/ Restart \/ UNCHANGED vars, UNCHANGED told
      PROVE  OnceInv'
  <2>1. Grows
    BY <1>3 DEF PassTime, Restart, vars, OnceInv, Grows
  <2> QED BY <1>1, <1>3, <2>1
<1>4. ASSUME NEW reading \in Reading, Tick(reading), Observe PROVE OnceInv'
  <2>1. /\ Grows
        /\ \A c \in Cue : Fires(c) /\ EdgeOf(c).telemetry.once =>
             /\ KeyOf(c) \notin session.fired
             /\ reply'.status = "ok" => KeyOf(c) \in session'.fired /\ KeyOf(c) \in saved'.fired
    BY <1>4, TickOnce
  <2>2. told' = [c \in Cue |-> IF Fires(c) /\ reply'.status = "ok" THEN told[c] + 1 ELSE told[c]]
    BY <1>4 DEF Observe
  <2>3. told' \in [Cue -> Nat]
    BY <2>2 DEF OnceInv
  <2>4. ASSUME NEW c \in Cue, EdgeOf(c).telemetry.once PROVE Recorded(c)'
    <3>1. Recorded(c) /\ told[c] \in Nat
      BY <2>4 DEF OnceInv
    <3>2. KeyOf(c)' = KeyOf(c)
      BY DEF KeyOf, EdgeOf
    <3>3. CASE Fires(c) /\ reply'.status = "ok"
      BY <2>1, <2>2, <2>4, <3>1, <3>2, <3>3 DEF Recorded
    <3>4. CASE ~(Fires(c) /\ reply'.status = "ok")
      BY <2>1, <2>2, <3>1, <3>2, <3>4 DEF Recorded, Grows
    <3> QED BY <3>3, <3>4
  <2> QED BY <2>1, <2>3, <2>4 DEF OnceInv, Grows, EdgeOf
<1> QED BY <1>2, <1>3, <1>4 DEF HNext, Ticks, hvars, history

THEOREM OnceInvariance == HSpec => []OnceInv
<1>1. HInit => OnceInv
  BY DEF HInit, Init, NewSession, OnceInv, Recorded, Fields
<1> QED BY <1>1, OnceStep, PTL DEF HSpec

\* A cue marked once is spoken at most once in the life of a session, however its
\* ticks repeat, whatever fails after it fired, and through every restart.
THEOREM SpokenOnce == HSpec => []OncePerSession
<1>1. OnceInv => OncePerSession
  BY DEF OnceInv, Recorded, OncePerSession
<1> QED BY <1>1, OnceInvariance, PTL
=============================================================================
