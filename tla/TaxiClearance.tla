--------------------------- MODULE TaxiClearance ---------------------------
(***************************************************************************)
(* From the creation of a session to its taxi clearance read back: the     *)
(* session route (app/routes/session_routes.py) has the taxi route worked  *)
(* out from OpenStreetMap, at once for a session that starts in the taxi   *)
(* flow, in the background for one that chains into it (app/taxi_route_    *)
(* service.py), through the process-wide Overpass client with its cache    *)
(* (OverpassClient of app/airport_geocode.py); meanwhile the session goes  *)
(* on to the clearance (flows/taxi-v1.yaml) and its readback. One query    *)
(* stands for all those of an airport; the map at Overpass has versions,   *)
(* and the route worked out from version v is the plan v.                  *)
(***************************************************************************)
EXTENDS ReadbackEvaluator

CONSTANTS
  Session,
  Drill,           \* the sessions that start in the taxi flow; the others chain into it
  Runway,          \* the departure runway, a value
  Hold,            \* plan -> the runways it crosses; the flow's default is plan 0
  Utterance,       \* what pilots may say in the readback
  cache_ttl_seconds,
  MaxVersion, MaxTime   \* bounds of the map's versions and of the clock

ASSUME ClearanceAssumption ==
  /\ cache_ttl_seconds \in Nat /\ MaxVersion \in Nat \ {0} /\ MaxTime \in Nat
  /\ Drill \subseteq Session /\ DOMAIN Hold = 0..MaxVersion
  /\ None \notin Nat /\ None \notin [stamp : Nat, version : Nat]

\* A plan crosses finitely many runways, and None is no value and no side.
ASSUME RunwayAssumption ==
  /\ Runway \in RunwayValues
  /\ \A plan \in DOMAIN Hold : Hold[plan] \subseteq RunwayValues /\ IsFiniteSet(Hold[plan])
  /\ None \notin Value \cup Side

VARIABLES
  session,      \* [live, phase, plan, spoken, attempts] of every session
  job,          \* the computation of every session's route
  cache,        \* the answer the client keeps, [stamp, version]
  heard,        \* the readback the last step graded, None when it graded none
  version,      \* of the map, at Overpass
  superseded,   \* when a version was replaced
  now

vars == <<session, job, cache, heard, version, superseded, now>>

MAX_READBACK_ATTEMPTS == 3

Unborn == [live |-> FALSE, phase |-> "none", plan |-> None, spoken |-> None, attempts |-> 0]
Idle == [at |-> "idle", asked |-> 0, stamp |-> 0, version |-> 0]

Init ==
  /\ session = [s \in Session |-> Unborn]
  /\ job = [s \in Session |-> Idle]
  /\ cache = None
  /\ heard = None
  /\ version = 1
  /\ superseded = [v \in 1..MaxVersion |-> None]
  /\ now = 0

----------------------------------------------------------------------------
\* POST /session

\* A slip: a drill's route is worked out in the background, too.
CreateDrillAtOnce(s) ==
  /\ s \in Drill /\ session[s].phase = "none"
  /\ session' = [session EXCEPT ![s] = [@ EXCEPT !.live = TRUE, !.phase = "taxi", !.plan = 0]]
  /\ job' = [job EXCEPT ![s].at = "queued"]
  /\ heard' = None
  /\ UNCHANGED <<cache, version, superseded, now>>

\* The request waits for the route before it creates the session.
CreateDrill(s) ==
  /\ s \in Drill /\ session[s].phase = "none"
  /\ session' = [session EXCEPT ![s].phase = "creating"]
  /\ job' = [job EXCEPT ![s].at = "ask"]
  /\ heard' = None
  /\ UNCHANGED <<cache, version, superseded, now>>

\* The session is created; the background task follows the response.
CreateDeparture(s) ==
  /\ s \notin Drill /\ session[s].phase = "none"
  /\ session' = [session EXCEPT ![s].live = TRUE, ![s].phase = "clearance"]
  /\ job' = [job EXCEPT ![s].at = "queued"]
  /\ heard' = None
  /\ UNCHANGED <<cache, version, superseded, now>>

\* _compute_taxi_route_in_background looks its session up.
Begin(s) ==
  /\ job[s].at = "queued"
  /\ job' = [job EXCEPT ![s].at = IF session[s].live THEN "ask" ELSE "done"]
  /\ heard' = None
  /\ UNCHANGED <<session, cache, version, superseded, now>>

----------------------------------------------------------------------------
\* OverpassClient.fetch_json

Cached == cache # None /\ now - cache.stamp <= cache_ttl_seconds

\* The time is taken before the query is sent.
Fetch(s) ==
  /\ job[s].at = "ask"
  /\ job' = [job EXCEPT ![s] =
       IF Cached
       THEN [at |-> "have", asked |-> now, stamp |-> cache.stamp, version |-> cache.version]
       ELSE [at |-> "sent", asked |-> now, stamp |-> now, version |-> version]]
  /\ heard' = None
  /\ UNCHANGED <<session, cache, version, superseded, now>>

\* A slip: the answer counts as fresh from when it arrives.
AnswerStampedLate(s) ==
  /\ job[s].at = "sent"
  /\ \E v \in job[s].version..version :
       /\ cache' = [stamp |-> now, version |-> v]
       /\ job' = [job EXCEPT ![s].at = "have", ![s].version = v]
  /\ heard' = None
  /\ UNCHANGED <<session, version, superseded, now>>

\* The map as it was at some time since the query was sent.
Answer(s) ==
  /\ job[s].at = "sent"
  /\ \E v \in job[s].version..version :
       /\ cache' = [stamp |-> job[s].stamp, version |-> v]
       /\ job' = [job EXCEPT ![s].at = "have", ![s].version = v]
  /\ heard' = None
  /\ UNCHANGED <<session, version, superseded, now>>

\* A slip: the query is sent again until it is answered.
FailAgain(s) ==
  /\ job[s].at = "sent"
  /\ job' = [job EXCEPT ![s].at = "ask"]
  /\ heard' = None
  /\ UNCHANGED <<session, cache, version, superseded, now>>

\* A timeout or an unusable answer: nothing is kept, the route is not worked out.
Fail(s) ==
  /\ job[s].at = "sent"
  /\ job' = [job EXCEPT ![s].at = "failed"]
  /\ heard' = None
  /\ UNCHANGED <<session, cache, version, superseded, now>>

----------------------------------------------------------------------------
\* maybe_compute_taxi_route: the plan, or None when anything is missing.
Computed(s) == IF job[s].at = "failed" THEN {None} ELSE {None, job[s].version}

Finished(s) == [job EXCEPT ![s] = [Idle EXCEPT !.at = "done"]]

\* A slip: the flow's default is forgotten.
ConcludeDrillBare(s) ==
  /\ session[s].phase = "creating" /\ job[s].at \in {"have", "failed"}
  /\ \E plan \in Computed(s) :
       session' = [session EXCEPT ![s] = [@ EXCEPT !.live = TRUE, !.phase = "taxi", !.plan = plan]]
  /\ job' = Finished(s)
  /\ heard' = None
  /\ UNCHANGED <<cache, version, superseded, now>>

\* create_session: what was worked out goes before the flow's default.
ConcludeDrill(s) ==
  /\ session[s].phase = "creating" /\ job[s].at \in {"have", "failed"}
  /\ \E plan \in Computed(s) :
       session' = [session EXCEPT ![s] = [@ EXCEPT
         !.live = TRUE, !.phase = "taxi", !.plan = IF plan = None THEN 0 ELSE plan]]
  /\ job' = Finished(s)
  /\ heard' = None
  /\ UNCHANGED <<cache, version, superseded, now>>

\* The session is looked up again and the route written on it.
Refetch(s) ==
  /\ session[s].phase # "creating" /\ job[s].at \in {"have", "failed"}
  /\ \E plan \in Computed(s) :
       IF plan = None \/ ~session[s].live
       THEN /\ job' = Finished(s)
            /\ UNCHANGED session
       ELSE /\ job' = [job EXCEPT ![s] = [Idle EXCEPT !.at = "found"]]
            /\ session' = [session EXCEPT ![s].plan = plan]
  /\ heard' = None
  /\ UNCHANGED <<cache, version, superseded, now>>

\* save_session, of a session that may have been deleted meanwhile.
Save(s) ==
  /\ job[s].at = "found"
  /\ session' = [session EXCEPT ![s].live = TRUE]
  /\ job' = Finished(s)
  /\ heard' = None
  /\ UNCHANGED <<cache, version, superseded, now>>

----------------------------------------------------------------------------
\* The session

\* A slip: the chained flow starts with its own variables.
ChainAnew(s) ==
  /\ session[s].live /\ session[s].phase = "clearance"
  /\ session' = [session EXCEPT ![s].phase = "taxi", ![s].plan = 0]
  /\ heard' = None
  /\ UNCHANGED <<job, cache, version, superseded, now>>

\* The chain into the taxi flow initialises the variables that are not there yet.
Chain(s) ==
  /\ session[s].live /\ session[s].phase = "clearance"
  /\ session' = [session EXCEPT ![s].phase = "taxi", ![s].plan = IF @ = None THEN 0 ELSE @]
  /\ heard' = None
  /\ UNCHANGED <<job, cache, version, superseded, now>>

\* ATC_TAXI_INSTRUCTIONS: say_template is rendered.
Instruct(s) ==
  /\ session[s].live /\ session[s].phase = "taxi"
  /\ session' = [session EXCEPT ![s].phase = "readback", ![s].spoken = session[s].plan]
  /\ heard' = None
  /\ UNCHANGED <<job, cache, version, superseded, now>>

\* A slip: the runways the flow's own default crosses.
RequiredByDefault(plan) == {Runway} \cup Hold[0]

\* readback_required: runway and crossing_runways, as the variables are now.
Required(plan) == {Runway} \cup Hold[plan]

\* PILOT_TAXI_READBACK: confirmed when it passes and after the third failure; else
\* the runway and the hold short clause are said again.
ReadBack(s, u) ==
  /\ session[s].live /\ session[s].phase = "readback"
  /\ LET passed == CheckReadback(u, Required(session[s].plan))
         over == passed \/ session[s].attempts + 1 >= MAX_READBACK_ATTEMPTS
     IN  /\ session' = [session EXCEPT
              ![s].phase = IF over THEN "confirmed" ELSE "readback",
              ![s].spoken = IF over THEN @ ELSE session[s].plan,
              ![s].attempts = IF over THEN 0 ELSE @ + 1]
         /\ heard' = [session |-> s, said |-> u, passed |-> passed]
  /\ UNCHANGED <<job, cache, version, superseded, now>>

\* The object lives on while the background task holds it.
Delete(s) ==
  /\ session[s].live
  /\ session' = [session EXCEPT ![s] =
       IF job[s].at = "found" THEN [@ EXCEPT !.live = FALSE] ELSE [Unborn EXCEPT !.phase = "gone"]]
  /\ heard' = None
  /\ UNCHANGED <<job, cache, version, superseded, now>>

----------------------------------------------------------------------------
\* Outside the program

EditMap ==
  /\ version < MaxVersion
  /\ version' = version + 1
  /\ superseded' = [superseded EXCEPT ![version] = now]
  /\ heard' = None
  /\ UNCHANGED <<session, job, cache, now>>

PassTime ==
  /\ now < MaxTime
  /\ now' = now + 1
  /\ heard' = None
  /\ UNCHANGED <<session, job, cache, version, superseded>>

Work(s) ==
  \/ Begin(s)
  \/ Fetch(s)
  \/ Answer(s)
  \/ Fail(s)
  \/ ConcludeDrill(s)
  \/ Refetch(s)
  \/ Save(s)

Next ==
  \/ \E s \in Session : CreateDrill(s)
  \/ \E s \in Session : CreateDeparture(s)
  \/ \E s \in Session : Work(s)
  \/ \E s \in Session : Chain(s)
  \/ \E s \in Session : Instruct(s)
  \/ \E s \in Session, u \in Utterance : ReadBack(s, u)
  \/ \E s \in Session : Delete(s)
  \/ EditMap
  \/ PassTime

\* The threadpool runs requests and background tasks on, and urlopen has a timeout;
\* nothing makes a pilot speak.
Spec == Init /\ [][Next]_vars /\ \A s \in Session : WF_vars(Work(s))

----------------------------------------------------------------------------
Plan == DOMAIN Hold \cup {None}

Record ==
  [live : BOOLEAN,
   phase : {"none", "creating", "clearance", "taxi", "readback", "confirmed", "gone"},
   plan : Plan, spoken : Plan, attempts : 0..MAX_READBACK_ATTEMPTS - 1]

Job ==
  [at : {"idle", "queued", "ask", "sent", "have", "failed", "found", "done"},
   asked : 0..now, stamp : 0..now, version : 0..version]

\* From the taxi flow on there is a route to speak of; what a job has asked for and
\* what the cache holds is a version of the map that was there by now.
TypeOK ==
  /\ session \in [Session -> Record]
  /\ \A s \in Session : session[s].phase \in {"taxi", "readback", "confirmed"}
                            => session[s].plan # None
  /\ job \in [Session -> Job]
  /\ cache \in [stamp : 0..now, version : 1..version] \cup {None}
  /\ version \in 1..MaxVersion /\ now \in 0..MaxTime
  /\ superseded \in [1..MaxVersion -> (0..now) \cup {None}]

\* OverpassClient.fetch_json: what a request gets was the map at some time within
\* the TTL before it asked, however slow the queries that filled the cache were and
\* in whatever order their answers came.
ServedFresh ==
  \A s \in Session : job[s].at = "have" =>
    \/ superseded[job[s].version] = None
    \/ superseded[job[s].version] >= job[s].asked - cache_ttl_seconds

\* The route worked out for a session is never given up for the flow's default: not
\* by the chain into the taxi flow, not by a computation that fails.
ComputedRouteKept ==
  [][\A s \in Session :
       session[s].plan \notin {None, 0} /\ session'[s].phase # "gone"
         => session'[s].plan \notin {None, 0}]_vars

\* The clearance as ATC says it and the pilot repeats it, the runways to hold short
\* of in some order.
Spoken(r) == IF r.side = None THEN r.digits ELSE Append(r.digits, r.side)

Orders(runways) ==
  {order \in [1..Cardinality(runways) -> runways] : runways \subseteq ToSet(order)}

Verbatim(holds) ==
  LET upTo[k \in 0..Len(holds)] ==
        IF k = 0 THEN <<"runway">> \o Spoken(Runway) \o <<"via", "route">>
        ELSE upTo[k - 1] \o <<"hold short">> \o Spoken(holds[k])
  IN  upTo[Len(holds)]

\* say_template, readback_required and the evaluator fit together: a pilot who
\* repeats the clearance is confirmed the first time, unless the route has changed
\* since it was said.
VerbatimConfirmed ==
  [][heard' # None =>
       LET record == session[heard'.session]
           clearances == {Verbatim(holds) : holds \in Orders(Hold[record.spoken])}
       IN  record.plan = record.spoken /\ heard'.said \in clearances => heard'.passed]_vars

\* A drill's clearance is graded as it was spoken: its route is there before it is.
DrillGradedAsSpoken ==
  \A s \in Drill : session[s].phase \in {"readback", "confirmed"}
                     => session[s].spoken = session[s].plan

\* Whatever Overpass does, a drill that was asked for is created, and a departure's
\* background task comes to its end.
EveryJobEnds == \A s \in Session : job[s].at # "idle" ~> job[s].at = "done"

----------------------------------------------------------------------------
\* app/routes/session_routes.py: "the result is in place by the time the flow renders
\* it; if the computation is slow or fails, the YAML default simply stands."
DefaultStands ==
  \A s \in Session : session[s].phase \in {"readback", "confirmed"} /\ session[s].spoken = 0
                       => session[s].plan = 0
============================================================================
