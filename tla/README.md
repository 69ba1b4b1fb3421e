# OpenSquawk API: models, checks and proofs

OpenSquawk API is the backend of a radio trainer. A session plays *decision
flows* (YAML files: clearance, taxi, tower, departure, arrival, emergency) with
a pilot. Each request (an utterance, a silence timeout or a tick of simulator
telemetry) moves the session through states of its flow, suspends the flow for
an emergency, resumes it or chains to the next one. Sessions live in a cache
backed by SQLite. The taxi clearance of a session is worked out from
OpenStreetMap, and what a pilot reads back is graded.

The modules here model the engine, the session store, the flow loader and
validator, the taxi routing with its Overpass client, and the readback
evaluator. TLC checks them on small instances; TLAPS proves nearly all of the safety
properties (of the engine, its telemetry and overlapping requests, the validator,
the store, the flow loader, the taxi routing, the taxi clearance and its readback)
for every instance.
All paths below are relative to the repository.

Contents: [system](#the-system) · [modules](#modules) ·
[abstractions](#abstractions) · [runs](#runs) ·
[fairness](#fairness) · [proofs](#proofs) · [divergences](#where-code-and-docs-differ) ·
[limits](#what-is-not-covered) · [plan](#what-could-come-next)

## The system

| component | state | operations | what makes it correct |
|---|---|---|---|
| decision flows: `app/models.py`, `guard_evaluator.py`, `trigger_matcher.py`, `action_executor.py`, `auto_advance.py` | – | pure functions on a loaded flow | a guard decides eligibility; the silent walk ends; actions run on entering |
| flow loader: `app/flow_loader.py`, `routes/flow_routes.py` | `_flow_cache`, shared by all threads | load, reload, `get_flow` | after a reload the cache is what the disk holds; a bare name means the latest version |
| flow validator: `app/flow_validator.py` | – | errors, reachability, potential deadlocks | what it calls unreachable is never reached; what it calls valid loses no session |
| orchestrator: `app/flow_orchestrator.py` | `active_flow`, `current_state`, `flow_stack`, `state_stack` | push, pop, replace, completion | both stacks in step and bounded; resume exactly where suspended; chain only with nothing suspended |
| engine: `app/decision_engine.py` | the `RuntimeSession` | `process_transmission`, `process_timeout`, `process_telemetry` | a session is never lost, waits for the pilot, and lets the pilot out of a readback; cues are spoken once and when due |
| overlapping requests on one session | the same, and the local variables of requests in progress | a transmission before and after its router call | what is saved can be resumed |
| session store: `app/session_store.py` | `_sessions`, `_touched_at`, `_last_sweep`, table `sessions` | create, get, save, delete, list, sweep, restart | a session is found until deleted or idle for the TTL; no saved turn is lost |
| session routes: `app/routes/session_routes.py`, `taxi_route_service.py` | – | create (with the taxi route at once or in the background), inspect, delete, list | the route is there when it is spoken; the background write undoes no turn and no other write undoes it |
| Overpass client: `OverpassClient` in `app/airport_geocode.py` | its cache | `fetch_json` | an answer is never older than the TTL |
| taxi routing: `app/taxi_routing.py`, features in `app/airport_geocode.py` | – | checks, queries, graph, attachment, Dijkstra, names, crossings | the shortest route; every runway crossed is told, by its nearer end; names resolve as meant |
| readback evaluator: `app/readback_evaluator.py` | – | `check_readback` | right readbacks pass, wrong ones do not |
| LLM router: `app/llm_router.py` | – | one HTTP call inside step 6b | its answer is among the offered targets |
| shipped flows: `flows/*.yaml` | – | – | they fit the engine and the evaluator |
| template renderer, airport data, tool routes, configuration, live ATC proxy, scripts | – | stateless | |

How they interact. Every request looks its session up in the store, changes the
object it got *in place and without a lock*, and saves it when it succeeds;
requests on one session share one object and run in threads. An exception leaves
the object changed and the row as it was. The engine calls the orchestrator and
the flow functions; a transmission may spend ten seconds in the router call.
Creating a session that starts in the taxi flow waits for the route; any other
starts a background task that looks the session up, queries Overpass, looks the
session up again, writes the route on it and saves it. All these tasks share one
Overpass client and its cache. Meanwhile the session chains into the taxi flow,
whose clearance and readback are rendered from the variables it has by then. A
reload empties and refills the dictionary every request takes its flows from.

What is hard here: exceptions halfway through a request; silence timeouts that
do not say which state they are for; completion handled once per request;
guards evaluated before the actions of the walk; telemetry bookkeeping that
outlives the state it belongs to; a readback the speech recogniser never gets
right; another request moving the session during the router call; a save racing
a deletion; SQLite failing; a rate-limited sweep; restarts; a route that arrives
late, or never; slow answers that fill a cache in the wrong order; reloads that
overlap; geometry that touches where it should cross; names that contain each
other. `PROJECT.json` lists each of these under `hazards` with its line and the
property that covers it.

## Modules

```
FlowGraph ── FlowOrchestrator ── DecisionEngine ── TelemetryHistory ── MCTelemetryHistory
    │                              │  │  │                └── DecisionEngineProofs
    │                              │  │  └──────── FlowValidator ── MCDecisionEngine
    │                              │  │                └── DecisionEngineProofs
    │                              │  └─────────── OverlappingRequests ── MCOverlappingRequests
    └── TrainingSession ◄──────────┘                   └── OverlappingRequestsProofs
          (refines)                                        (uses DecisionEngineProofs)

SessionDirectory ◄── SessionStore ── SessionHistory ── MCSessionHistory
          (refines)                        └── SessionStoreProofs

AirportFeatures ── TaxiGraph ── TaxiRouting ── MCTaxiRouting
                                     └── TaxiRoutingProofs

ReadbackEvaluator ── ReadbackTurn ── MCReadbackTurn
        │                    └── ReadbackTurnProofs
        └── TaxiClearance ── MCTaxiClearance
                 └── TaxiClearanceProofs

FlowReload ── MCFlowReload
    └── FlowReloadProofs

FlowLibrary: the flow definitions the MC modules of the engine use
OrderLemmas: least elements, iteration and sequences within sequences, for the
             proofs of all but the session store
```

### The engine

**FlowGraph.** The loaded flows (constant `Flow`) and the functions the engine
evaluates on them. `SelectTransition` is `trigger_matcher.select_transition`,
`EvaluateGuard` is `guard_evaluator.evaluate_guard`, `RunActions` the net effect
of `execute_actions` over a list of transitions, `AdvanceThroughNonPilot` the
walk of `auto_advance.py`, one `Hop` per loop iteration, with its two loop
detectors.

**FlowOrchestrator.** `flow_orchestrator.py`, one operator per function, on a
record that has the session's fields.

**DecisionEngine.** One session under all three requests. `session` is the
cached object, `saved` the row, `reply` the last response. A handler is a chain
of operators on *outcomes*: the session as left behind, and how the request
ended (`ok` 200, `not_found` 404, `unprocessable` 422, `error` 500). `Respond`
puts the outcome in place: the object is changed whatever happened, the row only
on success.

| actions | code |
|---|---|
| `Reject`, `Transmit` → `DeclareEmergency`, `CancelEmergency`, `Greet`, `Route` | `process_transmission`: steps 1–4 (`Receive`), 5b, 5b-ii, 5c, 6–8 (`Selections`, `EvaluateReadback`, `HardFallback`), 9–11 (`Follow`, `Settle`) |
| `Timeout` | `process_timeout` |
| `Tick` | `process_telemetry` (`Live`, `Holding`, `Due`, `Examine`, `Fire`) and `_finalize_transition` |
| `Restart` | cache lost, `_load_from_db` |
| `PassTime` | the clock |

**TrainingSession** is the abstract specification of the engine: a position
(flow, state, suspended positions) that a request moves, suspends, resumes or
chains, and that a restart takes back to the last acknowledged one. `Restart`
and failed requests make it more than a restatement: a request that raises may
leave the session moved but not acknowledged, and still may not have changed
flow in any other way.

**TelemetryHistory** adds a memory of what the simulator reported and what the
pilot was told, independent of `fired_telemetry` and `telemetry_pending`.

**OverlappingRequests** splits a transmission at the router call
(`BeginTransmission`, `FinishTransmission`). `waiting` holds the local variables
of the handler: the flow and state it read, the edge chosen so far and the
reason the router was called. The second half is that of the code: guards,
target, walk and end states are those of the flow read *before* the call; the
stack, the variables and the position are the session's *after* it. All other
requests stay single steps, since next to a call over the network they take no
time; two transmissions may wait at once.

**FlowValidator** computes what `validate_flow` reports and compares it with
what the engine does with the same flow. It extends DecisionEngine, so that its
two properties are about sessions and not about the report.

**FlowLibrary** holds cut-down copies of `tower-v1`, `departure-v1`, `rto-v1`,
`ifr-arrival-v1` and `emergency-v1` that keep an exchange of every kind, with every
state of the exchanges they keep. (`rto-v1`, the rejected take-off, is there because
its end lies behind a pilot's call that is no readback.) `Waits` are the same flows
from the take-off on. `Schema` is three flows that nobody ships but the schema
accepts: nested and self-interrupting flows, an interrupt into a flow that is not
loaded, an edge to a state that does not exist, a cycle of controller states, a flow
that walks into its own end, guards in both spellings, states to which nothing in
their flow leads, under names that other flows have in use.

### The store

**SessionStore** is `session_store.py` with requests in progress: a session is
an *object* (`Obj`) that the cache and every request may hold, so that sharing,
and copies, are visible. `Lookup`, `Work`, `Save`, `Leave` are separate steps of
a request; every function of the store is one step since it holds `_lock`
throughout. **SessionDirectory** is what it promises its callers.
**SessionHistory** remembers what was saved and deleted, to state what callers
may conclude.

### The flow loader

**FlowReload.** `load_all_flows` file by file (`Start` puts an empty dictionary
in the cache's place, `Parse` reads a file, `Insert` puts its flow in,
`ParseError` ends the request), for several reload requests that fill the same
dictionary, while files are edited, broken or removed. `Ask` and `Scan` are `get_flow`: a slug is one look-up; a bare
name is a loop over the items of the dictionary, which Python ends with
`RuntimeError` when its size has changed meanwhile. The dictionary the loop runs
over may be the one that a reload has replaced (`held`).

### Taxi routing

**AirportFeatures.** Names and places. `Variants` is `normalize_with_prefixes`: the
whole name, the name without the word for its kind, and its last word. `MatchByName`
is `match_feature_by_name`, over every variant of the query and every key of every
feature, with `Score` and `Bias` to rank the hits; `MatchByCoordinate` is
`match_feature_by_coordinate`. `ApplyRunwayPoint` is `apply_runway_point`, whose
query may answer with the ends of the runway or without them.

**TaxiGraph.** The graph from a set of ways, the weight of connectors, connected
components, the attachment of the two endpoints (`AttachEndpoints`, together in one
component if any serves both), the collapsed taxiway names, and the crossings
with the half-open test and the announced designator.

**TaxiRouting.** `calculate_taxi_route` as a state machine: the checks on the
request, the query for the airport's features, the two endpoints one after the other
(`ResolveOrigin`, `ResolveDest`, each with the query for the ends of its runway,
which may fail), the three queries for ways (each may
fail, be empty or hold nothing routable), then Dijkstra's search, one heap
element per step, with stale elements left in the heap as in the code, and the
trace back. The answer is `route`, `no_route` with its diagnostics, or an error.

### Readback and clearance

**ReadbackEvaluator.** `check_readback` on utterances as sequences of words:
spoken forms per kind of value, digit runs (which swallow one decimal point between
two digits, as `_DIGIT_SEQ_SEP` does), round thousands and hundreds, frequencies with
their last zeros left out, procedures by ear. `Value` is the set of the values a
flow may ask for: runways, numbers, flight levels, frequencies of three digits of MHz
and decimals, SIDs and STARs.

**ReadbackTurn.** A pilot reads the values of a shipped clearance back, in any
of the ways pilots say them, perhaps with one of them wrong, against step 7 of
`process_transmission` (three attempts, then on).

**TaxiClearance** composes what happens between `POST /session` and the
confirmed taxi readback: session creation (`CreateDrill` waits for the route,
`CreateDeparture` leaves it to the background task), the Overpass client
(`Fetch`, `Answer`, `Fail`), the two ends of a computation (`ConcludeDrill` in
the request, `Refetch` and `Save` in the background), the chain into the taxi
flow, the clearance, its readback through ReadbackEvaluator, deletion, and edits
of the map. `job[s].at` is where the computation of session `s` is;
`session[s].plan` is what the route variables say, `spoken` what ATC said.

Definitions named like `PushFlowSwapped` or `LoadTouched`, introduced as slips,
are plausible bugs of the definition that follows them. No specification uses
them; each shows that a property would notice the bug.

## Abstractions

The engine and its flows:

- An utterance is a model value and a trigger regex the set of utterances it
  matches. The three global patterns (MAYDAY, cancel, greeting) are sets too.
- `variables` and `flags` are one function `env`; three reserved variables
  (`_emergency_active`, the counters `_rb_fail::<state>`) are fields of their own,
  `distress` and `rbFail`, since no flow writes them.
- The comparison in a guard, and a telemetry condition with its level parsing,
  template and offset, is the set of values it accepts. `EvaluateGuard` keeps
  which name is looked up.
- The router's choice and, in DecisionEngine, the verdict on a readback are
  nondeterministic.
- `on_exit` and `on_enter` actions are net writes; `log` and `call_service`
  change no state.
- The engine's flows are constant; FlowReload has the flows that change, each a
  slug and a revision of its text. `get_flow` finds full slugs only in the
  engine, and bare names in FlowReload.
- Derived distances of a tick are among the readings.
- Times are small integers. In the descent a unit stands for 6 seconds and held
  times are rounded up (3 s, 8 s and 12 s are 1, 2 and 2 units).
- The validator's warnings on ambiguous triggers sample one regex with strings
  made from another, and those on undeclared fields compare names; the model has
  neither regexes nor declarations.

The store:

- A failing SQLite statement has no effect (`SqlFails`); a failure after
  `execute` and before `commit` counts as one.
- What a session contains is, in SessionStore, the number of turns it records.

Taxi routing:

- Coordinates are integers on a grid, its distance stands for the haversine, a
  heading is a unit vector, and comparisons of projections are cross
  multiplied, so that everything is exact. What the code computes in floating
  point and compares is compared on integers here.
- A name is a sequence of words, and a word the tuple of the characters `normalize`
  leaves of it; a query's name is what `_analyze_query` leaves of it. A taxiway name
  is its letters and its number. A feature is its kind, its aliases, its centre and,
  of a runway mapped as a way, the way's two ends.
- An answer of Overpass is a set of ways, and the order of its elements, which
  decides ties, is any.
- The diagnostics of a failed route keep `same_component`; lengths, links to
  maps and the steps' coordinates are left out.

Readback and clearance:

- An utterance is a sequence of what is said: digits and words. 5, five and fife
  are one digit, L and left one word, 121.8 and "one two one decimal eight" the
  same sequence. A procedure is a stem, digits and a letter, and what is close
  enough to the stem in sound is a set of words (`SoundsLike`).
- One Overpass query stands for those of an airport: what matters to the cache is
  when it was sent, when it was answered and which version of the map it was
  answered from. A route worked out from version `v` is the plan `v`, the flow's
  default the plan 0, and a plan is the runways it crosses. The query does not
  block: the other sessions' steps interleave with it.
- The taxi route goes from a stand the code chooses at random; any is as good.

Rendered text, `decision_history`, traces and logs are left out.

## Runs

Twelve runs; `PROJECT.json` has for each property a mutant of the code that
breaks it.

| run | question | bounds, and why they suffice | states |
|---|---|---|---|
| `shipped` | Do the shipped flows keep a session alive, waiting for the pilot, and escapable? | 4 flows, 5 utterances (one per kind the engine tells apart), stack limit 5 as configured. No bound cuts anything but telemetry, which `descent` and `schema` have. | 951 |
| `schema` | Can *any* legal flow definition corrupt a session, and is the validator right about it? | 3 flows with every legal oddity, among them a state of each of them that nothing in its flow leads to but another flow's transitions name, stack limit 2, so that pushing fails; two readings, one that fires an edge after one tick of the clock and one that interrupts the flow at once; clock 0..1. | 24 196 |
| `descent` | Are cues spoken once, and only when held? | clock 0..4: the longest held time (2) fits twice, so the speed callout, which returns to the state it left, could be spoken again; two competing cues on different parameters. | 70 124 |
| `overlap` | What may another request do to a session while the router is asked? | the 4 flows of `shipped` from the take-off on, with silence, telemetry and MAYDAY; two transmissions may wait at once, so a late answer may meet another late answer's change; clock 0..1. | 31 466 |
| `store` | Is the cached table a directory that loses no turn? | 2 ids, 2 concurrent requests, 4 objects (two in the cache, two more held after a deletion), TTL 1 and sweep interval 2: an entry can be expired and unswept. | 71 613 |
| `store_faults` | What is left when SQLite fails? | 1 id, 2 requests, every statement may fail, several sweeps fit in the clock. | 218 664 |
| `taxi` | Is the route the shortest, are its crossings told, do names resolve as meant? | a field of six ways, and *every* subset of them as the map; 88 requests: by name, by position, both, none, with and without connectors, for located, unlocated, unnamed and malformed airports; any query may fail, and the one for a runway's ends may answer without them. The field has a runway met in a node, one crossed in the middle of a segment, one mapped without ends, a gate and a runway of the same number, stands 12 and A 12, numbered taxiways of one letter, and a part that hangs on an apron only. | 43 224 |
| `clearance` | Is the route fresh, kept, and read back as it was spoken? | a departure and a drill at one airport, so that their queries share the cache; a map edited once, plans that cross none, one and another runway; TTL 1 within a clock of 0..2, so that answers expire; four readbacks, one for each plan and one wrong. | 213 024 |
| `readback` | Are right readbacks accepted and wrong ones corrected? | the readbacks of four shipped flows with those flows' values, every way of saying each value, and one or more plausible mistakes per value. | 241 |
| `reload` | Do reloads and look-ups agree with the disk? | 3 files, two of which may hold the same slug and one of which may not parse; versions 2 and 10, whose spelling sorts the other way; 2 reloads at once, 1 reader, 2 edits. | 410 921 |
| `late_answer`, `late_route` | see [divergences](#where-code-and-docs-differ) | as `shipped` with two waiting transmissions; as `clearance` | violated |

The properties, in the order of the hazards they answer.

*Engine:*

- `PositionInv`: cached session and row are at a state of their flow, and so is
  every suspended flow, after failed requests too.
- `ImplementsTrainingSession`: the refinement above.
- `NeverBroken`: with the shipped flows no request answers 404 or 500.
- `WaitsForPilot`: between requests the session waits for the pilot, is
  complete, or has not started. In particular nobody is stranded on a controller
  state by a late timeout, a resume or a chain.
- `EscapesReadback`: a pilot who keeps talking leaves the readback.
- `OncePerSession`, `HeldWhileWaiting`: `once` over restarts, failed requests
  and detours; `for_ms` over the ticks that find the session at the state.
- `DistressWhileSuspended`, `RowResumable`, `StrandedOnlyAfterFlowChange` with
  overlapping requests: only the emergency flow suspends a flow, once, and
  distress is not cancelled from within it; the row can always be resumed,
  whatever a late answer does to the cached session; and only an answer that
  comes after a change of flow leaves the cached session outside its flow. Moves
  *within* the flow do no harm.
- `UnreachableIsNeverReached`, `LostStateWasReported`: what the validator says, of
  flows in which some states are unreachable and some edges lead nowhere.
  The exceptions in their statements are its blind spots: transitions that
  interrupt a flow are not looked at.

*Store:*

- `Mirrored`, `OneObject`, `KeepsSavedTurns`: the row mirrors the cache; all
  holders share one object; so a turn that was ever saved is never overwritten.
  `savedTurns` keeps the most turns any save recorded and never falls: an older
  copy saved over a newer one breaks `KeepsSavedTurns` although the last save is
  served as it was made.
- `ImplementsDirectory`: cache, sweep, rate limit and restart cannot be told
  from a directory. A lookup finds exactly the unexpired sessions; a listing
  contains them, possibly with expired ones.
- `IdleStaysTerminated`, `ServesUnexpired`, `FoundWithoutSql`: see their
  comments in SessionHistory.

*Flow loader:* `ReloadedIsDisk`, `ReloadTakesEffect`, `LatestServed`: once the
last of the overlapping reloads is over, the cache is what the disk holds, if
nobody edited a file meanwhile (the variable `still`); a bare name gets the
latest of the flows there are, and no undisturbed look-up meets a dictionary
that changed size.

*Taxi routing:* `ShortestRoute` compares the search with a reference (dynamic
programming over the number of steps); `NoRouteOnlyWhereUnserved`: no route is
reported only if no part of the network is near both endpoints;
`EveryCrossingAnnounced` compares the half-open test, segment by segment, with
the definition of crossing for the whole route, along the runway and through its
nodes included. `NearerEndAnnounced`: a designator is told only if some step of the
route crosses its runway, and the line of that step passes no farther from the
designator's threshold than from the other end. `ExactNameWins`: whoever asks for a
name that some feature has gets a feature of that name. A name of several words is
also its last word, in the code as here: who asks for A 12 may be sent to stand 12
although there is a stand A 12, and never to one that only contains either name.
`ThresholdOfDesignator`: the start of a runway is that designator's threshold, or
the centre of the runway where Overpass did not tell the ends. `TaxiwaysSpoken`,
`Answered`.

*Readback and clearance:* `RightReadbackAccepted` and `WrongReadbackCorrected`;
`VerbatimConfirmed`: who repeats the clearance is confirmed; `ServedFresh`,
`DrillGradedAsSpoken`, `ComputedRouteKept`, `EveryJobEnds`.

Deadlock is not checked in `taxi`, where a request ends, and in `clearance` and
`late_route`, where every session may be deleted and the map and the clock are
at their bounds.

## Fairness

| property | assumed | why |
|---|---|---|
| `EscapesReadback` | `FairSpec`: the pilot transmits again and again | an assumption about the pilot, not about the server. It requires nothing of the utterance, the verdict, the router or the silence timer, so all of these may conspire. |
| `Answered` | `WF_vars(Next)` in TaxiRouting | one request, in a thread of its own; the queries have a timeout (`Fail` of a tier is a step like any other). |
| `EveryJobEnds` | `WF_vars(Work(s))` in TaxiClearance | requests and background tasks run in the threadpool; `urlopen` has a timeout, so a query sent is answered or fails. Nothing makes a pilot speak, the clock advance or the map change. |
| `ReloadTakesEffect` | `WF_vars(Work(r))` in FlowReload | a reload that began runs on; none has to begin. |

All other properties are safety properties.

## Proofs

All theorems hold for every value of the constants that satisfies the modules'
assumptions:

- for the engine: every set of flows whose start states exist (the validator
  reports an error otherwise, `FlowsWellFormed`) and whose transitions are lists
  (`TransitionsAreLists`), every vocabulary, every telemetry, any stack limit
  (`DepthAssumption`) and clock; for the validator also that a flow has finitely
  many states (`FlowsAreFinite`);
- for the store: any TTL, interval and kind of store (`StoreAssumption`, which says
  in particular that `None` is no value of the data);
- for the flow loader: any list of files, any flows they may hold, any number of
  reloads, readers and edits; the server starts only if every file parses
  (`StartsUp`, `FilesAssumption`, `SlugsAssumption`);
- for the taxi routing: any finite table of numbered nodes with coordinates, any
  ways Overpass may answer, any named places and any requests (`PositionAssumption`,
  `AttachAssumption`, `PlacesAssumption`: features have a place and names, and a runway may have two ends;
  `RunwayAssumption`: a runway of the crossing test has a designator and at least two
  points, as `parse_runways` keeps only those);
- for the clearance: any number of sessions, any TTL, any number of map versions
  with any runways to hold short of, and whatever pilots say
  (`ClearanceAssumption`; `RunwayAssumption`: a route crosses finitely many);
- for the readbacks: any lists of values of the kinds in `Value`
  (`ReadbackAssumption`), of any length, any words that sound like a procedure's, and
  any mistakes.

Some theorems have a hypothesis besides, since what they say is false
without it. TLC evaluates each on the constants of the runs:

| hypothesis | of the theorems about | why it is justified |
|---|---|---|
| `InterruptsNothing`: no transition has `interrupt_flow` | overlapping requests | no shipped flow uses the key; only MAYDAY suspends a flow |
| `Sturdy(rank, opening)`: nothing interrupts, every transition leads to a state of its flow and `next_flow` is loaded; from a controller state the silent walk always has a transition without a guard, unless the flow ends there, and goes down in `rank`; `opening` is where the walk from the start of a flow stays, and no flow ends there | `NeverBroken`, `WaitsForPilot` | all thirteen files of `flows/` have it, with ranks of at most 1: a controller state leads to a pilot state, an end or a state that does. The schema asks for none of it |
| `SilenceStays`: no transition that silence takes has it | the validator | `docs/flow-yaml-spec.md:242` restricts the key to `ok_next` |
| `Charted`: a designator a request names is the name of a feature on the chart; runways of that name have it without further words, and if their ends are mapped these lie apart in its direction | the threshold of a runway | an unknown designator gets what resembles it most; a runway drawn across its heading has no such threshold; of an alias with further words the code reads no heading. Whether Overpass tells the ends is not assumed |
| `Straight`: runways are drawn as one piece, and no node is exactly at an end of one | `EveryCrossingAnnounced` | `Crosses` is defined by the two sides of a line; a node exactly at an end is told in one direction and not in the other, by the half-open test |
| `TwoEnded`: a runway is drawn as one straight piece and has two designators of opposite headings, not across it | `NearerEndAnnounced` | with one designator there is no choice of ends, and one drawn in several pieces is told by the ends of the whole |

`~SqlFails` in the theorems of the store is a case and not an assumption: the
runs `store` and `store_faults` are its two sides, and the theorems without it
hold in both.

**OrderLemmas.** The facts about order and iteration that the other proofs need:
least and greatest elements (`LeastNatural`, `MaxIsGreatest`, `LeastInteger`),
minimal members of a family of finite sets (`MinimalSet`), and that a step can be
repeated up to a bound or forever (`Iterates`, `UpTo`, `IteratesForever`); and where a
sequence stands in a longer one (`StandsIn`). They
replace induction, whose library theorems take an operator as a parameter: a
claim about all numbers is proved by looking at the least one that violates it,
and that a recursive function is what its definition says, by constructing the
function of which it is the `CHOOSE`.

**DecisionEngineProofs.** `Soundness`: `Spec => []IInv`. `TypeOK` and
`PositionInv` are not inductive alone: a step rebuilds the session with record
updates, so one must know that it has exactly its fields, and that `noChain`,
`distress` and `rbFail` stay typed on the outcomes of the partial steps. `IInv`
says this (`Sound`) of the session and of the row. The proof follows the code: a
lemma per orchestrator function, per stage (`Receive`, `Advance`, `Complete`,
`Settle`, `Follow`, readback) saying that it maps sound sessions to sound
outcomes *whether it raises or not*, then one per action. The key fact about the
walk, `WalkRests`, is that its end is a state of the flow if it rested, which
follows from its last test and needs no induction over the hops. `TypeCorrect`
and `AlwaysPositioned` are corollaries.

`Refinement`: `Spec => ImplementsTrainingSession`. A relation between the session a
request finds and the one it leaves (`Reaches`: it stays, suspends, resumes or
chains) is shown for each stage of the pipeline and composed. The delicate case
is a request that interrupts a flow and whose interrupt flow ends before the
request does: pushing and popping at once must amount to staying. `SameChain`
(cached session and row agree on `no_chain`) is the auxiliary invariant that a
restart needs.

`ReachableIsEnough` and `LossIsReported` are about the validator's verdict. The
invariant `VInv` strengthens `UnreachableIsNeverReached` from the current position
to *every* position in the session, in the row and on both stacks (`Inside`): a
state that is suspended today is current tomorrow. That the states the validator
collects are closed under the engine's moves has two halves. `ReachedIsClosed`:
after as many rounds as there are states nothing is added any more, by the
cardinality of the rounds. And the walk, hop by hop, stays in any closed set.

`SturdyIsNeverBroken` and `SturdyWaitsForPilot` answer for *all* sets of flows what
the run `shipped` asks of four: a flow author who keeps to `Sturdy` cannot break
a session. Their invariant is `RestInv` (`RestsWell`). Its parts: the active flow is
at a pilot state, at an end of the last flow, or where a flow has just started
(`Waiting`); at most one flow is suspended, by the emergency, and at a state of the
pilot (`Suspendable`): a resumed flow is not walked on from where it was, and the
stack is never full. The walk is the hard part (`WalkRestsWell`): it has two loop detectors, and either
of them turns a request into a 500. Since every hop descends in rank
(`HopDescends`), no state is visited twice and the walk is over before `MAX_HOPS`
(`Descends`); since an edge without a guard is there, it is not stuck for want of one
(`OpenEdgeIsFound`); so it ends at a pilot state or an end (`FirstVisit`,
`WalkRestsWell`). `opening` is needed because completion is handled once per request: a flow that is
chained into and reaches its own end in the same walk would be stranded there.

`SpokenOnce` (`OncePerSession` of TelemetryHistory) holds through every failure
and restart. A cue that was told is in `fired_telemetry` of the cached session
*and* of the row (`OnceInv`): a tick that fires and then raises marks the cue in
the cached session only, but has not told the pilot anything either.

**OverlappingRequestsProofs.** `LateSoundness`: `LateInv` is inductive.
The invariant of the engine, `Sound`, does not survive a late answer: the
cached session may be left at a state of another flow. What does survive is that
the flows *below* it are resumable (`Stacked`) and that only the emergency
suspends, once, with distress set (`Distressed`). From such a session every
handler must be followed again, now with three kinds of outcome: kept, and if the
request succeeds, sound. Since only a success is saved, the row stays sound
(`RowAlwaysResumable`); `DistressOutlivesOverlap` and `OnlyLateAnswersStrand` follow.

**SessionStoreProofs.** `StoreTypeCorrect`; `RowsMirrorCache`: while SQLite
works (`~SqlFails`) a cached session has a row of the same age that records no
turn the object lacks; `StoreImplementsDirectory`: the refinement. The
directory's `live` is computed from the table alone when there is one; that a
lookup in the cache agrees is exactly what `Mirrored` says, hence the order of
the theorems. Each call leaves `Live` as the directory's action would, shown by
one lemma per call; sweeping does not change it, since what it removes was no
longer live. Without a table the restarts of the directory forget everything.
`AllShareOneObject`: while SQLite works, `OneObject`. What has to be excluded is
that a lookup loads a session from its row although somebody still holds the
object loaded before. Its invariant `OInv` says of every object in hand
(`AllHeld`) that it is the cached one, or that nothing is cached and no row could
be loaded any more: the session was deleted or has expired.

`NeverServesExpired`: with every statement allowed to
fail, no lookup hands out a session last saved more than the TTL ago. The
inductive invariant `Aged` says that no entry and no row is younger than the
last save: a failed upsert leaves an older row, which only expires sooner.
`SavedTurnsKept`: while SQLite works, `KeepsSavedTurns`. A save replaces what is
cached by the object of the request, so besides the cache and the row every
object somebody may still save must have every turn ever saved (`Recorded`,
`InHand` in `KInv`), also the object of a request whose session was deleted in
the meantime; and nothing was saved of an id not handed out yet (`Unsaved`). That
the other holders of a session are not overtaken by a save follows from `OInv`:
it is their object that was saved.
`IdleTerminationIsFinal`: a session that nobody worked on when it was deleted is
never found again; no request holds it, so no save can bring it back (`Gone`).
`FoundWhateverSqlDoes`: a session saved by this process is found until it expires
although every statement may fail, since its cache entry is as old as its last
save (`Cared`).

**FlowReloadProofs.** `CacheIsDisk` (`ReloadedIsDisk`) and `LatestIsServed`
(`LatestServed`). Reloads share the dictionary they fill, and a reload that starts
throws away what another has inserted. The invariant `Undisturbed` is that they
finish each other's work: the cache holds the last file of each slug, or some
reload still has to go through that file (`Covered`), and each reload goes through
all the files from some position on (`OnItsWay`). A lookup that no reload
touches sees a dictionary of the size it started with, and the loop finds
the greatest version in it (`ReaderInv`).

**TaxiRoutingProofs.** `RouteIsCheapest` (`ShortestRoute`): the route costs what the
reference says is least, and is a walk between the chosen ends. `RoutingInv` says
for each phase what has been established, and for the search (`Frontier`) the four
parts of Dijkstra's argument: every known distance is that of a way over visited
nodes (`Known`); visited nodes are relaxed, and none is farther than an
unvisited one (`Settled`); the heap, stale elements included, holds the true
distance of every unvisited node and never one that is too near (`Queued`); no
distance is less than what the reference reaches in as many steps as nodes are
visited (`Walked`), which bounds the search by the reference. The
other direction takes a potential: distance for visited nodes, the distance of
the destination for all others; along every edge it grows by no more than the
weight, hence along every number of steps. The reference is a recursive function
on the naturals: `IteratesForever`. `PlacesAssumption` is used where names resolve.

`NoRouteMeansUnserved`: the search gives up only when the heap is empty; what it
has visited is then closed under edges, and since every edge has its way back, a
component cannot be partly visited. Both ends lie in one component whenever some
component serves both, so there was none. `ExactNameAlwaysWins`: the bias for the
type of a feature and the point asked for is at most 100 in size, the scores of
an exact and of a partial match are 300 apart, so the best of all hits is an exact one
if there is one, and then the alias it stands for shares a variant with the query
(`AliasFacts`). `ThresholdIsTheDesignators`: the alias matched is the designator, and
the threshold is the end from which its heading leads down the runway, for both
directions in which it may be drawn (`DotTurnsRound`). Between the resolution of an
endpoint and the answer the place stays what it was (`PlacesAreResolved`).

What is told of a route: `AnswerIsTold` (`Told`) says that an answer is what the
operators of TaxiGraph make of the path, and that the path runs over charted nodes;
`RoutingInv` says the rest. Selections from a sequence are all of one form, `Pick`,
and `PickFacts` is proved once: what is picked is what is kept, in its order.
`EveryTaxiwayIsSpoken` (`TaxiwaysSpoken`): the last kept element at or before a
dropped one is like it, since `SameNumbered` names form a class.
`CrossingsAreAnnounced` (`EveryCrossingAnnounced`): the route is on one strict side
of the runway's line, then on its surface, then on the other strict side. The half-open
test counts the points of the line to the right, so exactly one step of the stretch
changes side for it; that this step also meets the runway itself and not its
extension is the geometry: a step that begins or ends on the surface has the
runway's two ends on different sides of it, in the half-open sense too, unless it
goes through an end, and that is what `Straight` excludes.
`NearerEndIsAnnounced` (`NearerEndAnnounced`): the code compares the distances of the
two ends from the intersection, which lies on the runway's line, so the offset from
each end is a multiple of the runway's own vector. The multiples are to each other as
the areas that the step spans with each end, that is as how far the step's line passes
them (`ScaledDistanceFacts`). The end the code prefers is hence the one passed more
closely (`NearerEnd`), on skew runways too; products of integers are all it takes.

**TaxiClearanceProofs.** `TypeCorrect`, `Freshness` (`ServedFresh`),
`GradedAsSpoken` (`DrillGradedAsSpoken`) and `RouteKept` (`ComputedRouteKept`).
The inductive invariant `CInv` adds two parts to `TypeOK`. `Fresh` carries the
freshness through a query: while it is sent, none of the versions that may still
be answered was replaced before the query's time stamp, and what the cache holds
still stood at *its* time stamp. This is where it matters that the client takes
the time before it sends the query. `Staged` says how far the job of a session
may be in each phase of the session: a drill's is over once the session exists,
so nothing writes its route between the clearance and the readback, and a
session that is being created has no route to lose. All of it is said of one session and its job
(`FreshJob`, `StagedAt`), so that a single lemma, `Update`, reduces every action
to the one pair it changes. Only `EditMap` and `PassTime` concern all sessions at
once. `RepeatedIsConfirmed` (`VerbatimConfirmed`) joins the session's side, that a plan
there is (`Instructed`) is the one graded against, to the evaluator's: each runway
stands in the clearance somewhere (`VerbatimSays`), and a value one of whose spoken
forms stands in an utterance is matched (`SpokenMatches`).

**ReadbackTurnProofs.** `RightIsAccepted` (`RightReadbackAccepted`). An utterance is
what is said of each value, after a word. Every part is still heard when more is
said, and what follows it is that word or the end (`HeardAt`, `HeardBefore`,
`PartsAreHeard`); the second half is needed for frequencies without their last
zeros, which may not be followed by a digit. Then, by kind of value, each way of
saying it is one that `_match_readback_value` takes: as a spoken form
(`NumberMatches`, `RoundThousand`), as a digit run over the decimal point
(`FrequencyMatches`, `RunIsHeard`) or by ear (`ProcedureMatches`).

Only model-checked:

- liveness: `EscapesReadback`, `Answered`, `EveryJobEnds`, `ReloadTakesEffect`.
  These are out of the prover's reach;
- `WrongReadbackCorrected`: it holds of the values and mistakes listed in
  MCReadbackTurn, and is false of arbitrary ones (see below);
- `HeldWhileWaiting`: false of arbitrary flows. The key of `telemetry_pending` does
  not say which flow it belongs to, the edges after the first that is due are not
  examined at a tick, and a restart brings back the pending times of the row. It holds
  of the flows checked.

## Where code and docs differ

Two runs end with a counterexample (`findings` in `PROJECT.json`):

- `late_answer`: a transmission that was waiting for the router when MAYDAY was
  called, and whose answer ends the flow it was sent in, pops the stack: the
  session leaves the emergency from whatever state that is in, although
  `docs/flow-yaml-spec.md:322` has the stack popped when `emergency-v1` ends. It
  takes a flow whose end only controller states separate from a pilot's call that is
  not graded, as in `flows/rto-v1.yaml:224`; in `tower-v1` and `departure-v1` a graded
  readback comes last.
- `late_route`: a background route that arrives between the clearance and its
  readback replaces the default ATC has spoken; the readback is then graded
  against runways that were never said. The docstring at
  `app/routes/session_routes.py:63` says the default simply stands.

Others were met while modelling; the models show them (they are in the
definitions, and the properties are stated so as not to deny them) and no run is
kept for them:

- A guard makes a transition eligible or not (`docs/flow-yaml-spec.md:249`); a
  failed readback takes `bad_next[0]` without asking (`app/decision_engine.py:553`),
  and so do the hard fallback, silence and the router's choice.
- `next_flow` starts when a flow reaches its end with an empty stack
  (`docs/flow-yaml-spec.md:30`); not if the end is reached by chaining itself,
  since completion is handled once per request (`app/decision_engine.py:648`).
- `flag_check` tests the flag named by `variable` (`docs/flow-yaml-spec.md:262`);
  the code reads the one called `name` (`app/guard_evaluator.py:27`), which the
  document calls an arbitrary label.
- `on_enter_actions` run when entering a state (`docs/flow-yaml-spec.md:240`);
  the walk at the start of a transmission drops its actions
  (`app/decision_engine.py:367`).
- A telemetry condition "must hold continuously" (`app/models.py:67`); ticks that
  find the session in another state neither arm nor disarm it
  (`app/decision_engine.py:1243`), so a MAYDAY detour leaves it armed.
- The departure flow announces a level-bust callout (`flows/departure-v1.yaml:181`);
  the edge to the handoff, listed before it (`flows/departure-v1.yaml:205`), is due whenever
  the bust is.
- A silent walk and a timeout follow an edge with `interrupt_flow` as if it led to a
  state of their own flow (`app/auto_advance.py`); the validator takes it to leave
  the flow, as the document does, which restricts the key to `ok_next`
  (`docs/flow-yaml-spec.md:242`).
- DELETE terminates a session (`app/routes/session_routes.py:196`); a request in
  progress saves it back (`app/session_store.py:195`).
- Two reloads that overlap while a file is edited may leave the old text in the
  cache although both began before and ended after the edit: the slower one
  inserts what it parsed first.

And some of what the evaluator takes for a right readback is looser than its
tests suggest, or stricter than pilots are; `ElsewhereIn` in
`WrongReadbackCorrected` and the pairs chosen in MCReadbackTurn bound what the
run claims:

- the number and the letter of a SID may come from any other value of the
  readback: "Tobak *three* echo ... squawk two one one eight" passes for TOBAK2E,
  although `tests/test_decision_engine.py:332` has the wrong revision rejected;
- the side of a runway is ignored when its digits match as a digit run: "two five
  *right*" may pass for 25L;
- 118.70 for 118.700 is rejected while 118.7 is taken; flight level 80 is found
  in "one eight zero", 1013 in "one thousand", 5000 in "one five thousand".

## What is not covered

- Airport names and frequencies (`app/airport_data.py`), the template renderer,
  the tool routes, configuration and start-up, the live ATC proxy and the scripts
  hold no state of the trainer, and nothing routes on them.
- The validator's ambiguous triggers and undeclared names; the evaluator's LLM
  mode, spelling variants of digits and place names; how features are read from
  OSM tags; the choice of the stand and the rest of a new session's payload; the
  lengths and links of a taxi route; the router's review log.
- Eight shipped flows are not in FlowLibrary. They consist of the kinds of states
  the five have.
- A node of the taxiway network exactly at the end of a runway: whether the runway is
  told depends on the direction of travel.
- Hazards without a property (`note` in `PROJECT.json` says why): a cue lost with the
  request that fired it; telemetry armed before a detour; the order of the departure's
  telemetry edges; guards of a walk that precede its actions; a session saved back
  after its deletion, or left by a failed one; a file edited while reloads overlap;
  values of a readback that supply each other's parts. `LatestServed` leaves out the
  look-ups that a reload meets.
- `NeverBroken` and `WaitsForPilot` are checked on flows without guards or cycles of
  controller states, as all shipped ones are, and proved of every such set (`Sturdy`).

## What could come next

1. A characterisation of the mistakes the evaluator detects, so that
   `WrongReadbackCorrected` can be stated and proved of more than chosen pairs.
2. Crossings of runways drawn in several pieces, with a distance that is Euclidean.
3. The other shipped flows in FlowLibrary, mechanically cut down.
4. A composition of OverlappingRequests with SessionStore, so that two objects of
   one session (after a deletion) take part in transmissions.
