----------------------------- MODULE FlowGraph -----------------------------
(***************************************************************************)
(* The static side of the radio trainer: the loaded decision flows, and    *)
(* the pure functions the engine evaluates on them (guards, trigger        *)
(* matching, the walk through non-pilot states, transition actions).       *)
(*                                                                         *)
(* Data is abstracted to what routing depends on:                          *)
(*  - an utterance is a member of a small set, and the regex of a          *)
(*    transition is the set of utterances it matches ({} is trigger=None); *)
(*  - session.variables and session.flags are one function, env, from      *)
(*    names to values (the two dicts never share a name here);             *)
(*  - the comparison of a guard is the set of values it accepts.           *)
(***************************************************************************)
EXTENDS Integers, Sequences, FiniteSets, FiniteSetsExt

CONSTANTS
  Flow,   \* slug -> flow definition, the content of flow_loader._flow_cache
  None    \* Python's None

Slug == DOMAIN Flow

\* The states of flow f, and one of them.
States(f) == DOMAIN Flow[f].states
State(f, st) == Flow[f].states[st]

\* What load_all_flows has accepted and validate_flow reports no error for.
\* next_flow may name a flow that is not loaded; edges may name missing states.
ASSUME FlowsWellFormed ==
  /\ None \notin Slug
  /\ \A f \in Slug : Flow[f].start \in States(f)

\* ok_next, bad_next and auto_transitions are lists of transitions: their order decides.
TransitionLists(st) == {st.ok, st.bad, st.auto}

Transitions(st) == UNION {{es[i] : i \in DOMAIN es} : es \in TransitionLists(st)}

TransitionFields ==
  {"to", "trigger", "guard", "telemetry", "emergency", "interrupt", "exit", "enter"}

ASSUME TransitionsAreLists ==
  \A f \in Slug : \A st \in States(f) :
    /\ \A es \in TransitionLists(State(f, st)) : es \in Seq({es[i] : i \in DOMAIN es})
    /\ \A e \in Transitions(State(f, st)) : e # None /\ DOMAIN e = TransitionFields

----------------------------------------------------------------------------
\* guard_evaluator.evaluate_guard

\* dict.get(n): None when the key is absent.
Lookup(env, n) == IF n \in DOMAIN env THEN env[n] ELSE None

\* A flag_check reads the flag called guard.name; the other kinds read
\* guard.variable, or guard.name when no variable is given.
EvaluateGuard(guard, env) ==
  IF guard.type = "flag_check"
    THEN Lookup(env, guard.name) = TRUE
    ELSE Lookup(env, IF guard.variable # None THEN guard.variable ELSE guard.name)
           \in guard.accepts

Eligible(e, env) == e.guard = None \/ EvaluateGuard(e.guard, env)

----------------------------------------------------------------------------
\* trigger_matcher.select_transition

\* The first transition of es at one of the positions in hits, or None.
First(es, hits) == IF hits = {} THEN None ELSE es[Min(hits)]

\* Emergency transitions are tried first and bypass their guard.
EmergencyHits(u, es) == {i \in DOMAIN es : es[i].emergency /\ u \in es[i].trigger}

RegexHits(u, es, env) ==
  {i \in DOMAIN es : ~es[i].emergency /\ Eligible(es[i], env) /\ u \in es[i].trigger}

SelectTransition(u, es, env) ==
  IF EmergencyHits(u, es) # {}
    THEN [edge |-> First(es, EmergencyHits(u, es)), reason |-> "emergency_override"]
    ELSE LET hits == RegexHits(u, es, env)
         IN  [edge   |-> First(es, hits),
              reason |-> CASE hits = {}             -> "no_match"
                           [] Cardinality(hits) = 1 -> "regex_match"
                           [] OTHER                 -> "ambiguous_first"]

----------------------------------------------------------------------------
\* action_executor.execute_actions

\* dict.update: the entries of changes win over those of env.
Update(env, changes) ==
  [n \in DOMAIN env \cup DOMAIN changes |->
     IF n \in DOMAIN changes THEN changes[n] ELSE env[n]]

\* The net writes of one transition: on_exit_actions, then on_enter_actions.
Effect(e) == Update(e.exit, e.enter)

\* env after the actions of the transitions es, in order: the last writer wins.
RunActions(env, es) ==
  LET writers(n) == {i \in DOMAIN es : n \in DOMAIN Effect(es[i])}
  IN  [n \in DOMAIN env \cup UNION {DOMAIN Effect(es[i]) : i \in DOMAIN es} |->
         IF writers(n) = {} THEN env[n] ELSE Effect(es[Max(writers(n))])[n]]

----------------------------------------------------------------------------
\* auto_advance

MAX_HOPS   == 50
MAX_VISITS == 5

\* Telemetry-gated edges are invisible to the silent walk.
AutoHits(f, st, env) ==
  LET auto == State(f, st).auto
  IN  {i \in DOMAIN auto : auto[i].telemetry = None /\ Eligible(auto[i], env)}

FindAutoTransition(f, st, env) == First(State(f, st).auto, AutoHits(f, st, env))

\* How often the walk that took path has been at its current state.
Visits(start, w) ==
  Cardinality({i \in 0..Len(w.path) :
                 (IF i = 0 THEN start ELSE w.path[i].to) = w.at})

\* One iteration of the loop in advance_through_non_pilot; next is the transition
\* it finds. The guards read env as it was before the walk: the actions of the
\* transitions run only afterwards.
Take(f, start, w, next) ==
  LET stop(why) == [w EXCEPT !.status = why]
  IN  IF w.at \notin States(f)                   THEN stop("missing")
      ELSE IF State(f, w.at).role = "pilot"      THEN stop("rest")
      ELSE IF Visits(start, w) >= MAX_VISITS     THEN stop("loop")
      ELSE IF next = None                        THEN stop("rest")
      ELSE [w EXCEPT !.at = next.to, !.path = Append(@, next)]

Hop(f, start, env, w) ==
  IF w.status # "walking" THEN w
  ELSE Take(f, start, w, FindAutoTransition(f, w.at, env))

\* Where the walk w came to. Still walking after MAX_HOPS is a loop too.
Arrived(f, w) ==
  [at |-> w.at, path |-> w.path,
   status |-> IF w.status = "walking"     THEN "loop"
              ELSE IF w.at \in States(f)  THEN w.status
              ELSE "missing"]

\* advance_through_non_pilot: where the walk ends, by which transitions, and
\* whether it rested ("rest") or raised.
AdvanceThroughNonPilot(f, start, env) ==
  LET walk[n \in 0..MAX_HOPS] ==
        IF n = 0 THEN [at |-> start, path |-> <<>>, status |-> "walking"]
                 ELSE Hop(f, start, env, walk[n - 1])
  IN  Arrived(f, walk[MAX_HOPS])
============================================================================
