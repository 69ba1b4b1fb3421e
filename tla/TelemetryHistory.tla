-------------------------- MODULE TelemetryHistory --------------------------
(***************************************************************************)
(* DecisionEngine with a memory of what the sim bridge reported and what   *)
(* the pilot was told, kept apart from the engine's own bookkeeping        *)
(* (fired_telemetry, telemetry_pending), to state what once and for_ms     *)
(* promise. The memory does not restrict the engine.                       *)
(***************************************************************************)
EXTENDS DecisionEngine

\* A telemetry-gated transition: flow, state, index among its auto transitions.
Cue ==
  UNION {UNION {{<<f, st, i>> : i \in {j \in DOMAIN State(f, st).auto :
                                         State(f, st).auto[j].telemetry # None}}
                : st \in States(f)} : f \in Slug}

EdgeOf(c) == State(c[1], c[2]).auto[c[3]]

VARIABLES
  told,     \* the cues whose firing the pilot was told of, as often as told
  seenFor   \* per cue: since when every reading that found the session at its state
            \* satisfied its condition, or None

history == <<told, seenFor>>

HInit ==
  /\ Init
  /\ told = [c \in Cue |-> 0]
  /\ seenFor = [c \in Cue |-> None]

\* The cue a tick fires: two cues of one state may be alike but for their index.
Fires(c) ==
  /\ c[1] = session.flow
  /\ c[2] = session.state
  /\ reply'.edge = EdgeOf(c)
  /\ c[3] = Min(Due([session EXCEPT !.telemetry = session'.telemetry]))

\* The tick is received at time now with the telemetry it leaves.
Observe ==
  LET holds(c) == EvalTelemetry(EdgeOf(c).telemetry, session'.telemetry)
      since(start) == IF start = None THEN now ELSE start
      here(c) == c[1] = session.flow /\ c[2] = session.state
  IN  /\ told' = [c \in Cue |-> IF Fires(c) /\ reply'.status = "ok" THEN told[c] + 1
                                                                   ELSE told[c]]
      /\ seenFor' = [c \in Cue |-> IF ~here(c) THEN seenFor[c]
                                   ELSE IF holds(c) THEN since(seenFor[c]) ELSE None]

Ticks == \E reading \in Reading : Tick(reading) /\ Observe

HNext ==
  \/ Ticks
  \/ /\ Reject \/ (\E u \in Utterance : Transmit(u)) \/ Timeout \/ PassTime \/ Restart
     /\ UNCHANGED history

hvars == <<vars, history>>

HSpec == HInit /\ [][HNext]_hvars

----------------------------------------------------------------------------
\* A cue is spoken at most once per session, whatever is lost or repeated
\* between its firings: restarts, failed requests, MAYDAY detours (once).
OncePerSession == \A c \in Cue : EdgeOf(c).telemetry.once => told[c] <= 1

\* A cue fires only when its condition has held for for_ms at every tick that
\* found the session at its state (telemetry_pending, process_telemetry).
HeldWhileWaiting ==
  [][\A c \in Cue : Ticks /\ Fires(c) =>
       LET start == IF seenFor[c] = None THEN now ELSE seenFor[c]
       IN  now - start >= EdgeOf(c).telemetry.forMs]_hvars
============================================================================
