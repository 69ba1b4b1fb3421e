--------------------------- MODULE SessionHistory ---------------------------
(***************************************************************************)
(* What the callers of session_store.py were told so far, and what they    *)
(* may conclude from it: when each session was last saved, the most turns  *)
(* any save recorded, whether one was in this process, and which sessions  *)
(* were terminated.                                                        *)
(***************************************************************************)
EXTENDS SessionStore

VARIABLES
  savedAt,     \* the time of the last save of each session, else None
  savedTurns,  \* the most turns any save of it recorded
  carried,     \* the sessions saved since the process started, and not deleted
  terminated   \* the sessions whose deletion was acknowledged while nobody was
               \* working on them

history == <<savedAt, savedTurns, carried, terminated>>
hvars == <<vars, history>>

HInit ==
  /\ Init
  /\ savedAt = [sid \in Sid |-> None]
  /\ savedTurns = [sid \in Sid |-> 0]
  /\ carried = {}
  /\ terminated = {}

Idle(sid) == \A r \in Request : Working(r) => request[r].sid # sid

Saved(sid, n) ==
  /\ savedAt' = [savedAt EXCEPT ![sid] = now]
  /\ savedTurns' = [savedTurns EXCEPT ![sid] = IF n > @ THEN n ELSE @]
  /\ carried' = carried \cup {sid}
  /\ UNCHANGED terminated

Terminated(sid) ==
  /\ carried' = carried \ {sid}
  /\ terminated' = terminated \cup IF answer'.found /\ Idle(sid) THEN {sid} ELSE {}
  /\ UNCHANGED <<savedAt, savedTurns>>

HNext ==
  \/ \E sid \in Sid : Create(sid) /\ Saved(sid, 0)
  \/ \E sid \in Sid : Delete(sid) /\ Terminated(sid)
  \/ \E r \in Request : Save(r) /\ Saved(request[r].sid, turns[request[r].obj])
  \/ \E r \in Request, sid \in Sid : Lookup(r, sid) /\ UNCHANGED history
  \/ \E r \in Request : (Work(r) \/ Leave(r)) /\ UNCHANGED history
  \/ (List \/ PassTime) /\ UNCHANGED history
  \/ Restart /\ carried' = {} /\ UNCHANGED <<savedAt, savedTurns, terminated>>

HSpec == HInit /\ [][HNext]_hvars

Finds(sid) == \E r \in Request : Lookup(r, sid) /\ answer'.found
Misses(sid) == \E r \in Request : Lookup(r, sid) /\ ~answer'.found

----------------------------------------------------------------------------
\* "callers receive a 404 for expired session ids": whatever fails in SQLite and
\* whenever the process restarts, nobody gets a session that was last saved more
\* than SESSION_TTL_HOURS ago.
ServesUnexpired ==
  [][\A sid \in Sid : Finds(sid) => ~Expired(savedAt[sid])]_hvars

\* "Persisting session failed" is only logged: within one process a session saved
\* within SESSION_TTL_HOURS is found however often SQLite fails.
FoundWithoutSql ==
  [][\A sid \in carried : Misses(sid) => Expired(savedAt[sid])]_hvars

\* "sessions survive process restarts and redeploys": whoever looks a session up
\* sees every turn that was ever saved. No request saves an older copy over what
\* another one saved meanwhile, not even one that worked on while the session was
\* deleted, swept or loaded again.
KeepsSavedTurns ==
  [][\A sid \in Sid : Finds(sid) => turns'[sessions'[sid].obj] >= savedTurns[sid]]_hvars

\* A session that nobody worked on when it was deleted is gone for good.
IdleStaysTerminated ==
  [][\A sid \in terminated : ~Finds(sid)]_hvars
=============================================================================
