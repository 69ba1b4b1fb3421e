---------------------------- MODULE SessionStore ----------------------------
(***************************************************************************)
(* session_store.py and the requests that use it. A session is a Python    *)
(* object, shared by the cache and by every request that looked it up;     *)
(* requests change it in place, outside the lock, and save it afterwards.  *)
(* Each function of the store is one step, as it holds _lock throughout.   *)
(* Of what a session contains only the number of turns it records is kept. *)
(***************************************************************************)
EXTENDS Integers

CONSTANTS
  Sid,             \* session ids; uuid4() never repeats one
  Obj,             \* RuntimeSession objects
  Request,         \* requests and background tasks in progress
  None,
  SESSION_TTL,     \* SESSION_TTL_HOURS
  SWEEP_INTERVAL,  \* _SWEEP_INTERVAL_SECONDS
  Durable,         \* SESSION_STORE_TYPE = "sqlite"
  SqlFails,        \* whether a statement may raise
  MaxTurns,        \* bound on the turns of a session
  MaxTime          \* bound on the clock

\* What a request holds, what the cache holds, and a row of the table.
Reference == [sid : Sid, obj : Obj]
Entry == [obj : Obj, at : Nat]
Row == [turns : Nat, at : Nat]

ASSUME StoreAssumption ==
  /\ SESSION_TTL \in Nat /\ SWEEP_INTERVAL \in Nat
  /\ MaxTurns \in Nat /\ MaxTime \in Nat
  /\ Durable \in BOOLEAN /\ SqlFails \in BOOLEAN
  /\ None \notin Nat /\ None \notin Entry /\ None \notin Row /\ None \notin Reference

VARIABLES
  sessions,   \* _sessions and _touched_at: the cached object and its time
  rows,       \* the table: the turns recorded in data, and updated_at
  turns,      \* the turns each object records
  request,    \* the session each request works on, and the object it holds
  created,    \* the ids handed out
  lastSweep,  \* _last_sweep
  now,
  answer      \* what the last call returned

store == <<sessions, rows, lastSweep>>
vars == <<sessions, rows, turns, request, created, lastSweep, now, answer>>

Expired(at) == at + SESSION_TTL < now

\* Whether a statement succeeds.
Outcome == IF SqlFails THEN BOOLEAN ELSE {TRUE}

Working(r) == request[r] # None

\* An object nobody refers to: model_validate_json and the constructor make one.
Unreferenced(o) ==
  /\ \A sid \in Sid : sessions[sid] # None => sessions[sid].obj # o
  /\ \A r \in Request : Working(r) => request[r].obj # o

----------------------------------------------------------------------------
\* _sweep_expired, run by get and create under the lock, at most once a minute

SweepDue == now - lastSweep >= SWEEP_INTERVAL

Sweep(entries) ==
  [sid \in Sid |-> IF entries[sid] # None /\ Expired(entries[sid].at)
                     THEN None ELSE entries[sid]]

SweptCache == IF SweepDue THEN Sweep(sessions) ELSE sessions
SweptRows(ok) == IF SweepDue /\ Durable /\ ok THEN Sweep(rows) ELSE rows
SweptAt == IF SweepDue THEN now ELSE lastSweep

\* _persist: what the table holds after the upsert of object o. An exception is
\* logged and swallowed.
Persist(table, sid, n, ok) ==
  IF Durable /\ ok THEN [table EXCEPT ![sid] = [turns |-> n, at |-> now]] ELSE table

----------------------------------------------------------------------------
\* create_session

Create(sid) ==
  /\ sid \notin created
  /\ created' = created \cup {sid}
  /\ \E o \in Obj, ok \in Outcome, swept \in Outcome :
       /\ Unreferenced(o)
       /\ turns' = [turns EXCEPT ![o] = 0]
       /\ sessions' = [SweptCache EXCEPT ![sid] = [obj |-> o, at |-> now]]
       /\ rows' = Persist(SweptRows(swept), sid, 0, ok)
  /\ lastSweep' = SweptAt
  /\ answer' = [op |-> "save", sid |-> sid, found |-> TRUE]
  /\ UNCHANGED <<request, now>>

----------------------------------------------------------------------------
\* get_session, the first call of every request

Found(r, sid, o) ==
  /\ request' = [request EXCEPT ![r] = [sid |-> sid, obj |-> o]]
  /\ answer' = [op |-> "lookup", sid |-> sid, found |-> TRUE]

NotFound(sid) ==
  /\ answer' = [op |-> "lookup", sid |-> sid, found |-> FALSE]
  /\ UNCHANGED <<request, turns>>

\* A slip of get_session: the entry handed out for the object.
CachedEntry(r, sid, cache, table) ==
  /\ cache[sid] # None
  /\ rows' = table
  /\ IF Expired(cache[sid].at)
       THEN sessions' = [cache EXCEPT ![sid] = None] /\ NotFound(sid)
       ELSE sessions' = cache /\ Found(r, sid, cache[sid]) /\ UNCHANGED turns

\* A slip: a copy is handed out, so that two requests lose each other's turns.
CachedCopy(r, sid, cache, table) ==
  /\ cache[sid] # None
  /\ rows' = table
  /\ IF Expired(cache[sid].at)
       THEN sessions' = [cache EXCEPT ![sid] = None] /\ NotFound(sid)
       ELSE \E o \in Obj : /\ Unreferenced(o)
                          /\ turns' = [turns EXCEPT ![o] = turns[cache[sid].obj]]
                          /\ sessions' = cache /\ Found(r, sid, o)

\* In the cache; an entry the sweep was not due for is dropped, its row is not.
Cached(r, sid, cache, table) ==
  /\ cache[sid] # None
  /\ rows' = table
  /\ IF Expired(cache[sid].at)
       THEN sessions' = [cache EXCEPT ![sid] = None] /\ NotFound(sid)
       ELSE sessions' = cache /\ Found(r, sid, cache[sid].obj) /\ UNCHANGED turns

\* Slips of _load_from_db: no cutoff; a session loaded counts as just saved.
LoadAnyAge(r, sid, cache, table, ok) ==
  LET row == table[sid]
  IN  /\ cache[sid] = None
      /\ \/ /\ ~Durable \/ ~ok \/ row = None
            /\ sessions' = cache /\ rows' = table /\ NotFound(sid)
         \/ /\ Durable /\ ok /\ row # None
            /\ rows' = table
            /\ \E o \in Obj :
                 /\ Unreferenced(o)
                 /\ turns' = [turns EXCEPT ![o] = row.turns]
                 /\ sessions' = [cache EXCEPT ![sid] = [obj |-> o, at |-> row.at]]
                 /\ Found(r, sid, o)

LoadTouched(r, sid, cache, table, ok) ==
  LET row == table[sid]
  IN  /\ cache[sid] = None
      /\ \/ /\ ~Durable \/ ~ok \/ row = None
            /\ sessions' = cache /\ rows' = table /\ NotFound(sid)
         \/ /\ Durable /\ ok /\ row # None /\ Expired(row.at)
            /\ sessions' = cache /\ rows' = [table EXCEPT ![sid] = None] /\ NotFound(sid)
         \/ /\ Durable /\ ok /\ row # None /\ ~Expired(row.at)
            /\ rows' = table
            /\ \E o \in Obj :
                 /\ Unreferenced(o)
                 /\ turns' = [turns EXCEPT ![o] = row.turns]
                 /\ sessions' = [cache EXCEPT ![sid] = [obj |-> o, at |-> now]]
                 /\ Found(r, sid, o)

\* Not in the cache: _load_from_db, which may find no row, an old one, or fail.
Load(r, sid, cache, table, ok) ==
  LET row == table[sid]
  IN  /\ cache[sid] = None
      /\ \/ /\ ~Durable \/ ~ok \/ row = None
            /\ sessions' = cache /\ rows' = table /\ NotFound(sid)
         \/ /\ Durable /\ ok /\ row # None /\ Expired(row.at)
            /\ sessions' = cache /\ rows' = [table EXCEPT ![sid] = None] /\ NotFound(sid)
         \/ /\ Durable /\ ok /\ row # None /\ ~Expired(row.at)
            /\ rows' = table
            /\ \E o \in Obj :
                 /\ Unreferenced(o)
                 /\ turns' = [turns EXCEPT ![o] = row.turns]
                 /\ sessions' = [cache EXCEPT ![sid] = [obj |-> o, at |-> row.at]]
                 /\ Found(r, sid, o)

Lookup(r, sid) ==
  /\ ~Working(r)
  /\ \E swept \in Outcome, ok \in Outcome :
       \/ Cached(r, sid, SweptCache, SweptRows(swept))
       \/ Load(r, sid, SweptCache, SweptRows(swept), ok)
  /\ lastSweep' = SweptAt
  /\ UNCHANGED <<created, now>>

----------------------------------------------------------------------------
\* The rest of a request

\* A transmission, timeout or tick changes the object it holds, and so does the
\* background taxi route once it has looked its session up again.
Work(r) ==
  /\ Working(r)
  /\ turns[request[r].obj] < MaxTurns
  /\ turns' = [turns EXCEPT ![request[r].obj] = @ + 1]
  /\ UNCHANGED <<store, request, created, now, answer>>

\* A slip of save_session: what fails in SQLite is not cached either.
SavePersistFirst(r) ==
  /\ Working(r)
  /\ LET sid == request[r].sid
         o == request[r].obj
     IN  /\ \E ok \in Outcome :
              /\ rows' = Persist(rows, sid, turns[o], ok)
              /\ sessions' = IF ok THEN [sessions EXCEPT ![sid] = [obj |-> o, at |-> now]]
                                   ELSE sessions
         /\ answer' = [op |-> "save", sid |-> sid, found |-> TRUE]
  /\ request' = [request EXCEPT ![r] = None]
  /\ UNCHANGED <<turns, created, lastSweep, now>>

\* save_session: the object becomes the cached one, whatever the store knows.
Save(r) ==
  /\ Working(r)
  /\ LET sid == request[r].sid
         o == request[r].obj
     IN  /\ sessions' = [sessions EXCEPT ![sid] = [obj |-> o, at |-> now]]
         /\ \E ok \in Outcome : rows' = Persist(rows, sid, turns[o], ok)
         /\ answer' = [op |-> "save", sid |-> sid, found |-> TRUE]
  /\ request' = [request EXCEPT ![r] = None]
  /\ UNCHANGED <<turns, created, lastSweep, now>>

\* A request that only reads, or that raises before it saves.
Leave(r) ==
  /\ Working(r)
  /\ request' = [request EXCEPT ![r] = None]
  /\ UNCHANGED <<store, turns, created, now, answer>>

----------------------------------------------------------------------------
\* delete_session and list_session_ids, which do not sweep

\* Slips of delete_session: the row stays; the entry stays.
DeleteCached(sid) ==
  /\ answer' = [op |-> "delete", sid |-> sid, found |-> sessions[sid] # None]
  /\ sessions' = [sessions EXCEPT ![sid] = None]
  /\ UNCHANGED <<rows, turns, request, created, lastSweep, now>>

DeleteRow(sid) ==
  /\ answer' = [op |-> "delete", sid |-> sid, found |-> rows[sid] # None]
  /\ rows' = [rows EXCEPT ![sid] = None]
  /\ UNCHANGED <<sessions, turns, request, created, lastSweep, now>>

Delete(sid) ==
  /\ \E ok \in Outcome :
       LET reached == Durable /\ ok
       IN  /\ rows' = IF reached THEN [rows EXCEPT ![sid] = None] ELSE rows
           /\ answer' = [op |-> "delete", sid |-> sid,
                         found |-> sessions[sid] # None \/ (reached /\ rows[sid] # None)]
  /\ sessions' = [sessions EXCEPT ![sid] = None]
  /\ UNCHANGED <<turns, request, created, lastSweep, now>>

List ==
  /\ \E ok \in Outcome :
       answer' = [op |-> "list",
                  ids |-> {sid \in Sid : \/ sessions[sid] # None
                                         \/ /\ Durable /\ ok
                                            /\ rows[sid] # None
                                            /\ ~Expired(rows[sid].at)}]
  /\ UNCHANGED <<store, turns, request, created, now>>

----------------------------------------------------------------------------
PassTime ==
  /\ now < MaxTime
  /\ now' = now + 1
  /\ UNCHANGED <<store, turns, request, created, answer>>

\* The process ends, and with it the cache and the requests in progress.
Restart ==
  /\ sessions' = [sid \in Sid |-> None]
  /\ request' = [r \in Request |-> None]
  /\ lastSweep' = 0
  /\ answer' = [op |-> "started"]
  /\ UNCHANGED <<rows, turns, created, now>>

\* _last_sweep is 0.0 and the clock far beyond a minute.
Init ==
  /\ sessions = [sid \in Sid |-> None]
  /\ rows = [sid \in Sid |-> None]
  /\ turns = [o \in Obj |-> 0]
  /\ request = [r \in Request |-> None]
  /\ created = {}
  /\ lastSweep = 0
  /\ now = SWEEP_INTERVAL
  /\ answer = [op |-> "started"]

Next ==
  \/ \E sid \in Sid : Create(sid) \/ Delete(sid)
  \/ \E r \in Request, sid \in Sid : Lookup(r, sid)
  \/ \E r \in Request : Work(r) \/ Save(r) \/ Leave(r)
  \/ List
  \/ PassTime
  \/ Restart

Spec == Init /\ [][Next]_vars

----------------------------------------------------------------------------
\* Properties

\* The dictionaries, the table and the requests hold what they are declared to.
TypeOK ==
  /\ sessions \in [Sid -> Entry \cup {None}]
  /\ rows \in [Sid -> Row \cup {None}]
  /\ turns \in [Obj -> Nat]
  /\ request \in [Request -> Reference \cup {None}]
  /\ created \subseteq Sid
  /\ lastSweep \in Nat /\ now \in Nat

\* While SQLite works the table mirrors the cache: a cached session has a row of
\* the same age, which records no turn the cached object lacks.
Mirrored ==
  \A sid \in Sid :
    IF ~Durable THEN rows[sid] = None
    ELSE sessions[sid] # None => /\ rows[sid] # None
                                 /\ rows[sid].at = sessions[sid].at
                                 /\ rows[sid].turns <= turns[sessions[sid].obj]

\* All who hold a session hold the same object: no request can save a copy that
\* lacks what another request saved, whatever was deleted, swept or reloaded.
OneObject ==
  \A r \in Request : Working(r) =>
    LET sid == request[r].sid
    IN  /\ sessions[sid] # None => sessions[sid].obj = request[r].obj
        /\ \A q \in Request : Working(q) /\ request[q].sid = sid =>
                              request[q].obj = request[r].obj

\* When each session was last saved, for those a caller should still find.
At(entry) == IF entry # None /\ ~Expired(entry.at) THEN entry.at ELSE None

Live == [sid \in Sid |-> IF Durable THEN At(rows[sid]) ELSE At(sessions[sid])]

Directory == INSTANCE SessionDirectory WITH live <- Live

\* As long as SQLite works, the cache, the sweep, its rate limit and the restarts
\* cannot be told from a directory: a lookup finds exactly the sessions saved
\* within SESSION_TTL_HOURS and not deleted since (module docstring).
ImplementsDirectory == Directory!Spec
=============================================================================
