------------------------- MODULE SessionStoreProofs -------------------------
(***************************************************************************)
(* The session store, for every number of sessions, objects and requests,  *)
(* every TTL and both kinds of store. SQLite is assumed to work where a    *)
(* theorem says so (~SqlFails).                                            *)
(***************************************************************************)
EXTENDS SessionHistory, TLAPS

----------------------------------------------------------------------------
\* The parts of a step

\* Sweeping keeps a dictionary a dictionary, whatever its entries are.
LEMMA SweepType ==
  ASSUME NEW S, NEW d \in [Sid -> S \cup {None}]
  PROVE  Sweep(d) \in [Sid -> S \cup {None}]
BY DEF Sweep

LEMMA SweptTypes ==
  ASSUME TypeOK, NEW ok
  PROVE  /\ SweptCache \in [Sid -> Entry \cup {None}]
         /\ SweptRows(ok) \in [Sid -> Row \cup {None}]
         /\ SweptAt \in Nat
<1>1. SweptCache \in [Sid -> Entry \cup {None}]
  BY SweepType DEF TypeOK, SweptCache
<1>2. SweptRows(ok) \in [Sid -> Row \cup {None}]
  BY SweepType DEF TypeOK, SweptRows
<1>3. SweptAt \in Nat
  BY DEF TypeOK, SweptAt
<1> QED BY <1>1, <1>2, <1>3

LEMMA PersistType ==
  ASSUME NEW table \in [Sid -> Row \cup {None}], NEW sid \in Sid, NEW n \in Nat, NEW ok,
         now \in Nat
  PROVE  Persist(table, sid, n, ok) \in [Sid -> Row \cup {None}]
BY DEF Persist, Row

----------------------------------------------------------------------------
\* Type correctness

LEMMA InitType == Init => TypeOK
BY StoreAssumption DEF Init, TypeOK

LEMMA CachedType ==
  ASSUME TypeOK, NEW r \in Request, NEW sid \in Sid,
         NEW cache \in [Sid -> Entry \cup {None}], NEW table \in [Sid -> Row \cup {None}],
         Cached(r, sid, cache, table), lastSweep' \in Nat, UNCHANGED <<created, now>>
  PROVE  TypeOK'
<1>1. CASE Expired(cache[sid].at)
  BY <1>1 DEF Cached, NotFound, TypeOK
<1>2. CASE ~Expired(cache[sid].at)
  <2>1. cache[sid].obj \in Obj
    BY DEF Cached, Entry
  <2> QED BY <1>2, <2>1 DEF Cached, Found, Reference, TypeOK
<1> QED BY <1>1, <1>2

LEMMA LoadType ==
  ASSUME TypeOK, NEW r \in Request, NEW sid \in Sid, NEW ok,
         NEW cache \in [Sid -> Entry \cup {None}], NEW table \in [Sid -> Row \cup {None}],
         Load(r, sid, cache, table, ok), lastSweep' \in Nat, UNCHANGED <<created, now>>
  PROVE  TypeOK'
<1>1. CASE NotFound(sid)
  <2>1. sessions' = cache \/ \E e \in Entry : sessions' = [cache EXCEPT ![sid] = e]
    <3>1. CASE table[sid] = None
      BY <3>1 DEF Load
    <3>2. CASE table[sid] # None
      <4>1. table[sid].at \in Nat
        BY <3>2 DEF Row
      <4> QED BY <4>1 DEF Load, Entry
    <3> QED BY <3>1, <3>2
  <2>2. rows' = table \/ rows' = [table EXCEPT ![sid] = None]
    BY DEF Load
  <2> QED BY <1>1, <2>1, <2>2 DEF NotFound, TypeOK
<1>2. CASE ~NotFound(sid)
  <2>1. /\ table[sid] # None
        /\ rows' = table
        /\ \E o \in Obj :
             /\ turns' = [turns EXCEPT ![o] = table[sid].turns]
             /\ sessions' = [cache EXCEPT ![sid] = [obj |-> o, at |-> table[sid].at]]
             /\ Found(r, sid, o)
    BY <1>2 DEF Load
  <2>2. table[sid].turns \in Nat /\ table[sid].at \in Nat
    BY <2>1 DEF Row
  <2> QED BY <2>1, <2>2 DEF Found, Reference, Entry, TypeOK
<1> QED BY <1>1, <1>2

LEMMA LookupType ==
  ASSUME TypeOK, NEW r \in Request, NEW sid \in Sid, Lookup(r, sid)
  PROVE  TypeOK'
<1> PICK swept \in Outcome, ok \in Outcome :
      \/ Cached(r, sid, SweptCache, SweptRows(swept))
      \/ Load(r, sid, SweptCache, SweptRows(swept), ok)
  BY DEF Lookup
<1>1. /\ SweptCache \in [Sid -> Entry \cup {None}]
      /\ SweptRows(swept) \in [Sid -> Row \cup {None}]
      /\ lastSweep' \in Nat
  BY SweptTypes DEF Lookup
<1>2. UNCHANGED <<created, now>>
  BY DEF Lookup
<1> QED BY <1>1, <1>2, CachedType, LoadType

LEMMA CreateType ==
  ASSUME TypeOK, NEW sid \in Sid, Create(sid)
  PROVE  TypeOK'
<1> PICK o \in Obj, ok \in Outcome, swept \in Outcome :
       /\ turns' = [turns EXCEPT ![o] = 0]
       /\ sessions' = [SweptCache EXCEPT ![sid] = [obj |-> o, at |-> now]]
       /\ rows' = Persist(SweptRows(swept), sid, 0, ok)
  BY DEF Create
<1>1. sessions' \in [Sid -> Entry \cup {None}] /\ lastSweep' \in Nat
  BY SweptTypes DEF Create, TypeOK, Entry
<1>2. rows' \in [Sid -> Row \cup {None}]
  BY SweptTypes, PersistType DEF TypeOK
<1>3. UNCHANGED <<request, now>> /\ created' = created \cup {sid}
  BY DEF Create
<1> QED BY <1>1, <1>2, <1>3 DEF TypeOK

LEMMA SaveType ==
  ASSUME TypeOK, NEW r \in Request, Save(r)
  PROVE  TypeOK'
<1> DEFINE sid == request[r].sid
           o == request[r].obj
<1>1. sid \in Sid /\ o \in Obj /\ turns[o] \in Nat
  BY DEF Save, Working, TypeOK, Reference
<1>2. sessions' \in [Sid -> Entry \cup {None}]
  BY <1>1 DEF Save, TypeOK, Entry
<1>3. rows' \in [Sid -> Row \cup {None}]
  <2>1. PICK ok \in Outcome : rows' = Persist(rows, sid, turns[o], ok)
    BY DEF Save
  <2> QED BY <1>1, <2>1, PersistType DEF TypeOK
<1> QED BY <1>2, <1>3 DEF Save, TypeOK

LEMMA NextType == TypeOK /\ [Next]_vars => TypeOK'
<1> SUFFICES ASSUME TypeOK, [Next]_vars PROVE TypeOK'
  OBVIOUS
<1>1. CASE UNCHANGED vars
  BY <1>1 DEF vars, TypeOK
<1>2. ASSUME NEW sid \in Sid, Create(sid) PROVE TypeOK'
  BY <1>2, CreateType
<1>3. ASSUME NEW sid \in Sid, Delete(sid) PROVE TypeOK'
  BY <1>3 DEF Delete, TypeOK
<1>4. ASSUME NEW r \in Request, NEW sid \in Sid, Lookup(r, sid) PROVE TypeOK'
  BY <1>4, LookupType
<1>5. ASSUME NEW r \in Request, Work(r) PROVE TypeOK'
  BY <1>5 DEF Work, Working, Reference, store, TypeOK
<1>6. ASSUME NEW r \in Request, Save(r) PROVE TypeOK'
  BY <1>6, SaveType
<1>7. ASSUME NEW r \in Request, Leave(r) PROVE TypeOK'
  BY <1>7 DEF Leave, store, TypeOK
<1>8. CASE List
  BY <1>8 DEF List, store, TypeOK
<1>9. CASE PassTime
  BY <1>9 DEF PassTime, store, TypeOK
<1>10. CASE Restart
  BY <1>10 DEF Restart, TypeOK
<1> QED
  BY <1>1, <1>2, <1>3, <1>4, <1>5, <1>6, <1>7, <1>8, <1>9, <1>10 DEF Next

\* In every execution the cache, the table, the requests and the clock hold
\* values of their types, also when SQLite fails.
THEOREM StoreTypeCorrect == Spec => []TypeOK
BY InitType, NextType, PTL DEF Spec

----------------------------------------------------------------------------
\* The table mirrors the cache while SQLite works

\* Mirrored, of a cache and a table that need not be the current ones.
MirrorOf(cache, table) ==
  \A sid \in Sid :
    IF ~Durable THEN table[sid] = None
    ELSE cache[sid] # None => /\ table[sid] # None
                              /\ table[sid].at = cache[sid].at
                              /\ table[sid].turns <= turns[cache[sid].obj]

\* Sweeping drops what has expired from both, and nothing else.
LEMMA SweptMirror ==
  ASSUME ~SqlFails, TypeOK, Mirrored, NEW ok \in Outcome
  PROVE  MirrorOf(SweptCache, SweptRows(ok))
BY DEF Outcome, SweptCache, SweptRows, Sweep, Mirrored, MirrorOf, TypeOK

LEMMA LookupMirror ==
  ASSUME ~SqlFails, TypeOK, Mirrored, NEW r \in Request, NEW sid \in Sid, Lookup(r, sid)
  PROVE  Mirrored'
<1> PICK swept \in Outcome, ok \in Outcome :
      \/ Cached(r, sid, SweptCache, SweptRows(swept))
      \/ Load(r, sid, SweptCache, SweptRows(swept), ok)
  BY DEF Lookup
<1>1. /\ SweptCache \in [Sid -> Entry \cup {None}]
      /\ SweptRows(swept) \in [Sid -> Row \cup {None}]
  BY SweptTypes
<1>2. MirrorOf(SweptCache, SweptRows(swept))
  BY SweptMirror
<1>3. ASSUME NEW cache \in [Sid -> Entry \cup {None}], NEW table \in [Sid -> Row \cup {None}],
             MirrorOf(cache, table), Cached(r, sid, cache, table)
      PROVE  Mirrored'
  <2>1. turns' = turns /\ rows' = table /\ \A s \in Sid : sessions'[s] \in {cache[s], None}
    BY <1>3 DEF Cached, NotFound
  <2> QED BY <1>3, <2>1 DEF MirrorOf, Mirrored
<1>4. ASSUME NEW cache \in [Sid -> Entry \cup {None}], NEW table \in [Sid -> Row \cup {None}],
             MirrorOf(cache, table), Load(r, sid, cache, table, ok),
             \A s \in Sid : cache[s] \in {sessions[s], None}
      PROVE  Mirrored'
  <2>1. CASE turns' = turns /\ sessions' = cache /\ rows' \in {table, [table EXCEPT ![sid] = None]}
    BY <1>4, <2>1 DEF Load, MirrorOf, Mirrored
  <2>2. CASE \E o \in Obj :
               /\ Unreferenced(o) /\ Durable /\ table[sid] # None
               /\ rows' = table
               /\ turns' = [turns EXCEPT ![o] = table[sid].turns]
               /\ sessions' = [cache EXCEPT ![sid] = [obj |-> o, at |-> table[sid].at]]
    <3> PICK o \in Obj :
               /\ Unreferenced(o) /\ Durable /\ table[sid] # None
               /\ rows' = table
               /\ turns' = [turns EXCEPT ![o] = table[sid].turns]
               /\ sessions' = [cache EXCEPT ![sid] = [obj |-> o, at |-> table[sid].at]]
      BY <2>2
    <3>1. \A s \in Sid : cache[s] # None => cache[s].obj \in Obj \ {o}
      BY <1>4 DEF Unreferenced, Entry
    <3>2. turns \in [Obj -> Nat] /\ table[sid].turns \in Nat
      BY <1>4 DEF TypeOK, Row
    <3>3. ASSUME NEW s \in Sid, sessions'[s] # None
          PROVE  /\ rows'[s] # None
                 /\ rows'[s].at = sessions'[s].at
                 /\ rows'[s].turns <= turns'[sessions'[s].obj]
      <4>1. CASE s = sid
        BY <3>2, <4>1, <1>4
      <4>2. CASE s # sid
        BY <3>1, <3>3, <4>2, <1>4 DEF MirrorOf, TypeOK
      <4> QED BY <4>1, <4>2
    <3> QED BY <3>3 DEF Mirrored
  <2> QED BY <1>4, <2>1, <2>2 DEF Load, NotFound
<1>5. \A s \in Sid : SweptCache[s] \in {sessions[s], None}
  BY DEF SweptCache, Sweep, TypeOK
<1> QED BY <1>1, <1>2, <1>3, <1>4, <1>5

LEMMA CreateMirror ==
  ASSUME ~SqlFails, TypeOK, Mirrored, NEW sid \in Sid, Create(sid)
  PROVE  Mirrored'
<1> PICK o \in Obj, ok \in Outcome, swept \in Outcome :
       /\ Unreferenced(o)
       /\ turns' = [turns EXCEPT ![o] = 0]
       /\ sessions' = [SweptCache EXCEPT ![sid] = [obj |-> o, at |-> now]]
       /\ rows' = Persist(SweptRows(swept), sid, 0, ok)
  BY DEF Create
<1>1. /\ SweptCache \in [Sid -> Entry \cup {None}]
      /\ SweptRows(swept) \in [Sid -> Row \cup {None}]
      /\ MirrorOf(SweptCache, SweptRows(swept))
  BY SweptTypes, SweptMirror
<1>2. \A s \in Sid : SweptCache[s] # None => SweptCache[s].obj \in Obj \ {o}
  <2>1. \A s \in Sid : SweptCache[s] \in {sessions[s], None}
    BY DEF SweptCache, Sweep, TypeOK
  <2> QED BY <1>1, <2>1 DEF Unreferenced, Entry
<1>3. ok
  BY DEF Outcome
<1>4. ASSUME NEW s \in Sid
      PROVE  IF ~Durable THEN rows'[s] = None
             ELSE sessions'[s] # None => /\ rows'[s] # None
                                         /\ rows'[s].at = sessions'[s].at
                                         /\ rows'[s].turns <= turns'[sessions'[s].obj]
  <2>1. CASE s = sid
    BY <1>1, <1>3, <2>1, StoreAssumption DEF Persist, MirrorOf, TypeOK, Row
  <2>2. CASE s # sid
    BY <1>1, <1>2, <1>3, <2>2 DEF Persist, MirrorOf, TypeOK
  <2> QED BY <2>1, <2>2
<1> QED BY <1>4 DEF Mirrored

LEMMA SaveMirror ==
  ASSUME ~SqlFails, TypeOK, Mirrored, NEW r \in Request, Save(r)
  PROVE  Mirrored'
<1> DEFINE sid == request[r].sid
           o == request[r].obj
<1>1. sid \in Sid /\ o \in Obj /\ turns[o] \in Nat
  BY DEF Save, Working, TypeOK, Reference
<1>2. /\ sessions' = [sessions EXCEPT ![sid] = [obj |-> o, at |-> now]]
      /\ rows' = Persist(rows, sid, turns[o], TRUE)
      /\ turns' = turns
  BY DEF Save, Outcome
<1>3. [turns |-> turns[o], at |-> now] # None
  BY <1>1, StoreAssumption DEF TypeOK, Row
<1> HIDE DEF sid, o
<1> QED BY <1>1, <1>2, <1>3 DEF Persist, Mirrored, TypeOK

\* A cached object only ever gains turns, so its row stays behind it.
LEMMA WorkMirror ==
  ASSUME TypeOK, Mirrored, NEW r \in Request, Work(r)
  PROVE  Mirrored'
<1>1. request[r].obj \in Obj
  BY DEF Work, Working, TypeOK, Reference
<1>2. \A o \in Obj : turns[o] \in Nat /\ turns'[o] \in Nat /\ turns[o] <= turns'[o]
  BY <1>1 DEF Work, TypeOK
<1>3. \A s \in Sid : /\ sessions[s] # None => sessions[s].obj \in Obj
                     /\ rows[s] # None => rows[s].turns \in Nat
  BY DEF TypeOK, Entry, Row
<1>4. sessions' = sessions /\ rows' = rows
  BY DEF Work, store
<1> QED BY <1>2, <1>3, <1>4 DEF Mirrored

LEMMA NextMirror == ~SqlFails /\ TypeOK /\ Mirrored /\ [Next]_vars => Mirrored'
<1> SUFFICES ASSUME ~SqlFails, TypeOK, Mirrored, [Next]_vars PROVE Mirrored'
  OBVIOUS
<1>1. CASE UNCHANGED vars
  BY <1>1 DEF vars, Mirrored
<1>2. ASSUME NEW sid \in Sid, Create(sid) PROVE Mirrored'
  BY <1>2, CreateMirror
<1>3. ASSUME NEW sid \in Sid, Delete(sid) PROVE Mirrored'
  BY <1>3 DEF Delete, Outcome, Mirrored, TypeOK
<1>4. ASSUME NEW r \in Request, NEW sid \in Sid, Lookup(r, sid) PROVE Mirrored'
  BY <1>4, LookupMirror
<1>5. ASSUME NEW r \in Request, Work(r) PROVE Mirrored'
  BY <1>5, WorkMirror
<1>6. ASSUME NEW r \in Request, Save(r) PROVE Mirrored'
  BY <1>6, SaveMirror
<1>7. ASSUME NEW r \in Request, Leave(r) PROVE Mirrored'
  BY <1>7 DEF Leave, store, Mirrored
<1>8. CASE List
  BY <1>8 DEF List, store, Mirrored
<1>9. CASE PassTime
  BY <1>9 DEF PassTime, store, Mirrored
<1>10. CASE Restart
  BY <1>10 DEF Restart, Mirrored
<1> QED
  BY <1>1, <1>2, <1>3, <1>4, <1>5, <1>6, <1>7, <1>8, <1>9, <1>10 DEF Next

\* While SQLite works, whatever is cached has a row of the same age that a
\* restart can load, and the row never claims a turn the object lacks.
THEOREM RowsMirrorCache == ~SqlFails => (Spec => []Mirrored)
<1> SUFFICES ASSUME ~SqlFails PROVE Spec => []Mirrored
  OBVIOUS
<1>1. Init => Mirrored
  BY DEF Init, Mirrored
<1>2. TypeOK /\ Mirrored /\ [Next]_vars => Mirrored'
  BY NextMirror
<1> QED BY <1>1, <1>2, StoreTypeCorrect, PTL DEF Spec

----------------------------------------------------------------------------
\* The store implements the directory while SQLite works

\* Live, of a cache and a table that need not be the current ones.
LiveOf(cache, table) ==
  [sid \in Sid |-> IF Durable THEN At(table[sid]) ELSE At(cache[sid])]

LEMMA LiveIsLiveOf == Live = LiveOf(sessions, rows)
BY DEF Live, LiveOf

\* What is swept was not live.
LEMMA SweptLive ==
  ASSUME ~SqlFails, TypeOK, NEW ok \in Outcome
  PROVE  LiveOf(SweptCache, SweptRows(ok)) = Live
BY DEF Outcome, SweptCache, SweptRows, Sweep, LiveOf, Live, At, TypeOK

\* A lookup changes nothing that is live, and finds exactly what is.
LEMMA LookupLive ==
  ASSUME ~SqlFails, TypeOK, Mirrored, NEW r \in Request, NEW sid \in Sid, Lookup(r, sid)
  PROVE  Directory!Lookup(sid)
<1> PICK swept \in Outcome, ok \in Outcome :
      \/ Cached(r, sid, SweptCache, SweptRows(swept))
      \/ Load(r, sid, SweptCache, SweptRows(swept), ok)
  BY DEF Lookup
<1>1. /\ SweptCache \in [Sid -> Entry \cup {None}]
      /\ SweptRows(swept) \in [Sid -> Row \cup {None}]
      /\ MirrorOf(SweptCache, SweptRows(swept))
      /\ LiveOf(SweptCache, SweptRows(swept)) = Live
  BY SweptTypes, SweptMirror, SweptLive
<1>2. ok /\ now' = now /\ now \in Nat
  BY DEF Outcome, Lookup, TypeOK
<1>3. ASSUME NEW cache \in [Sid -> Entry \cup {None}], NEW table \in [Sid -> Row \cup {None}],
             MirrorOf(cache, table), LiveOf(cache, table) = Live,
             Cached(r, sid, cache, table) \/ Load(r, sid, cache, table, ok)
      PROVE  /\ Live' = Live
             /\ answer' = [op |-> "lookup", sid |-> sid, found |-> Live[sid] # None]
  <2>1. \A s \in Sid : /\ cache[s] # None => cache[s].at \in Nat
                       /\ table[s] # None => table[s].at \in Nat
    BY DEF Entry, Row
  <2>2. \A e : Expired(e)' <=> Expired(e)
    BY <1>2 DEF Expired
  <2>3. \A e : At(e)' = At(e) /\ At(None) = None
    BY <1>2 DEF At, Expired
  <2>4. CASE Cached(r, sid, cache, table) /\ Expired(cache[sid].at)
    <3>1. /\ rows' = table /\ sessions' = [cache EXCEPT ![sid] = None]
          /\ answer' = [op |-> "lookup", sid |-> sid, found |-> FALSE]
      BY <2>4 DEF Cached, NotFound
    <3>2. At(cache[sid]) = None /\ (Durable => At(table[sid]) = None)
      BY <1>3, <2>4 DEF Cached, At, MirrorOf
    <3>3. Live'[sid] = None /\ Live[sid] = None
      BY <1>2, <1>3, <3>1, <3>2 DEF Live, LiveOf, At, Expired
    <3>4. \A s \in Sid : Live'[s] = Live[s]
      BY <1>2, <1>3, <3>1, <3>3 DEF Live, LiveOf, At, Expired
    <3>5. Live' = Live
      BY <3>4 DEF Live
    <3> QED BY <3>1, <3>3, <3>5
  <2>5. CASE Cached(r, sid, cache, table) /\ ~Expired(cache[sid].at)
    <3>1. /\ rows' = table /\ sessions' = cache
          /\ answer' = [op |-> "lookup", sid |-> sid, found |-> TRUE]
      BY <2>5 DEF Cached, Found
    <3>2. Live' = Live
      BY <1>2, <1>3, <3>1 DEF Live, LiveOf, At, Expired
    <3>3. Live[sid] # None
      <4>1. At(cache[sid]) = cache[sid].at /\ (Durable => At(table[sid]) = cache[sid].at)
        BY <1>3, <2>5 DEF Cached, At, MirrorOf
      <4>2. Live[sid] = cache[sid].at
        BY <1>3, <4>1 DEF LiveOf
      <4> QED BY <2>1, <2>5, <4>2, StoreAssumption DEF Cached
    <3> QED BY <3>1, <3>2, <3>3
  <2>6. CASE Load(r, sid, cache, table, ok) /\ (~Durable \/ table[sid] = None)
    <3>1. /\ rows' = table /\ sessions' = cache
          /\ answer' = [op |-> "lookup", sid |-> sid, found |-> FALSE]
      BY <2>6 DEF Load, NotFound
    <3>2. Live' = Live
      BY <1>2, <1>3, <3>1 DEF Live, LiveOf, At, Expired
    <3>3. Live[sid] = None
      BY <1>3, <2>6 DEF LiveOf, At, Load
    <3> QED BY <3>1, <3>2, <3>3
  <2>7. CASE Load(r, sid, cache, table, ok) /\ Durable /\ table[sid] # None
    <3>1. CASE Expired(table[sid].at)
      <4>1. /\ rows' = [table EXCEPT ![sid] = None] /\ sessions' = cache
            /\ answer' = [op |-> "lookup", sid |-> sid, found |-> FALSE]
        BY <1>2, <2>7, <3>1 DEF Load, NotFound
      <4>2. Live[sid] = None /\ Live'[sid] = None
        BY <1>2, <1>3, <2>7, <3>1, <4>1 DEF Live, LiveOf, At, Expired
      <4>3. \A s \in Sid : Live'[s] = Live[s]
        BY <1>2, <1>3, <4>1, <4>2, <2>7 DEF Live, LiveOf, At, Expired
      <4>4. Live' = Live
        BY <4>3 DEF Live
      <4> QED BY <4>1, <4>2, <4>4
    <3>2. CASE ~Expired(table[sid].at)
      <4>1. /\ rows' = table
            /\ answer' = [op |-> "lookup", sid |-> sid, found |-> TRUE]
        BY <1>2, <2>7, <3>2 DEF Load, Found
      <4>2. Live' = Live
        BY <1>2, <1>3, <4>1, <2>7 DEF Live, LiveOf, At, Expired
      <4>3. Live[sid] = table[sid].at
        BY <1>3, <2>7, <3>2 DEF LiveOf, At
      <4>4. Live[sid] # None
        BY <2>1, <2>7, <4>3, StoreAssumption
      <4> QED BY <4>1, <4>2, <4>4
    <3> QED BY <3>1, <3>2
  <2> QED BY <1>3, <2>4, <2>5, <2>6, <2>7
<1> QED BY <1>1, <1>2, <1>3 DEF Directory!Lookup

LEMMA CreateLive ==
  ASSUME ~SqlFails, TypeOK, NEW sid \in Sid, Create(sid)
  PROVE  Directory!Save(sid)
<1> PICK o \in Obj, ok \in Outcome, swept \in Outcome :
       /\ sessions' = [SweptCache EXCEPT ![sid] = [obj |-> o, at |-> now]]
       /\ rows' = Persist(SweptRows(swept), sid, 0, ok)
  BY DEF Create
<1>1. /\ SweptCache \in [Sid -> Entry \cup {None}]
      /\ SweptRows(swept) \in [Sid -> Row \cup {None}]
      /\ LiveOf(SweptCache, SweptRows(swept)) = Live
  BY SweptTypes, SweptLive
<1>2. ok /\ now' = now /\ now \in Nat /\ SESSION_TTL \in Nat
  BY StoreAssumption DEF Outcome, Create, TypeOK
<1>3. [turns |-> 0, at |-> now] # None /\ [obj |-> o, at |-> now] # None
  BY <1>2, StoreAssumption DEF Row, Entry
<1>4. now' = now /\ now \in Nat /\ SESSION_TTL \in Nat
  BY <1>2
<1>5. ASSUME NEW s \in Sid PROVE Live'[s] = [Live EXCEPT ![sid] = now][s]
  <2>1. CASE s = sid
    <3>1. (Durable => rows'[s] = [turns |-> 0, at |-> now]) /\ sessions'[s] = [obj |-> o, at |-> now]
      BY <1>1, <1>2, <2>1 DEF Persist
    <3> QED BY <1>3, <1>4, <2>1, <3>1 DEF Live, At, Expired
  <2>2. CASE s # sid
    <3>1. (Durable => rows'[s] = SweptRows(swept)[s]) /\ sessions'[s] = SweptCache[s]
      BY <1>1, <1>2, <2>2 DEF Persist
    <3> QED BY <1>1, <1>2, <2>2, <3>1 DEF Live, LiveOf, At, Expired
  <2> QED BY <2>1, <2>2
<1>6. Live' = [Live EXCEPT ![sid] = now]
  BY <1>5 DEF Live
<1> QED BY <1>6 DEF Create, Directory!Save

LEMMA SaveLive ==
  ASSUME ~SqlFails, TypeOK, NEW r \in Request, Save(r)
  PROVE  Directory!Save(request[r].sid)
<1> DEFINE sid == request[r].sid
           o == request[r].obj
<1>1. sid \in Sid /\ o \in Obj /\ turns[o] \in Nat
  BY DEF Save, Working, TypeOK, Reference
<1>2. /\ sessions' = [sessions EXCEPT ![sid] = [obj |-> o, at |-> now]]
      /\ rows' = IF Durable THEN [rows EXCEPT ![sid] = [turns |-> turns[o], at |-> now]] ELSE rows
      /\ answer' = [op |-> "save", sid |-> sid, found |-> TRUE]
      /\ now' = now
  BY DEF Save, Persist, Outcome
<1>3. [turns |-> turns[o], at |-> now] # None /\ [obj |-> o, at |-> now] # None
  BY <1>1, StoreAssumption DEF TypeOK, Row, Entry
<1>4. now \in Nat /\ SESSION_TTL \in Nat
  BY StoreAssumption DEF TypeOK
<1> HIDE DEF sid, o
<1>5. ASSUME NEW s \in Sid PROVE Live'[s] = [Live EXCEPT ![sid] = now][s]
  <2>1. CASE s = sid
    <3>1. (Durable => rows'[s] = [turns |-> turns[o], at |-> now]) /\ sessions'[s] = [obj |-> o, at |-> now]
      BY <1>1, <1>2, <2>1 DEF TypeOK
    <3> QED BY <1>2, <1>3, <1>4, <2>1, <3>1 DEF Live, At, Expired
  <2>2. CASE s # sid
    <3>1. rows'[s] = rows[s] /\ sessions'[s] = sessions[s]
      BY <1>2, <2>2 DEF TypeOK
    <3> QED BY <1>2, <2>2, <3>1 DEF Live, At, Expired
  <2> QED BY <2>1, <2>2
<1>6. Live' = [Live EXCEPT ![sid] = now]
  BY <1>5 DEF Live
<1> QED BY <1>2, <1>6 DEF Directory!Save, sid

LEMMA DeleteLive ==
  ASSUME ~SqlFails, TypeOK, Mirrored, NEW sid \in Sid, Delete(sid)
  PROVE  Directory!Delete(sid)
<1>1. /\ rows' = IF Durable THEN [rows EXCEPT ![sid] = None] ELSE rows
      /\ sessions' = [sessions EXCEPT ![sid] = None]
      /\ answer' = [op |-> "delete", sid |-> sid,
                    found |-> sessions[sid] # None \/ (Durable /\ rows[sid] # None)]
      /\ now' = now
  BY DEF Delete, Outcome
<1>2. \A s \in Sid : Live'[s] = [Live EXCEPT ![sid] = None][s]
  BY <1>1 DEF Live, At, Expired, TypeOK
<1>3. Live' = [Live EXCEPT ![sid] = None]
  BY <1>2 DEF Live
<1>4. Live[sid] # None => sessions[sid] # None \/ (Durable /\ rows[sid] # None)
  BY DEF Live, At
<1> QED BY <1>1, <1>3, <1>4 DEF Directory!Delete

LEMMA ListLive ==
  ASSUME ~SqlFails, TypeOK, List
  PROVE  Directory!List
<1> DEFINE ids == {sid \in Sid : \/ sessions[sid] # None
                                 \/ /\ Durable
                                    /\ rows[sid] # None
                                    /\ ~Expired(rows[sid].at)}
<1>1. answer' = [op |-> "list", ids |-> ids] /\ UNCHANGED <<sessions, rows, now>>
  BY DEF List, Outcome, store
<1>2. ids \in SUBSET Sid /\ \A sid \in Sid : Live[sid] # None => sid \in ids
  BY DEF Live, At
<1>3. Live' = Live
  BY <1>1 DEF Live, At, Expired
<1> HIDE DEF ids
<1> QED BY <1>1, <1>2, <1>3 DEF Directory!List

LEMMA PassTimeLive ==
  ASSUME TypeOK, PassTime
  PROVE  Directory!PassTime
<1>1. now \in Nat /\ SESSION_TTL \in Nat /\ now' = now + 1 /\ UNCHANGED <<sessions, rows, answer>>
  BY StoreAssumption DEF PassTime, store, TypeOK
<1>2. ASSUME NEW sid \in Sid
      PROVE  Live'[sid] = IF Live[sid] # None /\ Live[sid] + SESSION_TTL >= now'
                            THEN Live[sid] ELSE None
  <2>1. /\ sessions[sid] # None => sessions[sid].at \in Nat /\ sessions[sid].at # None
        /\ rows[sid] # None => rows[sid].at \in Nat /\ rows[sid].at # None
    BY StoreAssumption DEF TypeOK, Entry, Row
  <2> QED BY <1>1, <2>1 DEF Live, At, Expired
<1>3. Live' = [sid \in Sid |-> IF Live[sid] # None /\ Live[sid] + SESSION_TTL >= now'
                                 THEN Live[sid] ELSE None]
  BY <1>2 DEF Live
<1> QED BY <1>1, <1>3 DEF Directory!PassTime

LEMMA RestartLive ==
  ASSUME ~SqlFails, TypeOK, Mirrored, Restart
  PROVE  Directory!Restart
<1>1. /\ sessions' = [sid \in Sid |-> None] /\ UNCHANGED <<rows, now>>
      /\ answer' = [op |-> "started"]
  BY DEF Restart
<1>2. Live' = IF Durable THEN Live ELSE [sid \in Sid |-> None]
  BY <1>1 DEF Live, At, Expired
<1> QED BY <1>1, <1>2 DEF Directory!Restart

\* Requests at work, and those that leave without saving, do not show.
LEMMA SilentLive ==
  ASSUME TypeOK,
         UNCHANGED vars \/ \E r \in Request : Work(r) \/ Leave(r)
  PROVE  UNCHANGED Directory!vars
<1>1. UNCHANGED <<sessions, rows, now, answer>>
  BY DEF Work, Leave, store, vars
<1> QED BY <1>1 DEF Live, At, Expired, Directory!vars

LEMMA NextLive ==
  ASSUME ~SqlFails, TypeOK, Mirrored, [Next]_vars
  PROVE  [Directory!Next]_(Directory!vars)
<1>1. ASSUME NEW sid \in Sid, Create(sid) PROVE Directory!Next
  BY <1>1, CreateLive DEF Directory!Next
<1>2. ASSUME NEW sid \in Sid, Delete(sid) PROVE Directory!Next
  BY <1>2, DeleteLive DEF Directory!Next
<1>3. ASSUME NEW r \in Request, NEW sid \in Sid, Lookup(r, sid) PROVE Directory!Next
  BY <1>3, LookupLive DEF Directory!Next
<1>4. ASSUME NEW r \in Request, Save(r) PROVE Directory!Next
  <2>1. request[r].sid \in Sid
    BY <1>4 DEF Save, Working, TypeOK, Reference
  <2> QED BY <1>4, <2>1, SaveLive DEF Directory!Next
<1>5. CASE List
  BY <1>5, ListLive DEF Directory!Next
<1>6. CASE PassTime
  BY <1>6, PassTimeLive DEF Directory!Next
<1>7. CASE Restart
  BY <1>7, RestartLive DEF Directory!Next
<1>8. CASE UNCHANGED vars \/ \E r \in Request : Work(r) \/ Leave(r)
  BY <1>8, SilentLive
<1> QED BY <1>1, <1>2, <1>3, <1>4, <1>5, <1>6, <1>7, <1>8 DEF Next

\* While SQLite works, every execution of the store, with its cache, its rate
\* limited sweep and its restarts, is one of the directory; without a table
\* (~Durable) it is one whose restarts forget everything.
THEOREM StoreImplementsDirectory == ~SqlFails => (Spec => ImplementsDirectory)
<1> SUFFICES ASSUME ~SqlFails PROVE Spec => ImplementsDirectory
  OBVIOUS
<1>1. Init => Directory!Init
  BY StoreAssumption DEF Init, Directory!Init, Live, At
<1>2. TypeOK /\ Mirrored /\ [Next]_vars => [Directory!Next]_(Directory!vars)
  BY NextLive
<1> QED
  BY <1>1, <1>2, StoreTypeCorrect, RowsMirrorCache, PTL
  DEF Spec, ImplementsDirectory, Directory!Spec

----------------------------------------------------------------------------
\* One object per session while SQLite works

\* Object o may be what a request on session sid holds: it is the one in the cache,
\* or there is none in the cache and no row another could be made of.
Holds(sid, o, cache, table) ==
  /\ sid \in created
  /\ IF cache[sid] # None THEN cache[sid].obj = o
     ELSE table[sid] = None \/ Expired(table[sid].at)

Held(cache, table) ==
  /\ \A sid \in Sid \ created : cache[sid] = None /\ table[sid] = None
  /\ \A r \in Request : Working(r) => Holds(request[r].sid, request[r].obj, cache, table)

AllHeld == Held(sessions, rows)

Shared ==
  \A r, q \in Request : Working(r) /\ Working(q) /\ request[q].sid = request[r].sid
                           => request[q].obj = request[r].obj

OInv == TypeOK /\ Mirrored /\ AllHeld /\ Shared

LEMMA WorkingTypes ==
  ASSUME TypeOK, NEW r \in Request, Working(r)
  PROVE  request[r].sid \in Sid /\ request[r].obj \in Obj
BY DEF TypeOK, Working, Reference

LEMMA SweptHeld ==
  ASSUME ~SqlFails, OInv, NEW ok \in Outcome
  PROVE  Held(SweptCache, SweptRows(ok))
<1>1. \A sid \in Sid :
        /\ SweptCache[sid] \in {sessions[sid], None} /\ SweptRows(ok)[sid] \in {rows[sid], None}
        /\ SweptCache[sid] # sessions[sid] => Expired(sessions[sid].at)
  BY DEF SweptCache, SweptRows, Sweep, OInv, TypeOK
<1>2. ASSUME NEW sid \in Sid, NEW o, Holds(sid, o, sessions, rows)
      PROVE  Holds(sid, o, SweptCache, SweptRows(ok))
  <2>1. SweptCache[sid] # sessions[sid] => rows[sid] = None \/ Expired(rows[sid].at)
    BY <1>1 DEF OInv, Mirrored
  <2> QED BY <1>1, <1>2, <2>1 DEF Holds
<1> QED BY <1>1, <1>2, WorkingTypes DEF OInv, AllHeld, Held

LEMMA CachedHeld ==
  ASSUME OInv, NEW r \in Request, NEW sid \in Sid, ~Working(r),
         NEW cache \in [Sid -> Entry \cup {None}], NEW table \in [Sid -> Row \cup {None}],
         MirrorOf(cache, table), Held(cache, table), Cached(r, sid, cache, table),
         UNCHANGED <<created, now>>
  PROVE  AllHeld' /\ Shared'
<1>1. CASE Expired(cache[sid].at)
  <2>1. sessions' = [cache EXCEPT ![sid] = None] /\ rows' = table /\ request' = request
    BY <1>1 DEF Cached, NotFound
  <2>2. table[sid] = None \/ Expired(table[sid].at)
    BY <1>1 DEF MirrorOf, Cached
  <2>3. AllHeld'
    BY <2>1, <2>2, WorkingTypes DEF Held, AllHeld, Holds, Working, Expired, OInv
  <2> QED BY <2>1, <2>3 DEF OInv, Shared, Working
<1>2. CASE ~Expired(cache[sid].at)
  <2> DEFINE ref == [sid |-> sid, obj |-> cache[sid].obj]
  <2>1. sessions' = cache /\ rows' = table /\ request' = [request EXCEPT ![r] = ref]
    BY <1>2 DEF Cached, Found
  <2>2. \A q \in Request : request'[q] = IF q = r THEN ref ELSE request[q]
    BY <2>1 DEF OInv, TypeOK
  <2>3. Holds(sid, ref.obj, cache, table)
    BY DEF Held, Holds, Cached
  <2>4. \A q \in Request : Working(q) /\ request[q].sid = sid => request[q].obj = ref.obj
    BY DEF Held, Holds, Cached
  <2>5. AllHeld'
    BY <2>1, <2>2, <2>3 DEF Held, AllHeld, Holds, Working, Expired
  <2>6. Shared'
    BY <2>2, <2>4 DEF Shared, Working, OInv
  <2> QED BY <2>5, <2>6
<1> QED BY <1>1, <1>2

\* A session is loaded only when nobody works on it.
LEMMA LoadHeld ==
  ASSUME OInv, NEW r \in Request, NEW sid \in Sid, ~Working(r), NEW ok,
         NEW cache \in [Sid -> Entry \cup {None}], NEW table \in [Sid -> Row \cup {None}],
         Held(cache, table), Load(r, sid, cache, table, ok),
         UNCHANGED <<created, now>>
  PROVE  AllHeld' /\ Shared'
<1>1. CASE /\ sessions' = cache /\ rows' \in {table, [table EXCEPT ![sid] = None]}
           /\ request' = request
  BY <1>1, WorkingTypes DEF Held, AllHeld, Holds, Working, Expired, OInv, Shared
<1>2. CASE \E o \in Obj :
             /\ cache[sid] = None /\ table[sid] # None /\ ~Expired(table[sid].at)
             /\ rows' = table
             /\ sessions' = [cache EXCEPT ![sid] = [obj |-> o, at |-> table[sid].at]]
             /\ request' = [request EXCEPT ![r] = [sid |-> sid, obj |-> o]]
  <2> PICK o \in Obj :
             /\ cache[sid] = None /\ table[sid] # None /\ ~Expired(table[sid].at)
             /\ rows' = table
             /\ sessions' = [cache EXCEPT ![sid] = [obj |-> o, at |-> table[sid].at]]
             /\ request' = [request EXCEPT ![r] = [sid |-> sid, obj |-> o]]
    BY <1>2
  <2> DEFINE ref == [sid |-> sid, obj |-> o]
             entry == [obj |-> o, at |-> table[sid].at]
  <2>1. \A q \in Request : Working(q) => request[q].sid # sid
    BY DEF Held, Holds
  <2>2. \A q \in Request : request'[q] = IF q = r THEN ref ELSE request[q]
    BY DEF OInv, TypeOK
  <2>3. \A s \in Sid : sessions'[s] = IF s = sid THEN entry ELSE cache[s]
    OBVIOUS
  <2>4. sid \in created /\ entry # None
    <3>1. entry \in Entry
      BY DEF Entry, Row
    <3> QED BY <3>1, StoreAssumption DEF Held
  <2>5. AllHeld'
    <3>1. \A s \in Sid \ created' : sessions'[s] = None /\ rows'[s] = None
      BY <2>3, <2>4 DEF Held
    <3>2. ASSUME NEW q \in Request, Working(q)'
          PROVE  Holds(request[q].sid, request[q].obj, sessions, rows)'
      <4>1. CASE q = r
        BY <2>2, <2>3, <2>4, <4>1 DEF Holds
      <4>2. CASE q # r
        <5>1. Working(q) /\ request'[q] = request[q] /\ request[q].sid \in Sid \ {sid}
          BY <2>1, <2>2, <3>2, <4>2, WorkingTypes DEF Working, OInv
        <5> QED BY <2>3, <5>1 DEF Held, Holds, Expired
      <4> QED BY <4>1, <4>2
    <3> QED BY <3>1, <3>2 DEF Held, AllHeld
  <2>6. Shared'
    BY <2>1, <2>2 DEF Shared, Working, OInv
  <2> QED BY <2>5, <2>6
<1> QED BY <1>1, <1>2 DEF Load, NotFound, Found

LEMMA LookupHeld ==
  ASSUME ~SqlFails, OInv, NEW r \in Request, NEW sid \in Sid, Lookup(r, sid)
  PROVE  AllHeld' /\ Shared'
<1> PICK swept \in Outcome, ok \in Outcome :
      \/ Cached(r, sid, SweptCache, SweptRows(swept))
      \/ Load(r, sid, SweptCache, SweptRows(swept), ok)
  BY DEF Lookup
<1>1. /\ SweptCache \in [Sid -> Entry \cup {None}]
      /\ SweptRows(swept) \in [Sid -> Row \cup {None}]
      /\ MirrorOf(SweptCache, SweptRows(swept)) /\ Held(SweptCache, SweptRows(swept))
  BY SweptTypes, SweptMirror, SweptHeld DEF OInv
<1>2. ~Working(r) /\ UNCHANGED <<created, now>>
  BY DEF Lookup
<1> QED BY <1>1, <1>2, CachedHeld, LoadHeld

LEMMA CreateHeld ==
  ASSUME ~SqlFails, OInv, NEW sid \in Sid, Create(sid)
  PROVE  AllHeld' /\ Shared'
<1> PICK o \in Obj, ok \in Outcome, swept \in Outcome :
       /\ sessions' = [SweptCache EXCEPT ![sid] = [obj |-> o, at |-> now]]
       /\ rows' = Persist(SweptRows(swept), sid, 0, ok)
  BY DEF Create
<1>1. /\ SweptCache \in [Sid -> Entry \cup {None}]
      /\ SweptRows(swept) \in [Sid -> Row \cup {None}]
      /\ Held(SweptCache, SweptRows(swept))
  BY SweptTypes, SweptHeld DEF OInv
<1>2. \A s \in Sid \ {sid} : sessions'[s] = SweptCache[s] /\ rows'[s] = SweptRows(swept)[s]
  BY <1>1 DEF Persist
<1>3. /\ sid \notin created /\ created' = created \cup {sid}
      /\ UNCHANGED <<request, now>>
  BY DEF Create
<1>4. \A q \in Request : Working(q) => request[q].sid \in Sid \ {sid}
  BY <1>1, <1>3, WorkingTypes DEF Held, Holds, OInv
<1>5. AllHeld'
  BY <1>1, <1>2, <1>3, <1>4 DEF Held, AllHeld, Holds, Working, Expired
<1> QED BY <1>3, <1>5 DEF OInv, Shared, Working

LEMMA DeleteHeld ==
  ASSUME ~SqlFails, OInv, NEW sid \in Sid, Delete(sid)
  PROVE  AllHeld' /\ Shared'
<1>1. /\ sessions' = [sessions EXCEPT ![sid] = None]
      /\ UNCHANGED <<request, created, now>>
  BY DEF Delete
<1>2. rows'[sid] = None /\ \A s \in Sid \ {sid} : rows'[s] = rows[s]
  BY DEF Delete, Outcome, OInv, Mirrored, TypeOK
<1>3. sessions'[sid] = None /\ \A s \in Sid \ {sid} : sessions'[s] = sessions[s]
  BY <1>1 DEF OInv, TypeOK
<1>4. AllHeld'
  BY <1>1, <1>2, <1>3, WorkingTypes DEF OInv, AllHeld, Held, Holds, Working, Expired
<1> QED BY <1>1, <1>4 DEF OInv, Shared, Working

\* The cache takes the object all who work on the session hold.
LEMMA SaveHeld ==
  ASSUME OInv, NEW r \in Request, Save(r)
  PROVE  AllHeld' /\ Shared'
<1> DEFINE sid == request[r].sid
           o == request[r].obj
           entry == [obj |-> o, at |-> now]
<1>1. /\ sid \in Sid /\ o \in Obj /\ sid \in created
      /\ entry # None
  <2>1. Working(r)
    BY DEF Save
  <2>2. sid \in Sid /\ o \in Obj /\ sid \in created
    BY <2>1, WorkingTypes DEF OInv, AllHeld, Held, Holds
  <2>3. entry \in Entry
    BY <2>2 DEF OInv, TypeOK, Entry
  <2> QED BY <2>2, <2>3, StoreAssumption
<1>2. /\ sessions' = [sessions EXCEPT ![sid] = entry]
      /\ request' = [request EXCEPT ![r] = None]
      /\ UNCHANGED <<created, now>>
  BY DEF Save
<1>3. \A s \in Sid \ {sid} : rows'[s] = rows[s]
  <2>1. PICK ok \in Outcome : rows' = Persist(rows, sid, turns[o], ok)
    BY DEF Save
  <2> QED BY <2>1 DEF Persist, OInv, TypeOK
<1>4. \A s \in Sid : sessions'[s] = IF s = sid THEN entry ELSE sessions[s]
  BY <1>2 DEF OInv, TypeOK
<1>5. \A q \in Request : Working(q)' => Working(q) /\ request'[q] = request[q]
  BY <1>2 DEF OInv, TypeOK, Working
<1>6. AllHeld'
  <2>1. \A s \in Sid \ created' : sessions'[s] = None /\ rows'[s] = None
    BY <1>1, <1>2, <1>3, <1>4 DEF OInv, AllHeld, Held
  <2>2. ASSUME NEW q \in Request, Working(q)'
        PROVE  Holds(request[q].sid, request[q].obj, sessions, rows)'
    <3>1. Working(q) /\ request'[q] = request[q] /\ request[q].sid \in Sid /\ Working(r)
      BY <1>5, <2>2, WorkingTypes DEF OInv, Save
    <3>2. CASE request[q].sid = sid
      <4>1. request[q].obj = o
        BY <3>1, <3>2 DEF OInv, Shared
      <4> QED BY <1>1, <1>2, <1>4, <3>1, <3>2, <4>1 DEF Holds
    <3>3. CASE request[q].sid # sid
      <4>1. Holds(request[q].sid, request[q].obj, sessions, rows)
        BY <3>1 DEF OInv, AllHeld, Held
      <4> QED BY <1>2, <1>3, <1>4, <3>1, <3>3, <4>1 DEF Holds, Expired
    <3> QED BY <3>2, <3>3
  <2> QED BY <2>1, <2>2 DEF AllHeld, Held
<1>7. Shared'
  BY <1>5 DEF OInv, Shared
<1> QED BY <1>6, <1>7

LEMMA NextOInv == ~SqlFails /\ OInv /\ [Next]_vars => OInv'
<1> SUFFICES ASSUME ~SqlFails, OInv, [Next]_vars PROVE AllHeld' /\ Shared'
  BY NextType, NextMirror DEF OInv
<1>1. ASSUME UNCHANGED <<sessions, rows, request, created, now>> PROVE AllHeld' /\ Shared'
  BY <1>1 DEF OInv, AllHeld, Held, Holds, Shared, Working, Expired
<1>2. ASSUME NEW r \in Request, Leave(r) PROVE AllHeld' /\ Shared'
  <2>1. UNCHANGED <<sessions, rows, created, now>>
    BY <1>2 DEF Leave, store
  <2>2. \A q \in Request : Working(q)' => Working(q) /\ request'[q] = request[q]
    BY <1>2 DEF Leave, OInv, TypeOK, Working
  <2> QED BY <2>1, <2>2 DEF OInv, AllHeld, Held, Holds, Shared, Expired
<1>3. CASE PassTime
  <2>1. UNCHANGED <<sessions, rows, request, created>> /\ now' = now + 1 /\ now \in Nat
    BY <1>3 DEF PassTime, store, OInv, TypeOK
  <2>2. \A sid \in Sid : rows[sid] # None /\ Expired(rows[sid].at) => Expired(rows[sid].at)'
    BY <2>1, StoreAssumption DEF OInv, TypeOK, Row, Expired
  <2> QED BY <2>1, <2>2, WorkingTypes DEF OInv, AllHeld, Held, Holds, Shared, Working
<1>4. CASE Restart
  <2>1. /\ \A sid \in Sid : sessions'[sid] = None
        /\ \A r \in Request : ~Working(r)'
        /\ UNCHANGED <<rows, created>>
    BY <1>4 DEF Restart, Working
  <2> QED BY <2>1 DEF OInv, AllHeld, Held, Shared
<1> QED
  BY <1>1, <1>2, <1>3, <1>4, CreateHeld, DeleteHeld, LookupHeld, SaveHeld
  DEF Next, Work, List, store, vars

LEMMA OneObjectInvariance == ~SqlFails => (Spec => []OInv)
<1> SUFFICES ASSUME ~SqlFails PROVE Spec => []OInv
  OBVIOUS
<1>1. Init => OInv
  BY InitType DEF Init, OInv, Mirrored, AllHeld, Held, Shared, Working
<1>2. OInv /\ [Next]_vars => OInv'
  BY NextOInv
<1> QED BY <1>1, <1>2, PTL DEF Spec

\* While SQLite works, a session is never loaded a second time for another request
\* that works on it: cache, requests and background tasks share one object, through
\* every deletion, expiry, sweep and restart.
THEOREM AllShareOneObject == ~SqlFails => (Spec => []OneObject)
<1> SUFFICES ASSUME ~SqlFails PROVE Spec => []OneObject
  OBVIOUS
<1>1. OInv => OneObject
  BY WorkingTypes DEF OInv, AllHeld, Held, Holds, Shared, OneObject
<1> QED BY <1>1, OneObjectInvariance, PTL

(***************************************************************************)
(* What was saved: nobody is served an expired session, whatever fails in  *)
(* SQLite; no saved turn is lost, and what ended by itself stays ended,    *)
(* while it works. What carries this is that no time kept by the store is  *)
(* later than the last save (Aged).                                        *)
(***************************************************************************)
\* No entry and no row is younger than the last save of its session, nor that
\* than now.
YoungerThanSave(d) ==
  \A sid \in Sid : d[sid] # None => savedAt[sid] \in Nat /\ d[sid].at <= savedAt[sid]

Aged ==
  /\ savedAt \in [Sid -> Nat \cup {None}]
  /\ \A sid \in Sid : savedAt[sid] # None => savedAt[sid] <= now
  /\ YoungerThanSave(sessions)
  /\ YoungerThanSave(rows)

HInv == TypeOK /\ Aged

LEMMA SweptAged ==
  ASSUME HInv, NEW ok
  PROVE  YoungerThanSave(SweptCache) /\ YoungerThanSave(SweptRows(ok))
BY DEF HInv, Aged, TypeOK, YoungerThanSave, SweptCache, SweptRows, Sweep

\* A lookup copies times from one place to another and finds nothing expired.
LEMMA LookupAged ==
  ASSUME HInv, NEW r \in Request, NEW sid \in Sid, Lookup(r, sid)
  PROVE  /\ UNCHANGED savedAt => Aged'
         /\ answer'.found => ~Expired(savedAt[sid])
<1> PICK swept \in Outcome, ok \in Outcome :
      \/ Cached(r, sid, SweptCache, SweptRows(swept))
      \/ Load(r, sid, SweptCache, SweptRows(swept), ok)
  BY DEF Lookup
<1>1. /\ SweptCache \in [Sid -> Entry \cup {None}]
      /\ SweptRows(swept) \in [Sid -> Row \cup {None}]
      /\ YoungerThanSave(SweptCache) /\ YoungerThanSave(SweptRows(swept))
  BY SweptTypes, SweptAged DEF HInv
<1>2. now' = now /\ now \in Nat /\ SESSION_TTL \in Nat
  BY StoreAssumption DEF Lookup, HInv, TypeOK
<1>3. ASSUME NEW cache \in [Sid -> Entry \cup {None}], NEW table \in [Sid -> Row \cup {None}],
             YoungerThanSave(cache), YoungerThanSave(table),
             Cached(r, sid, cache, table) \/ Load(r, sid, cache, table, ok)
      PROVE  /\ UNCHANGED savedAt => YoungerThanSave(sessions)' /\ YoungerThanSave(rows)'
             /\ answer'.found => ~Expired(savedAt[sid])
  <2>1. \A s \in Sid : /\ cache[s] # None => cache[s].at \in Nat
                       /\ table[s] # None => table[s].at \in Nat
    BY DEF Entry, Row
  <2>2. CASE Cached(r, sid, cache, table)
    <3>1. rows' = table /\ \A s \in Sid : sessions'[s] \in {cache[s], None}
      BY <2>2 DEF Cached
    <3>2. answer'.found => cache[sid] # None /\ ~Expired(cache[sid].at)
      BY <2>2 DEF Cached, NotFound
    <3> QED BY <1>2, <1>3, <2>1, <3>1, <3>2 DEF YoungerThanSave, Expired
  <2>3. CASE Load(r, sid, cache, table, ok)
    <3>1. \A s \in Sid : rows'[s] \in {table[s], None}
      BY <2>3 DEF Load
    <3>2. \A s \in Sid : \/ sessions'[s] = cache[s]
                         \/ table[s] # None /\ sessions'[s].at = table[s].at
      BY <2>3 DEF Load
    <3>3. answer'.found => table[sid] # None /\ ~Expired(table[sid].at)
      BY <2>3 DEF Load, NotFound
    <3> QED BY <1>2, <1>3, <2>1, <3>1, <3>2, <3>3 DEF YoungerThanSave, Expired
  <2> QED BY <1>3, <2>2, <2>3
<1> QED BY <1>1, <1>2, <1>3 DEF HInv, Aged

\* What a save or a creation leaves: the session is as old as its last save.
LEMMA SavedAged ==
  ASSUME HInv, NEW sid \in Sid, NEW n, Saved(sid, n), now' = now,
         \A s \in Sid \ {sid} : /\ sessions'[s] \in {sessions[s], None}
                                /\ rows'[s] \in {rows[s], None},
         sessions'[sid].at = now,
         rows'[sid] \in {rows[sid], None} \/ rows'[sid].at = now
  PROVE  Aged'
<1>1. savedAt' = [savedAt EXCEPT ![sid] = now] /\ now \in Nat
  BY DEF Saved, HInv, TypeOK
<1>2. \A s \in Sid : /\ sessions[s] # None => sessions[s].at \in Nat
                     /\ rows[s] # None => rows[s].at \in Nat
  BY DEF HInv, TypeOK, Entry, Row
<1>3. ASSUME NEW s \in Sid
      PROVE  /\ savedAt'[s] # None => savedAt'[s] <= now'
             /\ sessions'[s] # None => savedAt'[s] \in Nat /\ sessions'[s].at <= savedAt'[s]
             /\ rows'[s] # None => savedAt'[s] \in Nat /\ rows'[s].at <= savedAt'[s]
  <2>1. /\ savedAt[s] # None => savedAt[s] \in Nat /\ savedAt[s] <= now
        /\ sessions[s] # None => savedAt[s] \in Nat /\ sessions[s].at <= savedAt[s]
        /\ rows[s] # None => savedAt[s] \in Nat /\ rows[s].at <= savedAt[s]
    BY DEF HInv, Aged, YoungerThanSave
  <2>2. CASE s = sid
    <3>1. savedAt'[s] = now
      BY <1>1, <2>2 DEF HInv, Aged
    <3>2. rows[s] # None => rows[s].at <= now
      BY <1>1, <1>2, <2>1, StoreAssumption
    <3> QED BY <1>1, <2>2, <3>1, <3>2
  <2>3. CASE s # sid
    <3>1. savedAt'[s] = savedAt[s]
      BY <1>1, <2>3 DEF HInv, Aged
    <3> QED BY <2>1, <2>3, <3>1
  <2> QED BY <2>2, <2>3
<1>4. savedAt' \in [Sid -> Nat \cup {None}]
  BY <1>1 DEF HInv, Aged
<1> QED BY <1>3, <1>4 DEF Aged, YoungerThanSave

LEMMA HNextInv == HInv /\ [HNext]_hvars => HInv'
<1> SUFFICES ASSUME HInv, [HNext]_hvars PROVE HInv'
  OBVIOUS
<1>1. TypeOK'
  <2>1. [Next]_vars
    <3>1. CASE HNext
      BY <3>1 DEF HNext, Next
    <3>2. CASE UNCHANGED hvars
      BY <3>2 DEF hvars
    <3> QED BY <3>1, <3>2
  <2> QED BY <2>1, NextType DEF HInv
<1>2. CASE UNCHANGED hvars
  BY <1>1, <1>2 DEF hvars, vars, history, HInv, Aged, YoungerThanSave
<1>3. ASSUME NEW sid \in Sid, Create(sid), Saved(sid, 0) PROVE Aged'
  <2> PICK o \in Obj, ok \in Outcome, swept \in Outcome :
         /\ sessions' = [SweptCache EXCEPT ![sid] = [obj |-> o, at |-> now]]
         /\ rows' = Persist(SweptRows(swept), sid, 0, ok)
    BY <1>3 DEF Create
  <2>1. /\ SweptCache \in [Sid -> Entry \cup {None}]
        /\ SweptRows(swept) \in [Sid -> Row \cup {None}]
    BY SweptTypes DEF HInv
  <2>2. \A s \in Sid : /\ SweptCache[s] \in {sessions[s], None}
                       /\ SweptRows(swept)[s] \in {rows[s], None}
    BY DEF SweptCache, SweptRows, Sweep, HInv, TypeOK
  <2>3. \A s \in Sid \ {sid} : /\ sessions'[s] \in {sessions[s], None}
                               /\ rows'[s] \in {rows[s], None}
    BY <2>1, <2>2 DEF Persist
  <2>4. sessions'[sid].at = now /\ (rows'[sid] \in {rows[sid], None} \/ rows'[sid].at = now)
    BY <2>1, <2>2 DEF Persist
  <2> QED BY <1>3, <2>3, <2>4, SavedAged DEF Create
<1>4. ASSUME NEW sid \in Sid, Delete(sid), Terminated(sid) PROVE Aged'
  <2>1. UNCHANGED <<savedAt, now>>
    BY <1>4 DEF Delete, Terminated
  <2>2. \A s \in Sid : sessions'[s] \in {sessions[s], None} /\ rows'[s] \in {rows[s], None}
    BY <1>4 DEF Delete, HInv, TypeOK
  <2> QED BY <2>1, <2>2 DEF HInv, Aged, YoungerThanSave
<1>5. ASSUME NEW r \in Request, Save(r),
             Saved(request[r].sid, turns[request[r].obj])
      PROVE  Aged'
  <2> DEFINE sid == request[r].sid
             o == request[r].obj
  <2>1. sid \in Sid
    BY <1>5 DEF Save, Working, HInv, TypeOK, Reference
  <2>2. PICK ok \in Outcome : rows' = Persist(rows, sid, turns[o], ok)
    BY <1>5 DEF Save
  <2>3. sessions' = [sessions EXCEPT ![sid] = [obj |-> o, at |-> now]] /\ now' = now
    BY <1>5 DEF Save
  <2> HIDE DEF sid, o
  <2>4. \A s \in Sid \ {sid} : /\ sessions'[s] \in {sessions[s], None}
                               /\ rows'[s] \in {rows[s], None}
    BY <2>1, <2>2, <2>3 DEF Persist, HInv, TypeOK
  <2>5. sessions'[sid].at = now /\ (rows'[sid] \in {rows[sid], None} \/ rows'[sid].at = now)
    BY <2>1, <2>2, <2>3 DEF Persist, HInv, TypeOK
  <2>6. Saved(sid, turns[request[r].obj])
    BY <1>5 DEF sid
  <2> QED BY <2>1, <2>3, <2>4, <2>5, <2>6, SavedAged
<1>6. ASSUME NEW r \in Request, NEW sid \in Sid, Lookup(r, sid), UNCHANGED history PROVE Aged'
  BY <1>6, LookupAged DEF history
<1>7. CASE /\ (\E r \in Request : Work(r) \/ Leave(r)) \/ List
           /\ UNCHANGED history
  <2>1. UNCHANGED <<sessions, rows, now, savedAt>>
    BY <1>7 DEF Work, Leave, List, store, history
  <2> QED BY <1>1, <2>1 DEF HInv, Aged, YoungerThanSave
<1>8. CASE PassTime /\ UNCHANGED history
  <2>1. UNCHANGED <<sessions, rows, savedAt>> /\ now \in Nat /\ now' = now + 1
    BY <1>8 DEF PassTime, store, history, HInv, TypeOK
  <2>2. \A sid \in Sid : savedAt[sid] # None => savedAt[sid] \in Nat
    BY DEF HInv, Aged
  <2> QED BY <1>1, <2>1, <2>2 DEF HInv, Aged, YoungerThanSave
<1>9. CASE Restart /\ UNCHANGED savedAt
  <2>1. UNCHANGED <<rows, now, savedAt>> /\ sessions' = [sid \in Sid |-> None]
    BY <1>9 DEF Restart
  <2> QED BY <1>1, <2>1 DEF HInv, Aged, YoungerThanSave
<1> QED
  BY <1>1, <1>2, <1>3, <1>4, <1>5, <1>6, <1>7, <1>8, <1>9 DEF HNext, HInv

\* No execution ever hands out a session last saved more than the TTL ago.
THEOREM NeverServesExpired == HSpec => ServesUnexpired
<1>1. HInit => HInv
  <2>1. HInit => TypeOK
    BY InitType DEF HInit
  <2> QED BY <2>1 DEF HInit, Init, HInv, Aged, YoungerThanSave
<1>2. HInv => \A sid \in Sid : Finds(sid) => ~Expired(savedAt[sid])
  BY LookupAged DEF Finds
<1> QED BY <1>1, <1>2, HNextInv, PTL DEF HSpec, ServesUnexpired

----------------------------------------------------------------------------
\* No saved turn is lost while SQLite works

\* Everything a session may be found in, or saved from, has every turn ever saved.
Recorded(cache, table) ==
  \A sid \in Sid : /\ cache[sid] # None => savedTurns[sid] <= turns[cache[sid].obj]
                   /\ table[sid] # None => savedTurns[sid] <= table[sid].turns

InHand == \A r \in Request : Working(r) => savedTurns[request[r].sid] <= turns[request[r].obj]

\* Nothing was saved of a session that is not created yet.
Unsaved == \A sid \in Sid \ created : savedTurns[sid] = 0

KInv ==
  OInv /\ savedTurns \in [Sid -> Nat] /\ Unsaved /\ Recorded(sessions, rows) /\ InHand

LEMMA SweptRecorded ==
  ASSUME KInv, NEW ok
  PROVE  Recorded(SweptCache, SweptRows(ok))
BY DEF KInv, OInv, TypeOK, Recorded, SweptCache, SweptRows, Sweep

LEMMA LookupRecorded ==
  ASSUME ~SqlFails, KInv, NEW r \in Request, NEW sid \in Sid, Lookup(r, sid),
         UNCHANGED savedTurns
  PROVE  /\ Recorded(sessions, rows)' /\ InHand'
         /\ answer'.found => turns'[sessions'[sid].obj] >= savedTurns[sid]
<1> PICK swept \in Outcome, ok \in Outcome :
      \/ Cached(r, sid, SweptCache, SweptRows(swept))
      \/ Load(r, sid, SweptCache, SweptRows(swept), ok)
  BY DEF Lookup
<1>1. /\ SweptCache \in [Sid -> Entry \cup {None}]
      /\ SweptRows(swept) \in [Sid -> Row \cup {None}]
      /\ Recorded(SweptCache, SweptRows(swept))
      /\ \A s \in Sid : SweptCache[s] \in {sessions[s], None}
  <2>1. \A s \in Sid : SweptCache[s] \in {sessions[s], None}
    BY DEF SweptCache, Sweep, KInv, OInv, TypeOK
  <2> QED BY <2>1, SweptTypes, SweptRecorded DEF KInv, OInv
<1>2. ~Working(r) /\ request \in [Request -> Reference \cup {None}] /\ turns \in [Obj -> Nat]
  BY DEF Lookup, KInv, OInv, TypeOK
<1>3. ASSUME NEW cache \in [Sid -> Entry \cup {None}], NEW table \in [Sid -> Row \cup {None}],
             Recorded(cache, table), Cached(r, sid, cache, table)
      PROVE  /\ Recorded(sessions, rows)' /\ InHand'
             /\ answer'.found => turns'[sessions'[sid].obj] >= savedTurns[sid]
  <2>0. cache[sid] # None /\ cache[sid].obj \in Obj /\ savedTurns[sid] \in Nat
    BY <1>3 DEF Cached, Entry, KInv
  <2>1. CASE Expired(cache[sid].at)
    <3>1. /\ sessions' = [cache EXCEPT ![sid] = None] /\ rows' = table
          /\ UNCHANGED <<request, turns>> /\ ~answer'.found
      BY <1>3, <2>1 DEF Cached, NotFound
    <3> QED BY <1>3, <3>1 DEF Recorded, InHand, KInv, Working
  <2>2. CASE ~Expired(cache[sid].at)
    <3>1. /\ sessions' = cache /\ rows' = table /\ turns' = turns
          /\ request' = [request EXCEPT ![r] = [sid |-> sid, obj |-> cache[sid].obj]]
      BY <1>3, <2>2 DEF Cached, Found
    <3>2. Recorded(sessions, rows)'
      BY <1>3, <3>1 DEF Recorded
    <3>3. savedTurns[sid] <= turns[cache[sid].obj]
      BY <1>3, <2>0 DEF Recorded
    <3>4. InHand'
      BY <1>2, <3>1, <3>3 DEF InHand, KInv, Working
    <3> QED BY <1>2, <2>0, <3>1, <3>2, <3>3, <3>4
  <2> QED BY <2>1, <2>2
<1>4. ASSUME NEW cache \in [Sid -> Entry \cup {None}], NEW table \in [Sid -> Row \cup {None}],
             Recorded(cache, table), Load(r, sid, cache, table, ok),
             \A s \in Sid : cache[s] \in {sessions[s], None}
      PROVE  /\ Recorded(sessions, rows)' /\ InHand'
             /\ answer'.found => turns'[sessions'[sid].obj] >= savedTurns[sid]
  <2>1. CASE /\ sessions' = cache /\ rows' \in {table, [table EXCEPT ![sid] = None]}
             /\ UNCHANGED <<request, turns>> /\ ~answer'.found
    BY <1>4, <2>1 DEF Recorded, InHand, KInv, Working
  <2>2. CASE \E o \in Obj :
               /\ Unreferenced(o) /\ table[sid] # None
               /\ rows' = table
               /\ turns' = [turns EXCEPT ![o] = table[sid].turns]
               /\ sessions' = [cache EXCEPT ![sid] = [obj |-> o, at |-> table[sid].at]]
               /\ request' = [request EXCEPT ![r] = [sid |-> sid, obj |-> o]]
    <3> PICK o \in Obj :
               /\ Unreferenced(o) /\ table[sid] # None
               /\ rows' = table
               /\ turns' = [turns EXCEPT ![o] = table[sid].turns]
               /\ sessions' = [cache EXCEPT ![sid] = [obj |-> o, at |-> table[sid].at]]
               /\ request' = [request EXCEPT ![r] = [sid |-> sid, obj |-> o]]
      BY <2>2
    <3>1. table[sid].turns \in Nat /\ savedTurns[sid] \in Nat /\ savedTurns[sid] <= table[sid].turns
      BY <1>4 DEF Row, KInv, Recorded
    <3>2. \A s \in Sid : cache[s] # None => cache[s].obj \in Obj \ {o}
      BY <1>4 DEF Unreferenced, Entry
    <3>3. \A q \in Request : Working(q) => request[q].obj \in Obj \ {o}
      BY WorkingTypes DEF Unreferenced, KInv, OInv
    <3>4. turns'[o] = table[sid].turns /\ \A x \in Obj \ {o} : turns'[x] = turns[x]
      BY <1>2
    <3>5. Recorded(sessions, rows)'
      <4> SUFFICES ASSUME NEW s \in Sid, sessions'[s] # None
                   PROVE  savedTurns[s] <= turns'[sessions'[s].obj]
        BY <1>4 DEF Recorded
      <4>1. CASE s = sid
        BY <3>1, <3>4, <4>1
      <4>2. CASE s # sid
        <5>1. sessions'[s] = cache[s] /\ cache[s] # None
          BY <4>2
        <5> QED BY <1>4, <3>2, <3>4, <5>1 DEF Recorded
      <4> QED BY <4>1, <4>2
    <3>6. InHand'
      <4> SUFFICES ASSUME NEW q \in Request, Working(q)'
                   PROVE  savedTurns[request'[q].sid] <= turns'[request'[q].obj]
        BY DEF InHand
      <4>1. CASE q = r
        BY <1>2, <3>1, <3>4, <4>1
      <4>2. CASE q # r
        <5>1. request'[q] = request[q] /\ Working(q)
          BY <1>2, <4>2 DEF Working
        <5> QED BY <3>3, <3>4, <5>1 DEF KInv, InHand
      <4> QED BY <4>1, <4>2
    <3>7. turns'[sessions'[sid].obj] >= savedTurns[sid]
      BY <3>1, <3>4
    <3> QED BY <3>5, <3>6, <3>7
  <2> QED BY <1>4, <2>1, <2>2 DEF Load, NotFound, Found
<1> QED BY <1>1, <1>3, <1>4

LEMMA CreateRecorded ==
  ASSUME ~SqlFails, KInv, NEW sid \in Sid, Create(sid), Saved(sid, 0)
  PROVE  Recorded(sessions, rows)' /\ InHand'
<1> PICK o \in Obj, ok \in Outcome, swept \in Outcome :
       /\ Unreferenced(o)
       /\ turns' = [turns EXCEPT ![o] = 0]
       /\ sessions' = [SweptCache EXCEPT ![sid] = [obj |-> o, at |-> now]]
       /\ rows' = Persist(SweptRows(swept), sid, 0, ok)
  BY DEF Create
<1>1. /\ SweptCache \in [Sid -> Entry \cup {None}]
      /\ SweptRows(swept) \in [Sid -> Row \cup {None}]
      /\ Recorded(SweptCache, SweptRows(swept))
  BY SweptTypes, SweptRecorded DEF KInv, OInv
<1>2. \A s \in Sid : SweptCache[s] # None => SweptCache[s].obj \in Obj \ {o}
  <2>1. \A s \in Sid : SweptCache[s] \in {sessions[s], None}
    BY DEF SweptCache, Sweep, KInv, OInv, TypeOK
  <2> QED BY <1>1, <2>1 DEF Unreferenced, Entry
<1>3. \A q \in Request : Working(q) => /\ request[q].obj \in Obj \ {o}
                                        /\ request[q].sid \in Sid \ {sid}
  BY WorkingTypes DEF Unreferenced, KInv, OInv, AllHeld, Held, Holds, Create
<1>4. /\ turns'[o] = 0 /\ \A x \in Obj \ {o} : turns'[x] = turns[x]
      /\ savedTurns'[sid] = 0 /\ \A s \in Sid \ {sid} : savedTurns'[s] = savedTurns[s]
      /\ request' = request
  BY DEF KInv, Unsaved, OInv, TypeOK, Saved, Create
<1>5. rows'[sid] # None => rows'[sid].turns = 0
  <2>1. SweptRows(swept)[sid] = None
    BY DEF KInv, OInv, TypeOK, AllHeld, Held, Create, SweptRows, Sweep
  <2> QED BY <1>1, <2>1 DEF Persist
<1>6. Recorded(sessions, rows)'
  <2> SUFFICES ASSUME NEW s \in Sid
               PROVE  /\ sessions'[s] # None => savedTurns'[s] <= turns'[sessions'[s].obj]
                      /\ rows'[s] # None => savedTurns'[s] <= rows'[s].turns
    BY DEF Recorded
  <2>1. CASE s = sid
    BY <1>1, <1>4, <1>5, <2>1
  <2>2. CASE s # sid
    <3>1. sessions'[s] = SweptCache[s] /\ rows'[s] = SweptRows(swept)[s]
      BY <1>1, <2>2 DEF Persist
    <3> QED BY <1>1, <1>2, <1>4, <2>2, <3>1 DEF Recorded
  <2> QED BY <2>1, <2>2
<1>7. InHand'
  BY <1>3, <1>4 DEF KInv, InHand, Working
<1> QED BY <1>6, <1>7

LEMMA DeleteRecorded ==
  ASSUME KInv, NEW sid \in Sid, Delete(sid), Terminated(sid)
  PROVE  Recorded(sessions, rows)' /\ InHand'
<1>1. UNCHANGED <<turns, request, savedTurns>>
  BY DEF Terminated, Delete
<1>2. \A s \in Sid : sessions'[s] \in {sessions[s], None} /\ rows'[s] \in {rows[s], None}
  BY DEF Delete, KInv, OInv, TypeOK
<1> QED BY <1>1, <1>2 DEF KInv, Recorded, InHand, Working

\* Whoever else works on the session holds the object that is saved.
LEMMA SaveRecorded ==
  ASSUME ~SqlFails, KInv, NEW r \in Request, Save(r),
         Saved(request[r].sid, turns[request[r].obj])
  PROVE  Recorded(sessions, rows)' /\ InHand'
<1> DEFINE sid == request[r].sid
           o == request[r].obj
<1>1. Working(r) /\ sid \in Sid /\ o \in Obj /\ turns[o] \in Nat
  BY WorkingTypes DEF Save, KInv, OInv, TypeOK
<1>2. /\ sessions' = [sessions EXCEPT ![sid] = [obj |-> o, at |-> now]]
      /\ rows' = Persist(rows, sid, turns[o], TRUE)
      /\ turns' = turns
      /\ request' = [request EXCEPT ![r] = None]
  BY DEF Save, Outcome
<1>3. savedTurns'[sid] = turns[o] /\ \A s \in Sid \ {sid} : savedTurns'[s] = savedTurns[s]
  BY <1>1 DEF KInv, InHand, Saved
<1>4. \A q \in Request : Working(q)' =>
        /\ Working(q) /\ request'[q] = request[q] /\ request[q].sid \in Sid
        /\ request[q].sid = sid => request[q].obj = o
  <2>1. \A q \in Request : Working(q)' => Working(q) /\ request'[q] = request[q]
    BY <1>2 DEF KInv, OInv, TypeOK, Working
  <2> QED BY <1>1, <2>1, WorkingTypes DEF KInv, OInv, Shared
<1> HIDE DEF sid, o
<1>5. InHand'
  <2> SUFFICES ASSUME NEW q \in Request, Working(q)'
               PROVE  savedTurns'[request'[q].sid] <= turns'[request'[q].obj]
    BY DEF InHand
  <2>1. CASE request[q].sid = sid
    BY <1>1, <1>2, <1>3, <1>4, <2>1
  <2>2. CASE request[q].sid # sid
    BY <1>2, <1>3, <1>4, <2>2 DEF KInv, InHand
  <2> QED BY <2>1, <2>2
<1>6. Recorded(sessions, rows)'
  <2> SUFFICES ASSUME NEW s \in Sid
               PROVE  /\ sessions'[s] # None => savedTurns'[s] <= turns'[sessions'[s].obj]
                      /\ rows'[s] # None => savedTurns'[s] <= rows'[s].turns
    BY DEF Recorded
  <2>1. CASE s = sid
    BY <1>1, <1>2, <1>3, <2>1 DEF KInv, OInv, TypeOK, Mirrored, Persist
  <2>2. CASE s # sid
    BY <1>2, <1>3, <2>2 DEF KInv, OInv, TypeOK, Persist, Recorded
  <2> QED BY <2>1, <2>2
<1> QED BY <1>5, <1>6

\* Objects only gain turns while somebody holds them.
LEMMA WorkRecorded ==
  ASSUME KInv, NEW r \in Request, Work(r), UNCHANGED savedTurns
  PROVE  Recorded(sessions, rows)' /\ InHand'
<1>1. UNCHANGED <<sessions, rows, request>>
  BY DEF Work, store
<1>2. \A o \in Obj : turns[o] \in Nat /\ turns'[o] \in Nat /\ turns[o] <= turns'[o]
  BY WorkingTypes DEF Work, KInv, OInv, TypeOK
<1>3. /\ \A s \in Sid : /\ savedTurns[s] \in Nat
                         /\ sessions[s] # None => sessions[s].obj \in Obj
      /\ \A q \in Request : Working(q) => request[q].sid \in Sid /\ request[q].obj \in Obj
  BY WorkingTypes DEF KInv, OInv, TypeOK, Entry
<1>4. Recorded(sessions, rows)'
  BY <1>1, <1>2, <1>3 DEF KInv, Recorded
<1>5. InHand'
  BY <1>1, <1>2, <1>3 DEF KInv, InHand, Working
<1> QED BY <1>4, <1>5

LEMMA HNextUnsaved ==
  ASSUME KInv, [HNext]_hvars
  PROVE  Unsaved'
<1>1. ASSUME NEW r \in Request, Save(r), Saved(request[r].sid, turns[request[r].obj])
      PROVE  Unsaved'
  <2>1. request[r].sid \in created /\ created' = created
    BY <1>1 DEF Save, KInv, OInv, AllHeld, Held, Holds
  <2> QED BY <1>1, <2>1 DEF Saved, KInv, Unsaved
<1>2. ASSUME NEW sid \in Sid, Create(sid), Saved(sid, 0) PROVE Unsaved'
  BY <1>2 DEF Create, Saved, KInv, Unsaved
<1>3. ASSUME UNCHANGED savedTurns, created \subseteq created' PROVE Unsaved'
  BY <1>3 DEF KInv, Unsaved
<1>4. CASE \E r \in Request, sid \in Sid : Lookup(r, sid) /\ UNCHANGED history
  BY <1>3, <1>4 DEF Lookup, history
<1>5. CASE \E r \in Request : (Work(r) \/ Leave(r)) /\ UNCHANGED history
  BY <1>3, <1>5 DEF Work, Leave, history
<1>6. CASE \E sid \in Sid : Delete(sid) /\ Terminated(sid)
  BY <1>3, <1>6 DEF Delete, Terminated
<1>7. CASE \/ (List \/ PassTime) /\ UNCHANGED history
           \/ Restart /\ UNCHANGED savedTurns
           \/ UNCHANGED hvars
  BY <1>3, <1>7 DEF List, PassTime, Restart, hvars, vars, history
<1> QED BY <1>1, <1>2, <1>4, <1>5, <1>6, <1>7 DEF HNext

LEMMA HNextKInv == ~SqlFails /\ KInv /\ [HNext]_hvars => KInv'
<1> SUFFICES ASSUME ~SqlFails, KInv, [HNext]_hvars
             PROVE  KInv'
  OBVIOUS
<1>0. OInv'
  <2>1. CASE HNext
    BY <2>1, NextOInv DEF HNext, Next, KInv
  <2>2. CASE UNCHANGED hvars
    BY <2>2, NextOInv DEF hvars, KInv
  <2> QED BY <2>1, <2>2
<1>1. savedTurns' \in [Sid -> Nat]
  <2>1. ASSUME NEW r \in Request, Save(r) PROVE turns[request[r].obj] \in Nat
    BY <2>1, WorkingTypes DEF Save, KInv, OInv, TypeOK
  <2> QED BY <2>1 DEF HNext, hvars, history, Saved, Terminated, KInv
<1>2. ASSUME UNCHANGED <<sessions, rows, turns, request, savedTurns>>
      PROVE  Recorded(sessions, rows)' /\ InHand'
  BY <1>2 DEF KInv, Recorded, InHand, Working
<1>3. ASSUME NEW r \in Request, Leave(r), UNCHANGED history
      PROVE  Recorded(sessions, rows)' /\ InHand'
  <2>1. UNCHANGED <<sessions, rows, turns, savedTurns>>
    BY <1>3 DEF Leave, store, history
  <2>2. \A q \in Request : Working(q)' => Working(q) /\ request'[q] = request[q]
    BY <1>3 DEF Leave, KInv, OInv, TypeOK, Working
  <2> QED BY <2>1, <2>2 DEF KInv, Recorded, InHand
<1>4. ASSUME Restart, UNCHANGED savedTurns PROVE Recorded(sessions, rows)' /\ InHand'
  <2>1. /\ \A sid \in Sid : sessions'[sid] = None
        /\ \A r \in Request : ~Working(r)'
        /\ UNCHANGED <<rows, savedTurns>>
    BY <1>4 DEF Restart, Working
  <2> QED BY <2>1 DEF KInv, Recorded, InHand
<1>5. ASSUME List \/ PassTime, UNCHANGED history
      PROVE  Recorded(sessions, rows)' /\ InHand'
  BY <1>2, <1>5 DEF List, PassTime, store, history
<1>6. ASSUME UNCHANGED hvars PROVE Recorded(sessions, rows)' /\ InHand'
  BY <1>2, <1>6 DEF hvars, vars, history
<1>7. ASSUME NEW sid \in Sid, Create(sid), Saved(sid, 0)
      PROVE  Recorded(sessions, rows)' /\ InHand'
  BY <1>7, CreateRecorded
<1>8. ASSUME NEW sid \in Sid, Delete(sid), Terminated(sid)
      PROVE  Recorded(sessions, rows)' /\ InHand'
  BY <1>8, DeleteRecorded
<1>9. ASSUME NEW r \in Request, Save(r), Saved(request[r].sid, turns[request[r].obj])
      PROVE  Recorded(sessions, rows)' /\ InHand'
  BY <1>9, SaveRecorded
<1>10. ASSUME NEW r \in Request, NEW sid \in Sid, Lookup(r, sid), UNCHANGED history
       PROVE  Recorded(sessions, rows)' /\ InHand'
  BY <1>10, LookupRecorded DEF history
<1>11. ASSUME NEW r \in Request, Work(r), UNCHANGED history
       PROVE  Recorded(sessions, rows)' /\ InHand'
  BY <1>11, WorkRecorded DEF history
<1>12. Recorded(sessions, rows)' /\ InHand'
  BY <1>3, <1>4, <1>5, <1>6, <1>7, <1>8, <1>9, <1>10, <1>11 DEF HNext
<1> QED BY <1>0, <1>1, <1>12, HNextUnsaved DEF KInv

\* Only the lookup itself can be the step in which a lookup is answered.
LEMMA LookupStep ==
  ASSUME HNext, NEW r \in Request, NEW sid \in Sid, Lookup(r, sid)
  PROVE  UNCHANGED history
<1>1. answer'.op = "lookup"
  BY DEF Lookup, Cached, Load, Found, NotFound
<1>2. \A s \in Sid : ~Create(s) /\ ~Delete(s)
  BY <1>1 DEF Create, Delete
<1>3. (\A q \in Request : ~Save(q)) /\ ~Restart
  BY <1>1 DEF Save, Restart
<1> QED BY <1>2, <1>3 DEF HNext

\* "sessions survive process restarts and redeploys": while SQLite works nobody is
\* handed a session that lacks a turn somebody ever saved, however requests, background
\* tasks, deletions, sweeps and restarts interleave.
THEOREM SavedTurnsKept == ~SqlFails => (HSpec => KeepsSavedTurns)
<1> SUFFICES ASSUME ~SqlFails PROVE HSpec => KeepsSavedTurns
  OBVIOUS
<1>1. HInit => KInv
  <2>1. Init => OInv
    BY InitType DEF Init, OInv, Mirrored, AllHeld, Held, Shared, Working
  <2> QED BY <2>1 DEF HInit, Init, KInv, Unsaved, Recorded, InHand, Working
<1>2. KInv /\ [HNext]_hvars => KInv'
  BY HNextKInv
<1>3. KInv /\ [HNext]_hvars
        => [\A sid \in Sid : Finds(sid) => turns'[sessions'[sid].obj] >= savedTurns[sid]]_hvars
  <2> SUFFICES ASSUME KInv, HNext, NEW sid \in Sid, Finds(sid)
               PROVE  turns'[sessions'[sid].obj] >= savedTurns[sid]
    OBVIOUS
  <2>1. PICK r \in Request : Lookup(r, sid) /\ answer'.found
    BY DEF Finds
  <2>2. UNCHANGED savedTurns
    BY <2>1, LookupStep DEF history
  <2> QED BY <2>1, <2>2, LookupRecorded
<1> QED BY <1>1, <1>2, <1>3, PTL DEF HSpec, KeepsSavedTurns

----------------------------------------------------------------------------
\* What nobody worked on when it was deleted stays deleted

\* No trace of a terminated session is left, and none of what a save could use.
Gone ==
  \A sid \in terminated : /\ sid \in created /\ Idle(sid)
                          /\ sessions[sid] = None /\ rows[sid] = None

TInv == OInv /\ terminated \subseteq Sid /\ Gone

\* A lookup of a terminated session finds nothing; one of another leaves it alone.
LEMMA LookupGone ==
  ASSUME TInv, NEW r \in Request, NEW sid \in Sid, Lookup(r, sid), UNCHANGED history
  PROVE  Gone' /\ (answer'.found => sid \notin terminated)
<1> PICK swept \in Outcome, ok \in Outcome :
      \/ Cached(r, sid, SweptCache, SweptRows(swept))
      \/ Load(r, sid, SweptCache, SweptRows(swept), ok)
  BY DEF Lookup
<1>1. \A s \in Sid : /\ SweptCache[s] \in {sessions[s], None}
                     /\ SweptRows(swept)[s] \in {rows[s], None}
  BY DEF SweptCache, SweptRows, Sweep, TInv, OInv, TypeOK
<1>2. /\ SweptCache \in [Sid -> Entry \cup {None}]
      /\ SweptRows(swept) \in [Sid -> Row \cup {None}]
  BY SweptTypes DEF TInv, OInv
<1>3. created' = created /\ terminated' = terminated
  BY DEF Lookup, history
<1>4. ASSUME NEW s \in terminated, s # sid
      PROVE  s \in Sid /\ sessions'[s] = None /\ rows'[s] = None
  <2>1. s \in Sid /\ SweptCache[s] = None /\ SweptRows(swept)[s] = None
    BY <1>1, <1>4 DEF TInv, Gone
  <2> QED BY <1>2, <1>4, <2>1 DEF Cached, Load
<1>5. ASSUME sid \in terminated
      PROVE  /\ ~answer'.found /\ request' = request
             /\ sessions'[sid] = None /\ rows'[sid] = None
  <2>1. SweptCache[sid] = None /\ SweptRows(swept)[sid] = None
    BY <1>1, <1>5 DEF TInv, Gone
  <2> QED BY <1>2, <2>1 DEF Cached, Load, NotFound
<1>6. \A s \in terminated : s # sid => Idle(s)'
  <2>1. /\ request' \in {request} \cup {[request EXCEPT ![r] = [sid |-> sid, obj |-> o]] : o \in Obj}
        /\ request \in [Request -> Reference \cup {None}]
    BY <1>2 DEF Cached, Load, Found, NotFound, Entry, TInv, OInv, TypeOK
  <2> QED BY <2>1 DEF TInv, Gone, Idle, Working
<1>7. sid \in terminated => Idle(sid)'
  BY <1>5 DEF TInv, Gone, Idle, Working
<1> QED BY <1>3, <1>4, <1>5, <1>6, <1>7 DEF TInv, Gone

LEMMA HNextTInv == ~SqlFails /\ TInv /\ [HNext]_hvars => TInv'
<1> SUFFICES ASSUME ~SqlFails, TInv, [HNext]_hvars
             PROVE  TInv'
  OBVIOUS
<1>0. OInv'
  <2>1. CASE HNext
    BY <2>1, NextOInv DEF HNext, Next, TInv
  <2>2. CASE UNCHANGED hvars
    BY <2>2, NextOInv DEF hvars, TInv
  <2> QED BY <2>1, <2>2
<1>1. terminated' \subseteq Sid
  BY DEF HNext, hvars, history, Saved, Terminated, TInv
<1>2. ASSUME UNCHANGED <<sessions, rows, request, created, terminated>>
      PROVE  Gone'
  BY <1>2 DEF TInv, Gone, Idle, Working
<1>3. ASSUME NEW sid \in Sid, Create(sid), Saved(sid, 0)
      PROVE  Gone'
  <2> PICK o \in Obj, ok \in Outcome, swept \in Outcome :
         /\ sessions' = [SweptCache EXCEPT ![sid] = [obj |-> o, at |-> now]]
         /\ rows' = Persist(SweptRows(swept), sid, 0, ok)
    BY <1>3 DEF Create
  <2>1. /\ sid \notin created /\ created' = created \cup {sid}
        /\ request' = request /\ terminated' = terminated
    BY <1>3 DEF Create, Saved
  <2>2. \A s \in Sid : /\ SweptCache[s] \in {sessions[s], None}
                       /\ SweptRows(swept)[s] \in {rows[s], None}
    BY DEF SweptCache, SweptRows, Sweep, TInv, OInv, TypeOK
  <2>3. \A s \in Sid \ {sid} : /\ sessions'[s] \in {sessions[s], None}
                               /\ rows'[s] \in {rows[s], None}
    <3>1. /\ SweptCache \in [Sid -> Entry \cup {None}]
          /\ SweptRows(swept) \in [Sid -> Row \cup {None}]
      BY SweptTypes DEF TInv, OInv
    <3> QED BY <2>2, <3>1 DEF Persist
  <2> QED BY <2>1, <2>3 DEF TInv, Gone, Idle, Working
<1>4. ASSUME NEW sid \in Sid, Delete(sid), Terminated(sid)
      PROVE  Gone'
  <2>1. /\ sessions' = [sessions EXCEPT ![sid] = None]
        /\ rows' = IF Durable THEN [rows EXCEPT ![sid] = None] ELSE rows
        /\ answer'.found => sessions[sid] # None \/ (Durable /\ rows[sid] # None)
        /\ UNCHANGED <<request, created>>
    <3>1. PICK ok \in Outcome :
            /\ rows' = IF Durable /\ ok THEN [rows EXCEPT ![sid] = None] ELSE rows
            /\ answer' = [op |-> "delete", sid |-> sid,
                          found |-> sessions[sid] # None \/ ((Durable /\ ok) /\ rows[sid] # None)]
      BY <1>4 DEF Delete
    <3>2. ok = TRUE
      BY DEF Outcome
    <3>3. rows' = IF Durable THEN [rows EXCEPT ![sid] = None] ELSE rows
      BY <3>1, <3>2
    <3>4. answer'.found => sessions[sid] # None \/ (Durable /\ rows[sid] # None)
      BY <3>1
    <3> QED BY <1>4, <3>3, <3>4 DEF Delete
  <2>2. /\ sessions'[sid] = None /\ rows'[sid] = None
        /\ \A s \in Sid \ {sid} : sessions'[s] = sessions[s] /\ rows'[s] = rows[s]
    BY <2>1 DEF TInv, OInv, TypeOK, Mirrored
  <2>3. answer'.found => sid \in created
    BY <2>1 DEF TInv, OInv, AllHeld, Held, Holds
  <2>4. terminated' = terminated \cup IF answer'.found /\ Idle(sid) THEN {sid} ELSE {}
    BY <1>4 DEF Terminated
  <2> QED BY <2>1, <2>2, <2>3, <2>4 DEF TInv, Gone, Idle, Working
<1>5. ASSUME NEW r \in Request, Save(r), Saved(request[r].sid, turns[request[r].obj])
      PROVE  Gone'
  <2>1. Working(r) /\ request[r].sid \in Sid
    BY <1>5, WorkingTypes DEF Save, TInv, OInv
  <2>2. \A s \in Sid \ {request[r].sid} : sessions'[s] = sessions[s] /\ rows'[s] = rows[s]
    BY <1>5, <2>1 DEF Save, Persist, TInv, OInv, TypeOK
  <2>3. /\ UNCHANGED <<created, terminated>> /\ request' = [request EXCEPT ![r] = None]
    BY <1>5 DEF Save, Saved
  <2> QED BY <2>1, <2>2, <2>3 DEF TInv, OInv, TypeOK, Gone, Idle, Working
<1>6. ASSUME NEW r \in Request, Leave(r), UNCHANGED history
      PROVE  Gone'
  <2>1. /\ UNCHANGED <<sessions, rows, created, terminated>>
        /\ request' = [request EXCEPT ![r] = None]
    BY <1>6 DEF Leave, store, history
  <2> QED BY <2>1 DEF TInv, OInv, TypeOK, Gone, Idle, Working
<1>7. ASSUME Restart, UNCHANGED terminated
      PROVE  Gone'
  <2>1. /\ sessions' = [sid \in Sid |-> None] /\ request' = [r \in Request |-> None]
        /\ UNCHANGED <<rows, created, terminated>>
    BY <1>7 DEF Restart
  <2> QED BY <2>1 DEF TInv, Gone, Idle, Working
<1>8. ASSUME NEW r \in Request, NEW sid \in Sid, Lookup(r, sid), UNCHANGED history
      PROVE  Gone'
  BY <1>8, LookupGone
<1>9. ASSUME (\E r \in Request : Work(r)) \/ List \/ PassTime, UNCHANGED history
      PROVE  Gone'
  BY <1>2, <1>9 DEF Work, List, PassTime, store, history
<1>10. ASSUME UNCHANGED hvars PROVE Gone'
  BY <1>2, <1>10 DEF hvars, vars, history
<1>11. Gone'
  BY <1>3, <1>4, <1>5, <1>6, <1>7, <1>8, <1>9, <1>10 DEF HNext
<1> QED BY <1>0, <1>1, <1>11 DEF TInv

\* A deletion that was acknowledged while no request held the session is final:
\* while SQLite works no lookup, sweep, restart or late save brings it back.
THEOREM IdleTerminationIsFinal == ~SqlFails => (HSpec => IdleStaysTerminated)
<1> SUFFICES ASSUME ~SqlFails PROVE HSpec => IdleStaysTerminated
  OBVIOUS
<1>1. HInit => TInv
  <2>1. Init => OInv
    BY InitType DEF Init, OInv, Mirrored, AllHeld, Held, Shared, Working
  <2> QED BY <2>1 DEF HInit, TInv, Gone
<1>2. TInv /\ [HNext]_hvars => TInv'
  BY HNextTInv
<1>3. TInv /\ [HNext]_hvars => [\A sid \in terminated : ~Finds(sid)]_hvars
  <2> SUFFICES ASSUME TInv, HNext, NEW sid \in terminated, Finds(sid)
               PROVE  FALSE
    OBVIOUS
  <2>1. sid \in Sid
    BY DEF TInv
  <2>2. PICK r \in Request : Lookup(r, sid) /\ answer'.found
    BY DEF Finds
  <2>3. UNCHANGED history
    BY <2>1, <2>2, LookupStep
  <2> QED BY <2>1, <2>2, <2>3, LookupGone
<1> QED BY <1>1, <1>2, <1>3, PTL DEF HSpec, IdleStaysTerminated

----------------------------------------------------------------------------
\* Within one process SQLite is not needed

\* Every session saved in this process is still cached, as old as its last save,
\* until it has expired.
Cared(at, e) == at # None /\ (Expired(at) \/ (e # None /\ e.at = at))

CInv == HInv /\ carried \subseteq Sid /\ \A sid \in carried : Cared(savedAt[sid], sessions[sid])

LEMMA SweptCared ==
  ASSUME CInv, NEW sid \in carried
  PROVE  Cared(savedAt[sid], SweptCache[sid])
BY DEF CInv, HInv, TypeOK, Cared, SweptCache, Sweep

LEMMA LookupCared ==
  ASSUME CInv, NEW r \in Request, NEW sid \in Sid, Lookup(r, sid)
  PROVE  /\ \A s \in carried : Cared(savedAt[s], sessions'[s])
         /\ sid \in carried /\ ~answer'.found => Expired(savedAt[sid])
<1> PICK swept \in Outcome, ok \in Outcome :
      \/ Cached(r, sid, SweptCache, SweptRows(swept))
      \/ Load(r, sid, SweptCache, SweptRows(swept), ok)
  BY DEF Lookup
<1>1. /\ SweptCache \in [Sid -> Entry \cup {None}]
      /\ SweptRows(swept) \in [Sid -> Row \cup {None}]
      /\ \A s \in carried : s \in Sid /\ Cared(savedAt[s], SweptCache[s])
  BY SweptTypes, SweptCared DEF CInv, HInv
<1>2. CASE Cached(r, sid, SweptCache, SweptRows(swept))
  BY <1>1, <1>2 DEF Cached, Found, NotFound, Cared
<1>3. CASE Load(r, sid, SweptCache, SweptRows(swept), ok)
  <2>1. SweptCache[sid] = None
    BY <1>3 DEF Load
  <2>2. \A s \in Sid \ {sid} : sessions'[s] = SweptCache[s]
    BY <1>1, <1>3 DEF Load
  <2>3. sid \in carried => Expired(savedAt[sid]) /\ savedAt[sid] # None
    BY <1>1, <2>1 DEF Cared
  <2> QED BY <1>1, <2>2, <2>3 DEF Cared
<1> QED BY <1>2, <1>3

LEMMA HNextCInv == CInv /\ [HNext]_hvars => CInv'
<1> SUFFICES ASSUME CInv, [HNext]_hvars PROVE CInv'
  OBVIOUS
<1>0. HInv'
  BY HNextInv DEF CInv
<1>1. \A sid \in carried : /\ sid \in Sid /\ savedAt[sid] \in Nat
                           /\ Cared(savedAt[sid], sessions[sid])
  BY DEF CInv, HInv, Aged, Cared
<1>2. carried' \subseteq Sid /\ \A sid \in carried' : Cared(savedAt[sid], sessions[sid])'
  <2>1. ASSUME NEW sid \in Sid, NEW n, Saved(sid, n), now' = now,
               sessions'[sid] # None, sessions'[sid].at = now,
               \A s \in carried \ {sid} : Cared(savedAt[s], sessions'[s])
        PROVE  carried' \subseteq Sid /\ \A s \in carried' : Cared(savedAt[s], sessions[s])'
    <3>1. /\ carried' = carried \cup {sid} /\ now \in Nat
          /\ savedAt' = [savedAt EXCEPT ![sid] = now]
          /\ savedAt \in [Sid -> Nat \cup {None}]
      BY <2>1 DEF Saved, CInv, HInv, TypeOK, Aged
    <3>2. now # None
      BY <3>1, StoreAssumption
    <3> QED BY <1>1, <2>1, <3>1, <3>2 DEF Cared, Expired
  <2>2. ASSUME NEW sid \in Sid, Create(sid), Saved(sid, 0)
        PROVE  carried' \subseteq Sid /\ \A s \in carried' : Cared(savedAt[s], sessions[s])'
    <3> PICK o \in Obj : sessions' = [SweptCache EXCEPT ![sid] = [obj |-> o, at |-> now]]
      BY <2>2 DEF Create
    <3>1. SweptCache \in [Sid -> Entry \cup {None}]
      BY SweptTypes DEF CInv, HInv
    <3>2. now' = now
      BY <2>2 DEF Create
    <3>3. sessions'[sid] # None /\ sessions'[sid].at = now
      <4>1. [obj |-> o, at |-> now] \in Entry
        BY DEF Entry, CInv, HInv, TypeOK
      <4> QED BY <3>1, <4>1, StoreAssumption
    <3>4. \A s \in carried \ {sid} : Cared(savedAt[s], sessions'[s])
      BY <1>1, <3>1, SweptCared
    <3> QED BY <2>1, <2>2, <3>2, <3>3, <3>4
  <2>3. ASSUME NEW r \in Request, Save(r), Saved(request[r].sid, turns[request[r].obj])
        PROVE  carried' \subseteq Sid /\ \A s \in carried' : Cared(savedAt[s], sessions[s])'
    <3> DEFINE sid == request[r].sid
               o == request[r].obj
    <3>1. sid \in Sid /\ o \in Obj
      BY <2>3 DEF Save, Working, CInv, HInv, TypeOK, Reference
    <3>2. sessions' = [sessions EXCEPT ![sid] = [obj |-> o, at |-> now]] /\ now' = now
      BY <2>3 DEF Save
    <3>3. Saved(sid, turns[o])
      BY <2>3
    <3> HIDE DEF sid, o
    <3>4. sessions'[sid] # None /\ sessions'[sid].at = now
      <4>1. [obj |-> o, at |-> now] \in Entry
        BY <3>1 DEF Entry, CInv, HInv, TypeOK
      <4> QED BY <3>1, <3>2, <4>1, StoreAssumption DEF CInv, HInv, TypeOK
    <3>5. \A s \in carried \ {sid} : Cared(savedAt[s], sessions'[s])
      BY <1>1, <3>2 DEF CInv, HInv, TypeOK
    <3> QED BY <2>1, <3>1, <3>2, <3>3, <3>4, <3>5
  <2>4. ASSUME NEW sid \in Sid, Delete(sid), Terminated(sid)
        PROVE  carried' \subseteq Sid /\ \A s \in carried' : Cared(savedAt[s], sessions[s])'
    BY <1>1, <2>4 DEF Delete, Terminated, Cared, Expired, CInv, HInv, TypeOK
  <2>5. ASSUME NEW r \in Request, NEW sid \in Sid, Lookup(r, sid), UNCHANGED history
        PROVE  carried' \subseteq Sid /\ \A s \in carried' : Cared(savedAt[s], sessions[s])'
    <3>1. now' = now
      BY <2>5 DEF Lookup
    <3> QED BY <1>1, <2>5, <3>1, LookupCared DEF history, Cared, Expired
  <2>6. ASSUME (\E r \in Request : Work(r) \/ Leave(r)) \/ List, UNCHANGED history
        PROVE  carried' \subseteq Sid /\ \A s \in carried' : Cared(savedAt[s], sessions[s])'
    <3>1. UNCHANGED <<sessions, now, savedAt, carried>>
      BY <2>6 DEF Work, Leave, List, store, history
    <3> QED BY <1>1, <3>1 DEF Cared, Expired
  <2>7. ASSUME PassTime, UNCHANGED history
        PROVE  carried' \subseteq Sid /\ \A s \in carried' : Cared(savedAt[s], sessions[s])'
    <3>1. UNCHANGED <<sessions, savedAt, carried>> /\ now \in Nat /\ now' = now + 1
      BY <2>7 DEF PassTime, store, history, CInv, HInv, TypeOK
    <3>2. \A sid \in carried : Expired(savedAt[sid]) => Expired(savedAt[sid])'
      BY <1>1, <3>1, StoreAssumption DEF Expired
    <3> QED BY <1>1, <3>1, <3>2 DEF Cared
  <2>8. ASSUME carried' = {}
        PROVE  carried' \subseteq Sid /\ \A s \in carried' : Cared(savedAt[s], sessions[s])'
    BY <2>8
  <2>9. ASSUME UNCHANGED hvars
        PROVE  carried' \subseteq Sid /\ \A s \in carried' : Cared(savedAt[s], sessions[s])'
    BY <1>1, <2>9 DEF hvars, vars, history, Cared, Expired
  <2> QED BY <2>2, <2>3, <2>4, <2>5, <2>6, <2>7, <2>8, <2>9 DEF HNext
<1> QED BY <1>0, <1>2 DEF CInv

\* However often SQLite fails, a lookup misses a session saved in this process, and
\* not deleted since, only after SESSION_TTL_HOURS.
THEOREM FoundWhateverSqlDoes == HSpec => FoundWithoutSql
<1>1. HInit => CInv
  <2>1. HInit => TypeOK
    BY InitType DEF HInit
  <2> QED BY <2>1 DEF HInit, Init, CInv, HInv, Aged, YoungerThanSave
<1>2. CInv => \A sid \in carried : Misses(sid) => Expired(savedAt[sid])
  BY LookupCared DEF CInv, Misses
<1> QED BY <1>1, <1>2, HNextCInv, PTL DEF HSpec, FoundWithoutSql
=============================================================================
