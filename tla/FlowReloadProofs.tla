-------------------------- MODULE FlowReloadProofs --------------------------
(***************************************************************************)
(* Reloads that overlap and lookups that run beside them, for any set of   *)
(* files, any number of requests and any edits. Every slug whose last file *)
(* is not in the cache is one that some reload still has to go through     *)
(* (Covered): reloads that share the cache finish each other's work.       *)
(***************************************************************************)
EXTENDS FlowReload, OrderLemmas

\* The slugs on the disk, and the position of the file each is loaded from.
SlugsOn(d) == {flow.slug : flow \in FlowsOn(d)}
LastIndex(slug) == Max(With(disk, slug))

ReloadType ==
  /\ DOMAIN loader = Reload
  /\ \A r \in Reload : /\ DOMAIN loader[r] = {"at", "todo", "flow"}
                       /\ loader[r].todo \subseteq DOMAIN Files
                       /\ loader[r].flow \in Flows \cup {None}
  /\ \A f \in ToSet(Files) : disk[f] \in Content[f]
  /\ DOMAIN disk = ToSet(Files)
  /\ IsFiniteSet(DOMAIN cache)
  /\ cache = [slug \in DOMAIN cache |-> cache[slug]]
  /\ \A slug \in DOMAIN cache : cache[slug] \in Flows /\ cache[slug].slug = slug

\* A reload goes through the files from some position on, all those there are.
OnItsWay(r) ==
  /\ loader[r].todo \subseteq Present
  /\ \A i \in loader[r].todo : \A j \in Present : i <= j => j \in loader[r].todo
  /\ loader[r].flow # None => /\ loader[r].todo # {}
                              /\ loader[r].flow = disk[NextFile(r)]

Covered(slug) ==
  \/ slug \in DOMAIN cache /\ cache[slug] = disk[Files[LastIndex(slug)]]
  \/ \E r \in Loading : LastIndex(slug) \in loader[r].todo

Undisturbed ==
  /\ \A r \in Loading : OnItsWay(r)
  /\ DOMAIN cache \subseteq SlugsOn(disk)
  /\ \A slug \in SlugsOn(disk) : Covered(slug)

ReloadInv == ReloadType /\ (still /\ Whole(disk) => Undisturbed)

----------------------------------------------------------------------------
\* Files and slugs

LEMMA Positions ==
  /\ DOMAIN Files = 1..Len(Files) /\ Len(Files) \in Nat
  /\ DOMAIN Files \subseteq Nat /\ IsFiniteSet(DOMAIN Files)
  /\ ToSet(Files) = {Files[i] : i \in DOMAIN Files}
<1>1. DOMAIN Files = 1..Len(Files) /\ Len(Files) \in Nat
  BY FilesAssumption
<1>2. IsFiniteSet(1..Len(Files))
  BY <1>1, FS_Interval
<1> QED BY <1>1, <1>2 DEF ToSet

\* The last file with a slug that is on the disk holds a flow of that slug.
LEMMA LastIndexIn ==
  ASSUME NEW d, NEW slug \in SlugsOn(d)
  PROVE  /\ Max(With(d, slug)) \in With(d, slug)
         /\ \A i \in With(d, slug) : i <= Max(With(d, slug))
<1>1. With(d, slug) # {}
  <2>1. PICK f \in ToSet(Files) : d[f] \notin {None, Broken} /\ d[f].slug = slug
    BY DEF SlugsOn, FlowsOn
  <2>2. PICK i \in DOMAIN Files : f = Files[i]
    BY Positions
  <2> QED BY <2>1, <2>2 DEF With
<1>2. With(d, slug) \subseteq DOMAIN Files
  BY DEF With
<1>3. With(d, slug) \in SUBSET Nat /\ IsFiniteSet(With(d, slug))
  BY <1>2, Positions, FS_Subset
<1> HIDE DEF With
<1>4. /\ Max(With(d, slug)) \in With(d, slug)
      /\ \A i \in With(d, slug) : Max(With(d, slug)) >= i
  BY <1>1, <1>3, MaxIsGreatest
<1> QED BY <1>3, <1>4

\* A reload's next file is the first of those it has still to go through.
LEMMA NextFileIn ==
  ASSUME ReloadType, NEW r \in Reload, loader[r].todo # {}
  PROVE  /\ Min(loader[r].todo) \in loader[r].todo
         /\ \A i \in loader[r].todo : Min(loader[r].todo) <= i
         /\ Min(loader[r].todo) \in DOMAIN Files
         /\ NextFile(r) \in ToSet(Files)
<1>1. loader[r].todo \subseteq DOMAIN Files /\ loader[r].todo \in SUBSET Nat
  BY Positions DEF ReloadType
<1>2. /\ Min(loader[r].todo) \in loader[r].todo
      /\ \A i \in loader[r].todo : Min(loader[r].todo) <= i
  BY <1>1, MinIsLeast
<1> QED BY <1>1, <1>2, Positions DEF NextFile

LEMMA SlugsFinite == \A d : IsFiniteSet(SlugsOn(d))
<1> SUFFICES ASSUME NEW d PROVE IsFiniteSet(SlugsOn(d))
  OBVIOUS
<1>1. IsFiniteSet({d[f] : f \in ToSet(Files)})
  <2>1. IsFiniteSet({Files[i] : i \in DOMAIN Files})
    BY Positions, FiniteRange
  <2> QED BY <2>1, Positions, FiniteRange
<1>2. FlowsOn(d) \in SUBSET {d[f] : f \in ToSet(Files)}
  BY DEF FlowsOn
<1>3. IsFiniteSet(FlowsOn(d))
  BY <1>1, <1>2, FS_Subset
<1> DEFINE slugOf == [flow \in FlowsOn(d) |-> flow.slug]
<1>4. {slugOf[flow] : flow \in FlowsOn(d)} = SlugsOn(d)
  BY DEF SlugsOn
<1> HIDE DEF slugOf
<1>5. IsFiniteSet({slugOf[flow] : flow \in FlowsOn(d)})
  BY <1>3, FiniteRange
<1> QED BY <1>4, <1>5

\* What the lifespan hook loads is typed.
LEMMA ImageType ==
  ASSUME NEW d, \A f \in ToSet(Files) : d[f] \in Content[f]
  PROVE  /\ DOMAIN Image(d) = SlugsOn(d)
         /\ Image(d) = [slug \in DOMAIN Image(d) |-> Image(d)[slug]]
         /\ \A slug \in DOMAIN Image(d) :
              /\ Image(d)[slug] = d[Files[Max(With(d, slug))]]
              /\ Image(d)[slug] \in Flows /\ Image(d)[slug].slug = slug
<1>1. DOMAIN Image(d) = SlugsOn(d) /\ Image(d) = [slug \in DOMAIN Image(d) |-> Image(d)[slug]]
  BY DEF Image, SlugsOn
<1>2. ASSUME NEW slug \in SlugsOn(d)
      PROVE  /\ Image(d)[slug] = d[Files[Max(With(d, slug))]]
             /\ Image(d)[slug] \in Flows /\ Image(d)[slug].slug = slug
  <2> DEFINE i == Max(With(d, slug))
  <2>1. Image(d)[slug] = d[Files[i]]
    BY DEF Image, SlugsOn, LastWith
  <2>2. i \in With(d, slug)
    BY LastIndexIn
  <2> HIDE DEF i
  <2>3. i \in DOMAIN Files /\ d[Files[i]] \notin {None, Broken} /\ d[Files[i]].slug = slug
    BY <2>2 DEF With
  <2>4. Files[i] \in ToSet(Files)
    BY <2>3, Positions
  <2>5. d[Files[i]] \in Flows
    BY <2>3, <2>4 DEF Flows
  <2> QED BY <2>1, <2>3, <2>5 DEF i
<1> QED BY <1>1, <1>2

----------------------------------------------------------------------------
\* The types

LEMMA ReloadInitType == Init => ReloadType
<1> SUFFICES ASSUME Init PROVE ReloadType
  OBVIOUS
<1>1. /\ DOMAIN loader = Reload
      /\ \A r \in Reload : /\ DOMAIN loader[r] = {"at", "todo", "flow"}
                           /\ loader[r].todo \subseteq DOMAIN Files
                           /\ loader[r].flow \in Flows \cup {None}
  BY DEF Init, NotLoading
<1>2. (\A f \in ToSet(Files) : disk[f] \in Content[f]) /\ DOMAIN disk = ToSet(Files)
  BY StartsUp DEF Init
<1>3. /\ IsFiniteSet(DOMAIN cache)
      /\ cache = [slug \in DOMAIN cache |-> cache[slug]]
      /\ \A slug \in DOMAIN cache : cache[slug] \in Flows /\ cache[slug].slug = slug
  BY <1>2, ImageType, SlugsFinite DEF Init
<1> QED BY <1>1, <1>2, <1>3 DEF ReloadType

\* The steps of one reload change its own record.
LEMMA LoaderType ==
  ASSUME ReloadType, NEW r \in Reload, NEW new,
         DOMAIN new = {"at", "todo", "flow"},
         new.todo \subseteq DOMAIN Files, new.flow \in Flows \cup {None},
         loader' = [loader EXCEPT ![r] = new], UNCHANGED <<disk, cache>>
  PROVE  ReloadType'
BY DEF ReloadType

LEMMA ReloadNextType == ReloadType /\ [Next]_vars => ReloadType'
<1> SUFFICES ASSUME ReloadType, [Next]_vars PROVE ReloadType'
  OBVIOUS
<1>1. ASSUME NEW r \in Reload, Start(r) PROVE ReloadType'
  <2>1. /\ cache' = <<>> /\ UNCHANGED disk
        /\ loader' = [loader EXCEPT ![r] = [at |-> "loading", todo |-> Present, flow |-> None]]
    BY <1>1 DEF Start
  <2>2. DOMAIN cache' = {} /\ IsFiniteSet(DOMAIN cache') /\ cache' = [slug \in {} |-> cache'[slug]]
    BY <2>1, FS_EmptySet
  <2> QED BY <2>1, <2>2 DEF ReloadType, Present
<1>2. ASSUME NEW r \in Reload, Parse(r) PROVE ReloadType'
  <2> DEFINE flow == disk[NextFile(r)]
             new == [loader[r] EXCEPT !.flow = flow]
  <2>1. /\ loader[r].todo # {} /\ flow \notin {None, Broken} /\ UNCHANGED <<disk, cache>>
        /\ loader' = [loader EXCEPT ![r] = new]
    BY <1>2 DEF Parse
  <2>2. flow \in Flows
    BY <2>1, NextFileIn DEF ReloadType, Flows
  <2>3. DOMAIN new = {"at", "todo", "flow"} /\ new.todo = loader[r].todo /\ new.flow = flow
    BY DEF ReloadType
  <2> HIDE DEF new, flow
  <2> QED BY <2>1, <2>2, <2>3, LoaderType DEF ReloadType
<1>3. ASSUME NEW r \in Reload, ParseError(r) PROVE ReloadType'
  <2> DEFINE new == [NotLoading EXCEPT !.at = "failed"]
  <2>1. loader' = [loader EXCEPT ![r] = new] /\ UNCHANGED <<disk, cache>>
    BY <1>3 DEF ParseError
  <2>2. DOMAIN new = {"at", "todo", "flow"} /\ new.todo = {} /\ new.flow = None
    BY DEF NotLoading
  <2> HIDE DEF new
  <2> QED BY <2>1, <2>2, LoaderType
<1>4. ASSUME NEW r \in Reload, Insert(r) PROVE ReloadType'
  <2> DEFINE flow == loader[r].flow
             new == [loader[r] EXCEPT !.todo = @ \ {Min(@)}, !.flow = None]
  <2>1. /\ flow # None /\ UNCHANGED disk
        /\ cache' = [slug \in DOMAIN cache \cup {flow.slug} |->
                       IF slug = flow.slug THEN flow ELSE cache[slug]]
        /\ loader' = [loader EXCEPT ![r] = new]
    BY <1>4 DEF Insert
  <2>2. flow \in Flows
    BY <2>1 DEF ReloadType
  <2>3. /\ DOMAIN new = {"at", "todo", "flow"}
        /\ new.todo \subseteq DOMAIN Files /\ new.flow = None
    BY DEF ReloadType
  <2>4. IsFiniteSet(DOMAIN cache')
    BY <2>1, FS_AddElement DEF ReloadType
  <2> HIDE DEF new, flow
  <2>5. /\ \A q \in Reload : loader'[q] = IF q = r THEN new ELSE loader[q]
        /\ DOMAIN loader' = Reload
    BY <2>1 DEF ReloadType
  <2>6. /\ cache' = [slug \in DOMAIN cache' |-> cache'[slug]]
        /\ \A slug \in DOMAIN cache' : cache'[slug] \in Flows /\ cache'[slug].slug = slug
    BY <2>1, <2>2 DEF ReloadType
  <2> QED BY <2>1, <2>3, <2>4, <2>5, <2>6 DEF ReloadType
<1>5. ASSUME NEW r \in Reload, Finish(r) \/ Leave(r) PROVE ReloadType'
  <2> DEFINE new == IF Finish(r) THEN [loader[r] EXCEPT !.at = "done"] ELSE NotLoading
  <2>1. loader' = [loader EXCEPT ![r] = new] /\ UNCHANGED <<disk, cache>>
    BY <1>5 DEF Finish, Leave
  <2>2. /\ DOMAIN new = {"at", "todo", "flow"}
        /\ new.todo \subseteq DOMAIN Files /\ new.flow \in Flows \cup {None}
    BY DEF NotLoading, ReloadType
  <2> HIDE DEF new
  <2> QED BY <2>1, <2>2, LoaderType
<1>6. ASSUME NEW f \in ToSet(Files), NEW content \in Content[f], Edit(f, content)
      PROVE  ReloadType'
  BY <1>6 DEF Edit, ReloadType
<1>7. ASSUME UNCHANGED <<disk, cache, loader>> PROVE ReloadType'
  BY <1>7 DEF ReloadType
<1>8. ASSUME \/ \E q \in Reader, w \in Wanted : Ask(q, w)
             \/ \E q \in Reader : Scan(q) \/ Hang(q)
             \/ UNCHANGED vars
      PROVE  ReloadType'
  BY <1>7, <1>8 DEF Ask, Scan, Hang, vars
<1> QED BY <1>1, <1>2, <1>3, <1>4, <1>5, <1>6, <1>8 DEF Next, Work

----------------------------------------------------------------------------
\* The cache and the disk

\* Undisturbed speaks of the disk, the cache and the reloads only.
LEMMA SameDisk ==
  ASSUME UNCHANGED disk
  PROVE  /\ Present' = Present /\ SlugsOn(disk)' = SlugsOn(disk) /\ Whole(disk)' = Whole(disk)
         /\ \A slug : LastIndex(slug)' = LastIndex(slug) /\ With(disk, slug)' = With(disk, slug)
BY DEF Present, SlugsOn, FlowsOn, Whole, LastIndex, With

\* The last file of each slug is there.
LEMMA LastIsPresent ==
  ASSUME NEW slug \in SlugsOn(disk)
  PROVE  /\ LastIndex(slug) \in Present /\ LastIndex(slug) \in Nat
         /\ disk[Files[LastIndex(slug)]].slug = slug
         /\ \A i \in With(disk, slug) : i <= LastIndex(slug)
<1>1. /\ LastIndex(slug) \in With(disk, slug)
      /\ \A i \in With(disk, slug) : i <= LastIndex(slug)
  BY LastIndexIn DEF LastIndex
<1> QED BY <1>1, Positions DEF With, Present

LEMMA StartUndisturbed ==
  ASSUME ReloadType, NEW r \in Reload, Start(r), Loading = {} \/ Undisturbed
  PROVE  Undisturbed'
<1> DEFINE new == [at |-> "loading", todo |-> Present, flow |-> None]
<1>1. /\ cache' = <<>> /\ UNCHANGED disk /\ loader' = [loader EXCEPT ![r] = new]
  BY DEF Start
<1>2. /\ loader'[r] = new /\ \A q \in Reload \ {r} : loader'[q] = loader[q]
      /\ Loading' = Loading \cup {r} /\ r \in Reload
  BY <1>1 DEF ReloadType, Loading
<1>3. ASSUME NEW q \in Loading' PROVE OnItsWay(q)'
  <2>1. CASE q = r
    BY <1>2, <2>1, <1>1, SameDisk DEF OnItsWay
  <2>2. CASE q # r
    <3>1. q \in Loading /\ loader'[q] = loader[q] /\ OnItsWay(q)
      BY <1>2, <1>3, <2>2 DEF Undisturbed, Loading
    <3> QED BY <1>1, <3>1, SameDisk DEF OnItsWay, NextFile
  <2> QED BY <2>1, <2>2
<1>4. DOMAIN cache' = {}
  BY <1>1
<1>5. \A slug \in SlugsOn(disk) : LastIndex(slug) \in loader'[r].todo
  BY <1>2, LastIsPresent
<1>6. \A slug \in SlugsOn(disk)' : Covered(slug)'
  BY <1>1, <1>2, <1>5, SameDisk DEF Covered
<1> QED BY <1>3, <1>4, <1>6 DEF Undisturbed

LEMMA ParseUndisturbed ==
  ASSUME ReloadType, Undisturbed, NEW r \in Reload, Parse(r)
  PROVE  Undisturbed'
<1> DEFINE new == [loader[r] EXCEPT !.flow = disk[NextFile(r)]]
<1>1. /\ loader[r].at = "loading" /\ loader[r].todo # {} /\ UNCHANGED <<disk, cache>>
      /\ loader' = [loader EXCEPT ![r] = new]
  BY DEF Parse
<1>2. /\ loader'[r].todo = loader[r].todo /\ loader'[r].flow = disk[NextFile(r)]
      /\ loader'[r].at = "loading"
      /\ \A q \in Reload \ {r} : loader'[q] = loader[q]
  BY <1>1 DEF ReloadType
<1>3. Loading' = Loading /\ r \in Loading
  BY <1>1, <1>2 DEF Loading
<1>4. ASSUME NEW q \in Loading PROVE OnItsWay(q)'
  <2>1. OnItsWay(q) /\ q \in Reload
    BY DEF Undisturbed, Loading
  <2>2. NextFile(q)' = NextFile(q) /\ loader'[q].todo = loader[q].todo
    BY <1>2, <2>1 DEF NextFile
  <2> QED BY <1>1, <1>2, <2>1, <2>2, SameDisk DEF OnItsWay
<1>5. ASSUME NEW slug \in SlugsOn(disk) PROVE Covered(slug)'
  <2>1. Covered(slug)
    BY DEF Undisturbed
  <2>2. \A q \in Loading : loader'[q].todo = loader[q].todo
    BY <1>2 DEF Loading
  <2> QED BY <1>1, <1>3, <2>1, <2>2, SameDisk DEF Covered
<1> QED BY <1>1, <1>3, <1>4, <1>5, SameDisk DEF Undisturbed

\* A file that was there when a reload listed it is there and parses.
LEMMA NoParseError ==
  ASSUME ReloadType, Undisturbed, Whole(disk), NEW r \in Reload
  PROVE  ~ParseError(r)
<1> SUFFICES ASSUME ParseError(r) PROVE FALSE
  OBVIOUS
<1>1. /\ loader[r].at = "loading" /\ loader[r].todo # {}
      /\ disk[NextFile(r)] \in {None, Broken}
  BY DEF ParseError
<1>2. OnItsWay(r)
  BY <1>1 DEF Undisturbed, Loading
<1>3. Min(loader[r].todo) \in Present /\ NextFile(r) \in ToSet(Files)
  BY <1>1, <1>2, NextFileIn DEF OnItsWay
<1> QED BY <1>1, <1>3 DEF Present, NextFile, Whole

LEMMA InsertUndisturbed ==
  ASSUME ReloadType, Undisturbed, NEW r \in Reload, Insert(r)
  PROVE  Undisturbed'
<1> DEFINE i == Min(loader[r].todo)
           flow == loader[r].flow
           new == [loader[r] EXCEPT !.todo = @ \ {Min(@)}, !.flow = None]
<1>1. /\ loader[r].at = "loading" /\ flow # None /\ UNCHANGED disk
      /\ cache' = [slug \in DOMAIN cache \cup {flow.slug} |->
                     IF slug = flow.slug THEN flow ELSE cache[slug]]
      /\ loader' = [loader EXCEPT ![r] = new]
  BY DEF Insert
<1>2. r \in Loading /\ OnItsWay(r)
  BY <1>1 DEF Undisturbed, Loading
<1>3. /\ loader[r].todo # {} /\ flow = disk[Files[i]]
      /\ i \in loader[r].todo /\ (\A j \in loader[r].todo : i <= j)
      /\ i \in DOMAIN Files /\ Files[i] \in ToSet(Files)
  BY <1>1, <1>2, NextFileIn DEF OnItsWay, NextFile
<1>4. flow \in Flows /\ flow \notin {None, Broken}
  BY <1>1 DEF ReloadType, Flows
<1>5. /\ loader'[r].todo = loader[r].todo \ {i} /\ loader'[r].flow = None
      /\ loader'[r].at = "loading"
      /\ \A q \in Reload \ {r} : loader'[q] = loader[q]
  BY <1>1 DEF ReloadType
<1>6. Loading' = Loading
  BY <1>1, <1>5 DEF Loading
<1>7. i \in With(disk, flow.slug) /\ flow.slug \in SlugsOn(disk)
  BY <1>3, <1>4 DEF With, SlugsOn, FlowsOn
<1> HIDE DEF i, flow, new
<1>8. ASSUME NEW q \in Loading PROVE OnItsWay(q)'
  <2>1. OnItsWay(q) /\ q \in Reload
    BY DEF Undisturbed, Loading
  <2>2. CASE q # r
    <3>1. loader'[q] = loader[q] /\ NextFile(q)' = NextFile(q)
      BY <1>5, <2>1, <2>2 DEF NextFile
    <3> QED BY <1>1, <2>1, <3>1, SameDisk DEF OnItsWay
  <2>3. CASE q = r
    <3>1. loader[r].todo \subseteq Nat /\ Present \subseteq Nat
      BY Positions DEF ReloadType, Present
    <3>2. ASSUME NEW k \in loader[r].todo \ {i}, NEW j \in Present, k <= j
          PROVE  j \in loader[r].todo \ {i}
      BY <1>2, <1>3, <3>1, <3>2 DEF OnItsWay
    <3>3. loader'[r].todo \subseteq Present
      BY <1>2, <1>5 DEF OnItsWay
    <3> QED BY <1>1, <1>5, <2>3, <3>2, <3>3, SameDisk DEF OnItsWay
  <2> QED BY <2>2, <2>3
<1>9. ASSUME NEW slug \in SlugsOn(disk) PROVE Covered(slug)'
  <2> DEFINE last == LastIndex(slug)
  <2>1. /\ last \in Present /\ last \in Nat /\ disk[Files[last]].slug = slug
        /\ \A j \in With(disk, slug) : j <= last
    BY LastIsPresent
  <2>2. Covered(slug)
    BY DEF Undisturbed
  <2>3. LastIndex(slug)' = last
    BY <1>1, SameDisk
  <2> HIDE DEF last
  <2>4. CASE slug = flow.slug
    <3>1. i <= last
      BY <1>7, <2>1, <2>4
    <3>2. CASE i = last
      BY <1>1, <1>3, <2>3, <2>4, <3>2 DEF Covered
    <3>3. CASE i # last
      <4>1. last \in loader'[r].todo
        BY <1>2, <1>3, <1>5, <2>1, <3>1, <3>3 DEF OnItsWay
      <4> QED BY <1>2, <1>6, <2>3, <4>1 DEF Covered
    <3> QED BY <3>2, <3>3
  <2>5. CASE slug # flow.slug
    <3>1. CASE slug \in DOMAIN cache /\ cache[slug] = disk[Files[LastIndex(slug)]]
      BY <1>1, <2>3, <2>5, <3>1 DEF Covered, last
    <3>2. CASE \E q \in Loading : LastIndex(slug) \in loader[q].todo
      <4> PICK q \in Loading : last \in loader[q].todo
        BY <3>2 DEF last
      <4>1. last # i
        BY <1>3, <2>1, <2>5
      <4>2. last \in loader'[q].todo
        BY <1>5, <4>1 DEF Loading
      <4> QED BY <1>6, <2>3, <4>2 DEF Covered
    <3> QED BY <2>2, <3>1, <3>2 DEF Covered
  <2> QED BY <2>4, <2>5
<1>10. DOMAIN cache' \subseteq SlugsOn(disk)
  BY <1>1, <1>7 DEF Undisturbed
<1> QED BY <1>1, <1>6, <1>8, <1>9, <1>10, SameDisk DEF Undisturbed

LEMMA FinishUndisturbed ==
  ASSUME ReloadType, Undisturbed, NEW r \in Reload, Finish(r) \/ Leave(r)
  PROVE  Undisturbed'
<1>1. /\ UNCHANGED <<disk, cache>>
      /\ loader[r].at = "loading" => loader[r].todo = {}
      /\ \A q \in Reload \ {r} : loader'[q] = loader[q]
      /\ loader'[r].at # "loading"
  BY DEF Finish, Leave, NotLoading, ReloadType
<1>2. Loading' = Loading \ {r}
  BY <1>1 DEF Loading
<1>3. \A q \in Loading' : loader'[q] = loader[q] /\ NextFile(q)' = NextFile(q)
  BY <1>1, <1>2 DEF Loading, NextFile
<1>4. \A q \in Loading' : OnItsWay(q)'
  BY <1>1, <1>2, <1>3, SameDisk DEF Undisturbed, OnItsWay
<1>5. \A slug \in SlugsOn(disk) : Covered(slug)'
  <2> SUFFICES ASSUME NEW slug \in SlugsOn(disk) PROVE Covered(slug)'
    OBVIOUS
  <2>1. Covered(slug) /\ LastIndex(slug)' = LastIndex(slug)
    BY <1>1, SameDisk DEF Undisturbed
  <2>2. \A q \in Loading : LastIndex(slug) \in loader[q].todo => q \in Loading'
    BY <1>1, <1>2 DEF Loading
  <2> QED BY <1>1, <1>3, <2>1, <2>2 DEF Covered
<1> QED BY <1>1, <1>4, <1>5, SameDisk DEF Undisturbed

LEMMA ReloadStep == ReloadInv /\ [Next]_vars => ReloadInv'
<1> SUFFICES ASSUME ReloadInv, [Next]_vars, still', Whole(disk)' PROVE Undisturbed'
  BY ReloadNextType DEF ReloadInv
<1>0. ReloadType
  BY DEF ReloadInv
<1>1. ASSUME NEW r \in Reload, Start(r) PROVE Undisturbed'
  <2>1. UNCHANGED disk /\ (Loading = {} \/ still)
    BY <1>1 DEF Start
  <2> QED BY <1>0, <1>1, <2>1, SameDisk, StartUndisturbed DEF ReloadInv
<1>2. ASSUME NEW r \in Reload, Work(r) \/ Leave(r) PROVE Undisturbed'
  <2>1. UNCHANGED <<disk, still>>
    BY <1>2 DEF Work, Parse, ParseError, Insert, Finish, Leave
  <2>2. Undisturbed /\ Whole(disk)
    BY <2>1, SameDisk DEF ReloadInv
  <2> QED BY <1>0, <1>2, <2>2, ParseUndisturbed, NoParseError, InsertUndisturbed, FinishUndisturbed
          DEF Work
<1>3. ASSUME NEW f \in ToSet(Files), NEW content \in Content[f], Edit(f, content)
      PROVE  Undisturbed'
  BY <1>3 DEF Edit
<1>4. ASSUME UNCHANGED <<disk, cache, loader, still>> PROVE Undisturbed'
  <2>1. Undisturbed
    BY <1>4, SameDisk DEF ReloadInv
  <2>2. Loading' = Loading /\ \A r \in Reload : NextFile(r)' = NextFile(r)
    BY <1>4 DEF Loading, NextFile
  <2> QED BY <1>4, <2>1, <2>2, SameDisk DEF Undisturbed, OnItsWay, Covered, Loading
<1>5. ASSUME \/ \E q \in Reader, w \in Wanted : Ask(q, w)
             \/ \E q \in Reader : Scan(q) \/ Hang(q)
             \/ UNCHANGED vars
      PROVE  Undisturbed'
  BY <1>4, <1>5 DEF Ask, Scan, Hang, vars
<1> QED BY <1>1, <1>2, <1>3, <1>5 DEF Next

LEMMA ReloadInitInv == Init => ReloadInv
<1> SUFFICES ASSUME Init PROVE Undisturbed
  BY ReloadInitType DEF ReloadInv
<1>1. \A f \in ToSet(Files) : disk[f] \in Content[f]
  BY StartsUp DEF Init
<1>2. Loading = {} /\ cache = Image(disk)
  BY DEF Init, Loading, NotLoading
<1> QED BY <1>1, <1>2, ImageType DEF Undisturbed, Covered, LastIndex

THEOREM ReloadSoundness == Spec => []ReloadInv
BY ReloadInitInv, ReloadStep, PTL DEF Spec

\* However many reloads overlap, and whichever of them emptied the cache last, when
\* the last one is over the cache is what the disk holds.
THEOREM CacheIsDisk == Spec => []ReloadedIsDisk
<1>1. ReloadInv => ReloadedIsDisk
  <2> SUFFICES ASSUME ReloadInv, Loading = {}, still, Whole(disk)
               PROVE  cache = Image(disk)
    BY DEF ReloadedIsDisk
  <2>1. Undisturbed /\ ReloadType
    BY DEF ReloadInv
  <2>2. /\ DOMAIN Image(disk) = SlugsOn(disk)
        /\ Image(disk) = [slug \in DOMAIN Image(disk) |-> Image(disk)[slug]]
        /\ \A slug \in SlugsOn(disk) : Image(disk)[slug] = disk[Files[LastIndex(slug)]]
    BY <2>1, ImageType DEF ReloadType, LastIndex
  <2>3. \A slug \in SlugsOn(disk) :
          slug \in DOMAIN cache /\ cache[slug] = disk[Files[LastIndex(slug)]]
    BY <2>1 DEF Undisturbed, Covered
  <2>4. DOMAIN cache = SlugsOn(disk)
    BY <2>1, <2>3 DEF Undisturbed
  <2>5. cache = [slug \in DOMAIN cache |-> cache[slug]]
    BY <2>1 DEF ReloadType
  <2> QED BY <2>2, <2>3, <2>4, <2>5
<1> QED BY <1>1, ReloadSoundness, PTL

----------------------------------------------------------------------------
\* Lookups

Offered(w) == {slug \in DOMAIN cache : slug.name = w.name /\ w.version \in {None, slug.version}}

Serves(w, result) ==
  IF Offered(w) = {} THEN result = "KeyError"
  ELSE /\ result \in {cache[slug] : slug \in Offered(w)}
       /\ \A slug \in Offered(w) : slug.version <= result.slug.version

ReaderType ==
  /\ DOMAIN reader = Reader
  /\ \A q \in Reader : DOMAIN reader[q] = {"at", "wanted", "size", "held", "calm", "result"}

\* What is known of a lookup that no reload has interfered with.
Undetached(q) ==
  reader[q].calm =>
    /\ Loading = {}
    /\ reader[q].at = "scanning" =>
         /\ reader[q].held = None
         /\ reader[q].size = Cardinality(DOMAIN cache)
         /\ reader[q].wanted \in Wanted /\ reader[q].wanted \notin DOMAIN cache
    /\ reader[q].at = "answered" => Serves(reader[q].wanted, reader[q].result)

ReaderInv == ReloadType /\ ReaderType /\ \A q \in Reader : Undetached(q)

LEMMA SameServes ==
  ASSUME UNCHANGED cache,
         NEW q \in Reader, Serves(reader'[q].wanted, reader'[q].result)
  PROVE  Serves(reader[q].wanted, reader[q].result)'
BY DEF Serves, Offered

LEMMA SlugsOfCache ==
  ASSUME ReloadType, NEW slug \in DOMAIN cache
  PROVE  /\ slug = Slug(slug.name, slug.version) /\ slug.version \in Nat
         /\ cache[slug] \in Flows /\ cache[slug].slug = slug /\ cache[slug] # None
BY SlugsAssumption DEF ReloadType, Flows

LEMMA VersionsFinite ==
  ASSUME ReloadType, NEW name
  PROVE  Versions(cache, name) \in SUBSET Nat /\ IsFiniteSet(Versions(cache, name))
<1> DEFINE S == {s \in DOMAIN cache : s.name = name}
           version == [s \in S |-> s.version]
<1>1. IsFiniteSet(S)
  BY FS_Subset DEF ReloadType
<1>2. Versions(cache, name) = {version[s] : s \in S}
  BY DEF Versions
<1> HIDE DEF version
<1>3. IsFiniteSet({version[s] : s \in S})
  BY <1>1, FiniteRange
<1>4. Versions(cache, name) \in SUBSET Nat
  BY SlugsOfCache DEF Versions
<1> QED BY <1>2, <1>3, <1>4

\* A slug is served its own flow.
LEMMA SlugServed ==
  ASSUME ReloadType, NEW w \in Wanted, w \in DOMAIN cache
  PROVE  Serves(w, cache[w])
<1>1. /\ w = Slug(w.name, w.version) /\ w.version \in Nat /\ w.version # None
      /\ cache[w].slug = w
  BY SlugsOfCache, SlugsAssumption
<1>2. Offered(w) = {w}
  BY <1>1, SlugsOfCache DEF Offered
<1> QED BY <1>1, <1>2 DEF Serves

\* A name is served its highest version; a slug that is not there, nothing.
LEMMA ScanServes ==
  ASSUME ReloadType, NEW w \in Wanted, w \notin DOMAIN cache,
         NEW flow, flow = IF w.version = None THEN Latest(cache, w.name) ELSE None
  PROVE  Serves(w, IF flow = None THEN "KeyError" ELSE flow)
<1>0. w = Slug(w.name, w.version)
  BY SlugsAssumption
<1>1. CASE w.version # None
  <2>1. Offered(w) = {}
    BY <1>0, <1>1, SlugsOfCache DEF Offered
  <2> QED BY <1>1, <2>1 DEF Serves
<1>2. CASE w.version = None
  <2> DEFINE V == Versions(cache, w.name)
  <2>1. Offered(w) = {slug \in DOMAIN cache : slug.name = w.name}
    BY <1>2 DEF Offered
  <2>2. \A slug \in Offered(w) : slug.version \in V
    BY <2>1 DEF Versions
  <2>3. CASE V = {}
    BY <1>2, <2>2, <2>3 DEF Latest, Serves
  <2>4. CASE V # {}
    <3> DEFINE top == Max(V)
    <3>1. V \in SUBSET Nat /\ IsFiniteSet(V)
      BY VersionsFinite
    <3> HIDE DEF V
    <3>2. top \in V /\ \A v \in V : top >= v
      BY <2>4, <3>1, MaxIsGreatest
    <3>3. flow = cache[Slug(w.name, top)]
      BY <1>2, <2>4 DEF Latest, V
    <3> HIDE DEF top
    <3>4. PICK slug \in DOMAIN cache : slug.name = w.name /\ slug.version = top
      BY <3>2 DEF V, Versions
    <3>5. slug = Slug(w.name, top) /\ slug \in Offered(w)
      BY <2>1, <3>4, SlugsOfCache
    <3>6. flow # None /\ flow = cache[slug] /\ flow.slug.version = top
      BY <3>3, <3>4, <3>5, SlugsOfCache
    <3>7. \A s \in Offered(w) : s.version <= top
      BY <2>2, <3>1, <3>2
    <3> QED BY <3>5, <3>6, <3>7 DEF Serves
  <2> QED BY <2>3, <2>4
<1> QED BY <1>1, <1>2

\* While no reload runs and none begins, the cache stays as it is.
LEMMA CalmStep ==
  ASSUME [Next]_vars, Loading = {}, ~ \E r \in Reload : Start(r)
  PROVE  UNCHANGED cache /\ Loading' = {}
<1>1. ASSUME NEW r \in Reload, Work(r) PROVE FALSE
  BY <1>1 DEF Work, Parse, ParseError, Insert, Finish, Loading
<1>2. ASSUME NEW r \in Reload, Leave(r) PROVE UNCHANGED cache /\ Loading' = {}
  BY <1>2 DEF Leave, NotLoading, Loading
<1>3. ASSUME UNCHANGED <<cache, loader>> PROVE UNCHANGED cache /\ Loading' = {}
  BY <1>3 DEF Loading
<1> QED BY <1>1, <1>2, <1>3 DEF Next, Ask, Scan, Hang, Edit, vars

LEMMA ReaderStep == ReaderInv /\ [Next]_vars => ReaderInv'
<1> SUFFICES ASSUME ReaderInv, [Next]_vars PROVE ReaderType' /\ \A q \in Reader : Undetached(q)'
  BY ReloadNextType DEF ReaderInv
<1>0. ReloadType /\ ReaderType
  BY DEF ReaderInv
<1>1. ASSUME NEW r \in Reload, Start(r)
      PROVE  ReaderType' /\ \A q \in Reader : Undetached(q)'
  <2>1. \A q \in Reader : /\ DOMAIN reader'[q] = DOMAIN reader[q]
                          /\ reader'[q].calm = FALSE
    BY <1>0, <1>1 DEF Start, Detached, ReaderType
  <2>2. DOMAIN reader' = Reader
    BY <1>1 DEF Start, Detached
  <2> QED BY <1>0, <2>1, <2>2 DEF ReaderType, Undetached
<1>2. ASSUME NEW q \in Reader, reader'[q] = reader[q], ~ \E r \in Reload : Start(r)
      PROVE  Undetached(q)'
  <2> SUFFICES ASSUME reader[q].calm PROVE Undetached(q)'
    BY <1>2 DEF Undetached
  <2>1. Undetached(q) /\ Loading = {}
    BY DEF ReaderInv, Undetached
  <2>2. UNCHANGED cache /\ Loading' = {}
    BY <1>2, <2>1, CalmStep
  <2> QED BY <1>2, <2>1, <2>2 DEF Undetached, Serves, Offered
<1>3. ASSUME NEW q \in Reader, NEW w \in Wanted, Ask(q, w), ~ \E r \in Reload : Start(r)
      PROVE  ReaderType' /\ \A p \in Reader : Undetached(p)'
  <2>1. UNCHANGED <<cache, loader>> /\ Loading' = Loading
    BY <1>3 DEF Ask, Loading
  <2>2. /\ DOMAIN reader'[q] = {"at", "wanted", "size", "held", "calm", "result"}
        /\ reader'[q].wanted = w /\ reader'[q].calm = (Loading = {})
    BY <1>0, <1>3 DEF Ask, NotReading, ReaderType
  <2>3. \A p \in Reader \ {q} : reader'[p] = reader[p]
    BY <1>0, <1>3 DEF Ask, ReaderType
  <2>4. ReaderType'
    BY <1>0, <1>3, <2>2, <2>3 DEF Ask, ReaderType
  <2>5. CASE w \in DOMAIN cache
    <3>1. reader'[q].at = "answered" /\ reader'[q].result = cache[w]
      BY <1>0, <1>3, <2>5 DEF Ask, NotReading, ReaderType
    <3>2. Serves(w, cache[w])
      BY <1>0, <2>5, SlugServed
    <3>3. Serves(reader[q].wanted, reader[q].result)'
      BY <2>1, <2>2, <3>1, <3>2, SameServes
    <3>4. Undetached(q)'
      BY <2>1, <2>2, <3>1, <3>3 DEF Undetached
    <3> QED BY <1>2, <1>3, <2>3, <2>4, <3>4
  <2>6. CASE w \notin DOMAIN cache
    <3>1. /\ reader'[q].at = "scanning" /\ reader'[q].held = None
          /\ reader'[q].size = Cardinality(DOMAIN cache)
      BY <1>0, <1>3, <2>6 DEF Ask, NotReading, ReaderType
    <3>2. Undetached(q)'
      BY <2>1, <2>2, <2>6, <3>1 DEF Undetached
    <3> QED BY <1>2, <1>3, <2>3, <2>4, <3>2
  <2> QED BY <2>5, <2>6
<1>4. ASSUME NEW q \in Reader, Scan(q), ~ \E r \in Reload : Start(r)
      PROVE  ReaderType' /\ \A p \in Reader : Undetached(p)'
  <2> DEFINE dict == IF reader[q].held = None THEN cache ELSE reader[q].held
             w    == reader[q].wanted
             flow == IF w.version = None THEN Latest(dict, w.name) ELSE None
             result == IF Cardinality(DOMAIN dict) # reader[q].size THEN "RuntimeError"
                       ELSE IF flow = None THEN "KeyError" ELSE flow
  <2>1. UNCHANGED <<cache, loader>> /\ Loading' = Loading /\ reader[q].at = "scanning"
    BY <1>4 DEF Scan, Loading
  <2>2. reader' = [reader EXCEPT ![q].at = "answered", ![q].size = 0, ![q].held = None,
                                 ![q].result = result]
    BY <1>4 DEF Scan
  <2> HIDE DEF result
  <2>3. /\ DOMAIN reader'[q] = {"at", "wanted", "size", "held", "calm", "result"}
        /\ reader'[q].at = "answered" /\ reader'[q].wanted = w
        /\ reader'[q].calm = reader[q].calm /\ reader'[q].result = result
    BY <1>0, <2>2 DEF ReaderType
  <2>4. \A p \in Reader \ {q} : reader'[p] = reader[p]
    BY <1>0, <2>2 DEF ReaderType
  <2>5. ReaderType'
    BY <1>0, <2>2, <2>3, <2>4 DEF ReaderType
  <2>6. ASSUME reader[q].calm PROVE Serves(w, result)
    <3>1. /\ reader[q].held = None /\ w \in Wanted /\ w \notin DOMAIN cache
          /\ reader[q].size = Cardinality(DOMAIN cache)
      BY <2>1, <2>6 DEF ReaderInv, Undetached
    <3>2. dict = cache
      BY <3>1
    <3> DEFINE found == IF w.version = None THEN Latest(cache, w.name) ELSE None
    <3>3. result = IF found = None THEN "KeyError" ELSE found
      BY <3>1 DEF result
    <3> HIDE DEF w, found
    <3>4. Serves(w, IF found = None THEN "KeyError" ELSE found)
      BY <1>0, <3>1, ScanServes DEF found
    <3> QED BY <3>3, <3>4
  <2>7. Undetached(q)'
    <3> SUFFICES ASSUME reader[q].calm PROVE Undetached(q)'
      BY <2>3 DEF Undetached
    <3>1. Loading = {}
      BY DEF ReaderInv, Undetached
    <3>2. Serves(reader[q].wanted, reader[q].result)'
      BY <2>1, <2>3, <2>6, SameServes
    <3> QED BY <2>1, <2>3, <3>1, <3>2 DEF Undetached
  <2> QED BY <1>2, <1>4, <2>4, <2>5, <2>7
<1>5. ASSUME NEW q \in Reader, Hang(q), ~ \E r \in Reload : Start(r)
      PROVE  ReaderType' /\ \A p \in Reader : Undetached(p)'
  <2>1. reader' = [reader EXCEPT ![q] = NotReading]
    BY <1>5 DEF Hang
  <2>2. /\ ReaderType' /\ reader'[q].calm = FALSE
        /\ \A p \in Reader \ {q} : reader'[p] = reader[p]
    BY <1>0, <2>1 DEF ReaderType, NotReading
  <2>3. Undetached(q)'
    BY <2>2 DEF Undetached
  <2> QED BY <1>2, <1>5, <2>2, <2>3
<1>6. ASSUME UNCHANGED reader, ~ \E r \in Reload : Start(r)
      PROVE  ReaderType' /\ \A p \in Reader : Undetached(p)'
  BY <1>0, <1>2, <1>6 DEF ReaderType
<1>7. ASSUME NEW r \in Reload, Work(r) \/ Leave(r) PROVE UNCHANGED reader
  BY <1>7 DEF Work, Parse, ParseError, Insert, Finish, Leave
<1>8. ASSUME NEW f \in ToSet(Files), NEW content \in Content[f], Edit(f, content)
      PROVE  UNCHANGED reader
  BY <1>8 DEF Edit
<1>9. UNCHANGED vars => UNCHANGED reader
  BY DEF vars
<1> QED BY <1>1, <1>3, <1>4, <1>5, <1>6, <1>7, <1>8, <1>9 DEF Next

\* Whatever reloads and edits went before, a lookup that no reload meets is served the
\* latest version of a name and the flow of a slug, and never fails on the dictionary.
THEOREM LatestIsServed == Spec => []LatestServed
<1>1. Init => ReaderInv
  <2> SUFFICES ASSUME Init PROVE ReaderInv
    OBVIOUS
  <2>1. ReaderType /\ \A q \in Reader : reader[q].calm = FALSE
    BY DEF Init, NotReading, ReaderType
  <2> QED BY <2>1, ReloadInitType DEF ReaderInv, Undetached
<1>2. ReaderInv => LatestServed
  BY DEF ReaderInv, Undetached, LatestServed, Serves, Offered
<1> QED BY <1>1, <1>2, ReaderStep, PTL DEF Spec
=============================================================================
