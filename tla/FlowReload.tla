----------------------------- MODULE FlowReload -----------------------------
(***************************************************************************)
(* app/flow_loader.py: the files of FLOWS_DIR, the cache of flows all      *)
(* requests share, and the requests that reload it (POST admin/reload of   *)
(* app/routes/flow_routes.py), which run in threads, may overlap, and fill *)
(* the cache file by file; get_flow, which a thread may be in the middle   *)
(* of when the cache changes. A flow is its slug, a name and a version,    *)
(* and a revision of its text.                                             *)
(***************************************************************************)
EXTENDS Integers, Sequences, SequencesExt, FiniteSets, FiniteSetsExt

CONSTANTS
  None,
  Broken,     \* the content of a file that does not parse
  Files,      \* the file names, sorted
  Content,    \* file name -> what may be in it: flows, Broken, or None (no file)
  Initial,    \* file name -> what is in it when the process starts
  Reload,     \* the reload requests
  Reader,     \* the requests that look a flow up
  Wanted,     \* what they ask for: a slug, or a bare name (version None)
  MaxEdits    \* bound on the editing of files

Slug(name, version) == [name |-> name, version |-> version]

\* What a file may hold if it is there and parses.
Flows == (UNION {Content[f] : f \in ToSet(Files)}) \ {None, Broken}

ASSUME StartsUp ==
  /\ DOMAIN Initial = ToSet(Files)
  /\ \A f \in ToSet(Files) : Initial[f] \in Content[f] \ {Broken}

ASSUME FilesAssumption == Files \in Seq(ToSet(Files))

\* "Slugs follow the convention {base}-v{N}"; only what is asked for may lack a version.
ASSUME SlugsAssumption ==
  /\ None \notin Nat
  /\ \A flow \in Flows : /\ flow.slug = Slug(flow.slug.name, flow.slug.version)
                         /\ flow.slug.version \in Nat
  /\ \A w \in Wanted : w = Slug(w.name, w.version)

VARIABLES
  disk,    \* file name -> content
  cache,   \* _flow_cache: slug -> flow
  loader,  \* load_all_flows of each reload request
  reader,  \* get_flow of each reader
  edits,
  still    \* history: nobody edited a file since some reload began with no other running

vars == <<disk, cache, loader, reader, edits, still>>

----------------------------------------------------------------------------
\* What is on the disk: the flow of each slug, the last file winning.
FlowsOn(d) == {d[f] : f \in ToSet(Files)} \ {None, Broken}
Whole(d) == \A f \in ToSet(Files) : d[f] # Broken

\* The positions of the files with a slug.
With(d, slug) ==
  {i \in DOMAIN Files : d[Files[i]] \notin {None, Broken} /\ d[Files[i]].slug = slug}

LastWith(d, slug) == Files[Max(With(d, slug))]

Image(d) == [slug \in {flow.slug : flow \in FlowsOn(d)} |-> d[LastWith(d, slug)]]

NotLoading == [at |-> "idle", todo |-> {}, flow |-> None]
NotReading == [at |-> "idle", wanted |-> None, size |-> 0, held |-> None, calm |-> FALSE, result |-> None]

Loading == {r \in Reload : loader[r].at = "loading"}

\* The lifespan hook of main.py has loaded the files.
Init ==
  /\ disk = Initial
  /\ cache = Image(Initial)
  /\ loader = [r \in Reload |-> NotLoading]
  /\ reader = [q \in Reader |-> NotReading]
  /\ edits = 0
  /\ still = TRUE

----------------------------------------------------------------------------
\* load_all_flows

\* The dict a reader goes through is not the global one any more.
Detached ==
  [q \in Reader |->
     [reader[q] EXCEPT !.calm = FALSE,
                       !.held = IF reader[q].at = "scanning" /\ @ = None THEN cache ELSE @]]

\* The files a reload has still to go through are known by their positions.
Present == {i \in DOMAIN Files : disk[Files[i]] # None}

NextFile(r) == Files[Min(loader[r].todo)]

\* A slip: what was loaded before is kept, and overwritten.
StartOver(r) ==
  /\ loader[r].at = "idle"
  /\ loader' = [loader EXCEPT ![r] = [at |-> "loading", todo |-> Present, flow |-> None]]
  /\ still' = (IF Loading = {} THEN TRUE ELSE still)
  /\ UNCHANGED <<disk, cache, reader, edits>>

\* The cache is emptied and the directory listed.
Start(r) ==
  /\ loader[r].at = "idle"
  /\ cache' = <<>>
  /\ reader' = Detached
  /\ loader' = [loader EXCEPT ![r] = [at |-> "loading", todo |-> Present, flow |-> None]]
  /\ still' = (IF Loading = {} THEN TRUE ELSE still)
  /\ UNCHANGED <<disk, edits>>

\* load_flow_from_file, of a file that is there and parses.
Parse(r) ==
  /\ loader[r].at = "loading" /\ loader[r].todo # {} /\ loader[r].flow = None
  /\ disk[NextFile(r)] \notin {None, Broken}
  /\ loader' = [loader EXCEPT ![r].flow = disk[NextFile(r)]]
  /\ UNCHANGED <<disk, cache, reader, edits, still>>

\* A slip: two files with one slug are an error.
ParseErrorOrDuplicate(r) ==
  /\ loader[r].at = "loading" /\ loader[r].todo # {}
  /\ IF loader[r].flow = None THEN disk[NextFile(r)] \in {None, Broken}
                              ELSE loader[r].flow.slug \in DOMAIN cache
  /\ loader' = [loader EXCEPT ![r] = [NotLoading EXCEPT !.at = "failed"]]
  /\ UNCHANGED <<disk, cache, reader, edits, still>>

\* One that does not, or is gone: the reload raises, the cache stays as it is.
ParseError(r) ==
  /\ loader[r].at = "loading" /\ loader[r].todo # {} /\ loader[r].flow = None
  /\ disk[NextFile(r)] \in {None, Broken}
  /\ loader' = [loader EXCEPT ![r] = [NotLoading EXCEPT !.at = "failed"]]
  /\ UNCHANGED <<disk, cache, reader, edits, still>>

\* The flow goes into the cache as it is now, whoever emptied it last; another one
\* of its slug is overwritten.
Insert(r) ==
  /\ loader[r].at = "loading" /\ loader[r].flow # None
  /\ LET flow == loader[r].flow
     IN  cache' = [slug \in DOMAIN cache \cup {flow.slug} |->
                     IF slug = flow.slug THEN flow ELSE cache[slug]]
  /\ loader' = [loader EXCEPT ![r].todo = @ \ {Min(@)}, ![r].flow = None]
  /\ UNCHANGED <<disk, reader, edits, still>>

Finish(r) ==
  /\ loader[r].at = "loading" /\ loader[r].todo = {}
  /\ loader' = [loader EXCEPT ![r].at = "done"]
  /\ UNCHANGED <<disk, cache, reader, edits, still>>

\* The request is over; the next one may use its thread.
Leave(r) ==
  /\ loader[r].at \in {"done", "failed"}
  /\ loader' = [loader EXCEPT ![r] = NotLoading]
  /\ UNCHANGED <<disk, cache, reader, edits, still>>

----------------------------------------------------------------------------
\* get_flow

Versions(dict, name) == {slug.version : slug \in {s \in DOMAIN dict : s.name = name}}

\* A slip: the versions compared as text.
LatestBySpelling(dict, name) ==
  LET spelled(v) == IF v < 10 THEN 10 * v ELSE v
      versions   == Versions(dict, name)
  IN  IF versions = {} THEN None
      ELSE dict[Slug(name, CHOOSE v \in versions : \A w \in versions : spelled(v) >= spelled(w))]

\* _resolve_latest; a slug is not the name of another slug.
Latest(dict, name) ==
  IF Versions(dict, name) = {} THEN None ELSE dict[Slug(name, Max(Versions(dict, name)))]

\* A slug in the cache is found at once; else the loop over the cache's items begins.
Ask(q, w) ==
  /\ reader[q].at = "idle"
  /\ reader' = [reader EXCEPT ![q] =
       IF w \in DOMAIN cache
       THEN [NotReading EXCEPT !.at = "answered", !.wanted = w, !.calm = Loading = {},
                               !.result = cache[w]]
       ELSE [NotReading EXCEPT !.at = "scanning", !.wanted = w, !.calm = Loading = {},
                               !.size = Cardinality(DOMAIN cache)]]
  /\ UNCHANGED <<disk, cache, loader, edits, still>>

\* It ends with the flow, with KeyError, or, when an entry was added meanwhile, with
\* "dictionary changed size during iteration".
Scan(q) ==
  /\ reader[q].at = "scanning"
  /\ LET dict == IF reader[q].held = None THEN cache ELSE reader[q].held
         w    == reader[q].wanted
         flow == IF w.version = None THEN Latest(dict, w.name) ELSE None
     IN  reader' = [reader EXCEPT ![q].at = "answered", ![q].size = 0, ![q].held = None,
           ![q].result = IF Cardinality(DOMAIN dict) # reader[q].size THEN "RuntimeError"
                         ELSE IF flow = None THEN "KeyError" ELSE flow]
  /\ UNCHANGED <<disk, cache, loader, edits, still>>

Hang(q) ==
  /\ reader[q].at = "answered"
  /\ reader' = [reader EXCEPT ![q] = NotReading]
  /\ UNCHANGED <<disk, cache, loader, edits, still>>

----------------------------------------------------------------------------
\* Outside the program
Edit(f, content) ==
  /\ edits < MaxEdits
  /\ content # disk[f]
  /\ disk' = [disk EXCEPT ![f] = content]
  /\ edits' = edits + 1
  /\ still' = FALSE
  /\ UNCHANGED <<cache, loader, reader>>

Work(r) == Parse(r) \/ ParseError(r) \/ Insert(r) \/ Finish(r)

Next ==
  \/ \E r \in Reload : Start(r)
  \/ \E r \in Reload : Work(r)
  \/ \E r \in Reload : Leave(r)
  \/ \E q \in Reader, w \in Wanted : Ask(q, w)
  \/ \E q \in Reader : Scan(q)
  \/ \E q \in Reader : Hang(q)
  \/ \E f \in ToSet(Files) : \E content \in Content[f] : Edit(f, content)

\* The threadpool runs a request that has begun to its end.
Spec == Init /\ [][Next]_vars /\ \A r \in Reload : WF_vars(Work(r))

----------------------------------------------------------------------------
\* load_all_flows: whatever was in the cache, and however reloads overlap, once the
\* last of them is over the cache holds the flows on the disk and no others, if every
\* file parses and none was edited since the first of them began.
ReloadedIsDisk ==
  Loading = {} /\ still /\ Whole(disk) => cache = Image(disk)

\* "The bare name resolves to the highest available version", of the flows there are
\* when it is asked, and a slug to its flow, on a lookup that no reload interferes with;
\* such a lookup never meets a dictionary that changed size.
LatestServed ==
  \A q \in Reader : reader[q].at = "answered" /\ reader[q].calm =>
    LET w       == reader[q].wanted
        offered == {slug \in DOMAIN cache : slug.name = w.name /\ w.version \in {None, slug.version}}
        result  == reader[q].result
    IN  IF offered = {} THEN result = "KeyError"
        ELSE /\ result \in {cache[slug] : slug \in offered}
             /\ \A slug \in offered : slug.version <= result.slug.version

\* A reload of files that parse brings the cache to what the disk holds, unless
\* somebody edits a file or asks for another reload in the meantime.
ReloadTakesEffect ==
  \A r \in Reload :
    (Loading = {r} /\ still /\ Whole(disk))
      ~> (cache = Image(disk) \/ ~still \/ Loading \ {r} # {})
=============================================================================
