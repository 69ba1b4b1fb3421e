------------------------ MODULE TaxiClearanceProofs ------------------------
(***************************************************************************)
(* The Overpass cache and the routes worked out from it, for every number  *)
(* of sessions, every TTL, every map and whatever pilots say: an answer is *)
(* never older than the TTL, a drill is graded as it was spoken, a route   *)
(* worked out is kept.                                                     *)
(***************************************************************************)
EXTENDS TaxiClearance, SequenceTheorems, OrderLemmas

\* The map of version v was still there at time t.
StandsAt(v, t) == superseded[v] = None \/ superseded[v] >= t

\* What carries ServedFresh. The cache counts its time from before the query: no
\* version that may come back was replaced before it.
FreshJob(j) ==
  /\ j.at = "sent" => /\ j.stamp = j.asked /\ j.version >= 1
                      /\ \A v \in j.version..version : StandsAt(v, j.stamp)
  /\ j.at = "have" => j.version >= 1 /\ StandsAt(j.version, j.asked - cache_ttl_seconds)

FreshCache == cache # None => StandsAt(cache.version, cache.stamp)

Fresh ==
  /\ \A v \in version..MaxVersion : superseded[v] = None
  /\ FreshCache
  /\ \A s \in Session : FreshJob(job[s])

\* How far the job j of session s, with record r, may be; a drill is graded once it
\* is over.
StagedAt(s, r, j) ==
  /\ r.phase = "none" => j.at = "idle"
  /\ r.phase \in {"none", "creating"} => r.plan = None /\ ~r.live
  /\ r.phase = "creating" => s \in Drill
  /\ s \in Drill =>
       /\ r.phase # "clearance"
       /\ r.phase = "creating" => j.at \in {"ask", "sent", "have", "failed"}
       /\ r.phase \in {"taxi", "readback", "confirmed", "gone"} => j.at = "done"
       /\ r.phase = "gone" => ~r.live
       /\ r.phase \in {"readback", "confirmed"} => r.spoken = r.plan

Staged == \A s \in Session : StagedAt(s, session[s], job[s])

CInv == TypeOK /\ Fresh /\ Staged

----------------------------------------------------------------------------
Instructed(r) == r.phase \in {"taxi", "readback", "confirmed"} => r.plan # None

\* What is known of one session and its job.
LEMMA One ==
  ASSUME CInv, NEW s \in Session
  PROVE  /\ session[s] \in Record /\ job[s] \in Job
         /\ Instructed(session[s])
         /\ FreshJob(job[s]) /\ StagedAt(s, session[s], job[s])
BY DEF CInv, TypeOK, Fresh, Staged, Instructed

\* A step that changes one session and its job, perhaps the cache.
LEMMA Update ==
  ASSUME CInv, NEW s \in Session, NEW r \in Record, NEW j \in Job,
         session' = [session EXCEPT ![s] = r], job' = [job EXCEPT ![s] = j],
         cache' \in [stamp : 0..now, version : 1..version] \cup {None}, FreshCache',
         UNCHANGED <<version, superseded, now>>,
         Instructed(r), FreshJob(j), StagedAt(s, r, j)
  PROVE  CInv'
<1>1. session' \in [Session -> Record] /\ job' \in [Session -> Job]
  BY DEF CInv, TypeOK
<1>2. /\ \A t \in Session : session'[t] = IF t = s THEN r ELSE session[t]
      /\ \A t \in Session : job'[t] = IF t = s THEN j ELSE job[t]
  BY DEF CInv, TypeOK
<1>3. TypeOK'
  BY <1>1, <1>2 DEF CInv, TypeOK, Record, Job, Plan, Instructed
<1>4. \A t \in Session : FreshJob(job'[t])
  BY <1>2 DEF CInv, Fresh
<1>5. Fresh'
  BY <1>4 DEF CInv, Fresh, FreshJob, StandsAt
<1>6. Staged'
  BY <1>2 DEF CInv, Staged, StagedAt
<1> QED BY <1>3, <1>5, <1>6 DEF CInv

\* One that leaves the job, or the session, as it is.
LEMMA UpdateSession ==
  ASSUME CInv, NEW s \in Session, NEW r \in Record,
         session' = [session EXCEPT ![s] = r],
         UNCHANGED <<job, cache, version, superseded, now>>,
         Instructed(r), StagedAt(s, r, job[s])
  PROVE  CInv'
<1>1. job[s] \in Job /\ FreshJob(job[s]) /\ job' = [job EXCEPT ![s] = job[s]]
  BY One DEF CInv, TypeOK
<1>2. cache' \in [stamp : 0..now, version : 1..version] \cup {None} /\ FreshCache'
  BY DEF CInv, TypeOK, Fresh, FreshCache, StandsAt
<1> QED BY <1>1, <1>2, Update

LEMMA UpdateJob ==
  ASSUME CInv, NEW s \in Session, NEW j \in Job,
         job' = [job EXCEPT ![s] = j],
         UNCHANGED <<session, cache, version, superseded, now>>,
         FreshJob(j), StagedAt(s, session[s], j)
  PROVE  CInv'
<1>1. /\ session[s] \in Record /\ Instructed(session[s])
      /\ session' = [session EXCEPT ![s] = session[s]]
  BY One DEF CInv, TypeOK
<1>2. cache' \in [stamp : 0..now, version : 1..version] \cup {None} /\ FreshCache'
  BY DEF CInv, TypeOK, Fresh, FreshCache, StandsAt
<1> QED BY <1>1, <1>2, Update

LEMMA UpdateBoth ==
  ASSUME CInv, NEW s \in Session, NEW r \in Record, NEW j \in Job,
         session' = [session EXCEPT ![s] = r], job' = [job EXCEPT ![s] = j],
         UNCHANGED <<cache, version, superseded, now>>,
         Instructed(r), FreshJob(j), StagedAt(s, r, j)
  PROVE  CInv'
<1>1. cache' \in [stamp : 0..now, version : 1..version] \cup {None} /\ FreshCache'
  BY DEF CInv, TypeOK, Fresh, FreshCache, StandsAt
<1> QED BY <1>1, Update

----------------------------------------------------------------------------
LEMMA InitCInv == Init => CInv
<1> SUFFICES ASSUME Init PROVE CInv
  OBVIOUS
<1>1. Unborn \in Record /\ Idle \in Job
  BY ClearanceAssumption DEF Init, Unborn, Idle, Record, Job, Plan, MAX_READBACK_ATTEMPTS
<1>2. TypeOK
  BY <1>1, ClearanceAssumption DEF Init, TypeOK, Unborn
<1>3. Fresh
  BY DEF Init, Fresh, FreshCache, FreshJob, Idle
<1>4. Staged
  BY DEF Init, Staged, StagedAt, Unborn, Idle
<1> QED BY <1>2, <1>3, <1>4 DEF CInv

LEMMA CreateDrillStep ==
  ASSUME CInv, NEW s \in Session, CreateDrill(s)  PROVE CInv'
<1> DEFINE r == [session[s] EXCEPT !.phase = "creating"]
           j == [job[s] EXCEPT !.at = "ask"]
<1>1. /\ r \in Record /\ j \in Job
  BY One DEF Record, Job
<1>2. session' = [session EXCEPT ![s] = r] /\ job' = [job EXCEPT ![s] = j]
  BY DEF CreateDrill
<1>3. Instructed(r) /\ FreshJob(j) /\ StagedAt(s, r, j)
  BY One DEF CreateDrill, Instructed, FreshJob, StagedAt, Record, Job
<1> HIDE DEF r, j
<1> QED BY <1>1, <1>2, <1>3, UpdateBoth DEF CreateDrill

LEMMA CreateDepartureStep ==
  ASSUME CInv, NEW s \in Session, CreateDeparture(s)  PROVE CInv'
<1> DEFINE r == [session[s] EXCEPT !.live = TRUE, !.phase = "clearance"]
           j == [job[s] EXCEPT !.at = "queued"]
<1>1. /\ r \in Record /\ j \in Job
  BY One DEF Record, Job
<1>2. session' = [session EXCEPT ![s] = r] /\ job' = [job EXCEPT ![s] = j]
  BY DEF CreateDeparture, CInv, TypeOK
<1>3. Instructed(r) /\ FreshJob(j) /\ StagedAt(s, r, j)
  BY One DEF CreateDeparture, Instructed, FreshJob, StagedAt, Record, Job
<1> HIDE DEF r, j
<1> QED BY <1>1, <1>2, <1>3, UpdateBoth DEF CreateDeparture

LEMMA BeginStep ==
  ASSUME CInv, NEW s \in Session, Begin(s)  PROVE CInv'
<1> DEFINE j == [job[s] EXCEPT !.at = IF session[s].live THEN "ask" ELSE "done"]
<1>1. j \in Job
  BY One DEF Job
<1>2. job' = [job EXCEPT ![s] = j]
  BY DEF Begin
<1>3. FreshJob(j) /\ StagedAt(s, session[s], j)
  BY One DEF Begin, FreshJob, StagedAt, Record, Job
<1> HIDE DEF j
<1> QED BY <1>1, <1>2, <1>3, UpdateJob DEF Begin

LEMMA FetchStep ==
  ASSUME CInv, NEW s \in Session, Fetch(s)  PROVE CInv'
<1> DEFINE hit == [at |-> "have", asked |-> now, stamp |-> cache.stamp,
                   version |-> cache.version]
           miss == [at |-> "sent", asked |-> now, stamp |-> now, version |-> version]
           j == IF Cached THEN hit ELSE miss
<1>1. now \in Nat /\ version \in 1..MaxVersion /\ cache_ttl_seconds \in Nat
      /\ MaxVersion \in Nat
  BY ClearanceAssumption DEF CInv, TypeOK
<1>2. ASSUME Cached PROVE hit \in Job /\ FreshJob(hit)
  <2>1. cache \in [stamp : 0..now, version : 1..version] /\ StandsAt(cache.version, cache.stamp)
    BY <1>2 DEF Cached, CInv, TypeOK, Fresh, FreshCache
  <2>2. hit \in Job
    BY <1>1, <2>1 DEF Job
  <2>3. superseded[cache.version] \in (0..now) \cup {None}
    BY <1>1, <2>1 DEF CInv, TypeOK
  <2>4. StandsAt(cache.version, now - cache_ttl_seconds)
    BY <1>1, <1>2, <2>1, <2>3 DEF Cached, StandsAt
  <2> QED BY <1>1, <2>1, <2>2, <2>4 DEF FreshJob
<1>3. miss \in Job /\ FreshJob(miss)
  <2>1. miss \in Job
    BY <1>1 DEF Job
  <2>2. superseded[version] = None
    BY <1>1 DEF CInv, Fresh
  <2> QED BY <1>1, <2>1, <2>2 DEF FreshJob, StandsAt
<1>4. j \in Job /\ FreshJob(j) /\ j.at \in {"have", "sent"}
  BY <1>2, <1>3
<1>5. job' = [job EXCEPT ![s] = j]
  BY DEF Fetch
<1>6. StagedAt(s, session[s], j)
  BY <1>4, One DEF Fetch, StagedAt, Record
<1> HIDE DEF j
<1> QED BY <1>4, <1>5, <1>6, UpdateJob DEF Fetch

LEMMA AnswerStep ==
  ASSUME CInv, NEW s \in Session, Answer(s)  PROVE CInv'
<1>1. PICK v \in job[s].version..version :
        /\ cache' = [stamp |-> job[s].stamp, version |-> v]
        /\ job' = [job EXCEPT ![s].at = "have", ![s].version = v]
  BY DEF Answer
<1> DEFINE j == [job[s] EXCEPT !.at = "have", !.version = v]
<1>2. /\ job[s] \in Job /\ job[s].at = "sent" /\ job[s].version >= 1
      /\ job[s].stamp = job[s].asked /\ StandsAt(v, job[s].stamp)
  BY One DEF Answer, FreshJob
<1>3. version \in 1..MaxVersion /\ cache_ttl_seconds \in Nat /\ MaxVersion \in Nat /\ now \in Nat
  BY ClearanceAssumption DEF CInv, TypeOK
<1>4. v \in 1..version /\ superseded[v] \in (0..now) \cup {None}
  BY <1>2, <1>3 DEF Job, CInv, TypeOK
<1>5. j \in Job
  <2>1. v \in 0..version
    BY <1>3, <1>4
  <2> QED BY <1>2, <2>1 DEF Job
<1>6. FreshJob(j)
  BY <1>2, <1>3, <1>4 DEF FreshJob, StandsAt, Job
<1>7. cache' \in [stamp : 0..now, version : 1..version] \cup {None}
  BY <1>1, <1>2, <1>4 DEF Job
<1>8. FreshCache'
  BY <1>1, <1>2 DEF FreshCache, StandsAt, Answer
<1>9. StagedAt(s, session[s], j)
  BY One DEF Answer, StagedAt, Record, Job
<1>10. job' = [job EXCEPT ![s] = j] /\ session' = [session EXCEPT ![s] = session[s]]
  BY <1>1 DEF Answer, CInv, TypeOK
<1>11. session[s] \in Record /\ Instructed(session[s])
  BY One
<1> HIDE DEF j
<1> QED BY <1>5, <1>6, <1>7, <1>8, <1>9, <1>10, <1>11, Update DEF Answer

LEMMA FailStep ==
  ASSUME CInv, NEW s \in Session, Fail(s)  PROVE CInv'
<1> DEFINE j == [job[s] EXCEPT !.at = "failed"]
<1>1. j \in Job
  BY One DEF Job
<1>2. job' = [job EXCEPT ![s] = j]
  BY DEF Fail
<1>3. FreshJob(j) /\ StagedAt(s, session[s], j)
  BY One DEF Fail, FreshJob, StagedAt, Record, Job
<1> HIDE DEF j
<1> QED BY <1>1, <1>2, <1>3, UpdateJob DEF Fail

LEMMA IdleJob ==
  ASSUME CInv, NEW a \in {"done", "found"}  PROVE [Idle EXCEPT !.at = a] \in Job
<1>1. 0 \in 0..now /\ 0 \in 0..version
  BY ClearanceAssumption DEF CInv, TypeOK
<1> QED BY <1>1 DEF Idle, Job

\* What a finished query comes to: nothing, or a route other than the default.
LEMMA ComputedPlan ==
  ASSUME CInv, NEW s \in Session, job[s].at \in {"have", "failed"}, NEW plan \in Computed(s)
  PROVE  plan \in Plan /\ plan # 0
<1>1. /\ version \in 1..MaxVersion /\ MaxVersion \in Nat /\ DOMAIN Hold = 0..MaxVersion
      /\ None \notin Nat
  BY ClearanceAssumption DEF CInv, TypeOK
<1>2. job[s].at = "have" => job[s].version \in 1..version
  BY <1>1, One DEF Job, FreshJob
<1>3. plan = None \/ (plan = job[s].version /\ job[s].at = "have")
  BY DEF Computed
<1> QED BY <1>1, <1>2, <1>3 DEF Plan

LEMMA ConcludeDrillStep ==
  ASSUME CInv, NEW s \in Session, ConcludeDrill(s)  PROVE CInv'
<1>1. PICK plan \in Computed(s) :
        session' = [session EXCEPT ![s] = [@ EXCEPT
          !.live = TRUE, !.phase = "taxi", !.plan = IF plan = None THEN 0 ELSE plan]]
  BY DEF ConcludeDrill
<1> DEFINE route == IF plan = None THEN 0 ELSE plan
           r == [session[s] EXCEPT !.live = TRUE, !.phase = "taxi", !.plan = route]
           j == [Idle EXCEPT !.at = "done"]
<1>2. route \in Plan /\ route # None
  BY <1>1, ComputedPlan, ClearanceAssumption DEF ConcludeDrill, Plan
<1>3. session' = [session EXCEPT ![s] = r] /\ job' = [job EXCEPT ![s] = j]
  BY <1>1 DEF ConcludeDrill, Finished
<1>4. r \in Record
  BY <1>2, One DEF Record
<1>5. j \in Job
  BY IdleJob
<1>6. Instructed(r) /\ FreshJob(j) /\ StagedAt(s, r, j)
  BY <1>2, One DEF ConcludeDrill, Instructed, FreshJob, StagedAt, Record, Idle
<1> HIDE DEF r, j
<1> QED BY <1>3, <1>4, <1>5, <1>6, UpdateBoth DEF ConcludeDrill

LEMMA RefetchStep ==
  ASSUME CInv, NEW s \in Session, Refetch(s)  PROVE CInv'
<1>1. PICK plan \in Computed(s) :
        IF plan = None \/ ~session[s].live
        THEN /\ job' = Finished(s)
             /\ UNCHANGED session
        ELSE /\ job' = [job EXCEPT ![s] = [Idle EXCEPT !.at = "found"]]
             /\ session' = [session EXCEPT ![s].plan = plan]
  BY DEF Refetch
<1>2. CASE plan = None \/ ~session[s].live
  <2> DEFINE j == [Idle EXCEPT !.at = "done"]
  <2>1. j \in Job
    BY IdleJob
  <2>2. job' = [job EXCEPT ![s] = j] /\ UNCHANGED session
    BY <1>1, <1>2 DEF Finished
  <2>3. FreshJob(j) /\ StagedAt(s, session[s], j)
    BY One DEF Refetch, FreshJob, StagedAt, Record, Idle
  <2> HIDE DEF j
  <2> QED BY <2>1, <2>2, <2>3, UpdateJob DEF Refetch
<1>3. CASE ~(plan = None \/ ~session[s].live)
  <2> DEFINE r == [session[s] EXCEPT !.plan = plan]
             j == [Idle EXCEPT !.at = "found"]
  <2>1. plan \in Plan
    BY ComputedPlan DEF Refetch
  <2>2. r \in Record
    BY <2>1, One DEF Record
  <2>3. j \in Job
    BY IdleJob
  <2>4. session' = [session EXCEPT ![s] = r] /\ job' = [job EXCEPT ![s] = j]
    BY <1>1, <1>3
  <2>5. Instructed(r) /\ FreshJob(j) /\ StagedAt(s, r, j)
    BY <1>3, One DEF Refetch, Instructed, FreshJob, StagedAt, Record, Idle
  <2> HIDE DEF r, j
  <2> QED BY <2>2, <2>3, <2>4, <2>5, UpdateBoth DEF Refetch
<1> QED BY <1>2, <1>3

LEMMA SaveStep ==
  ASSUME CInv, NEW s \in Session, Save(s)  PROVE CInv'
<1> DEFINE r == [session[s] EXCEPT !.live = TRUE]
           j == [Idle EXCEPT !.at = "done"]
<1>1. r \in Record
  BY One DEF Record
<1>2. j \in Job
  BY IdleJob
<1>3. session' = [session EXCEPT ![s] = r] /\ job' = [job EXCEPT ![s] = j]
  BY DEF Save, Finished
<1>4. Instructed(r) /\ FreshJob(j) /\ StagedAt(s, r, j)
  BY One DEF Save, Instructed, FreshJob, StagedAt, Record, Idle
<1> HIDE DEF r, j
<1> QED BY <1>1, <1>2, <1>3, <1>4, UpdateBoth DEF Save

LEMMA ChainStep ==
  ASSUME CInv, NEW s \in Session, Chain(s)  PROVE CInv'
<1> DEFINE plan == IF session[s].plan = None THEN 0 ELSE session[s].plan
           r == [session[s] EXCEPT !.phase = "taxi", !.plan = plan]
<1>1. plan \in Plan /\ plan # None
  BY One, ClearanceAssumption DEF Record, Plan
<1>2. r \in Record
  BY <1>1, One DEF Record
<1>3. session' = [session EXCEPT ![s] = r]
  BY DEF Chain, CInv, TypeOK
<1>4. Instructed(r) /\ StagedAt(s, r, job[s])
  BY <1>1, One DEF Chain, Instructed, StagedAt, Record
<1> HIDE DEF r
<1> QED BY <1>2, <1>3, <1>4, UpdateSession DEF Chain

LEMMA InstructStep ==
  ASSUME CInv, NEW s \in Session, Instruct(s)  PROVE CInv'
<1> DEFINE r == [session[s] EXCEPT !.phase = "readback", !.spoken = session[s].plan]
<1>1. r \in Record
  BY One DEF Record
<1>2. session' = [session EXCEPT ![s] = r]
  BY DEF Instruct, CInv, TypeOK
<1>3. Instructed(r) /\ StagedAt(s, r, job[s])
  BY One DEF Instruct, Instructed, StagedAt, Record
<1> HIDE DEF r
<1> QED BY <1>1, <1>2, <1>3, UpdateSession DEF Instruct

LEMMA ReadBackStep ==
  ASSUME CInv, NEW s \in Session, NEW u \in Utterance, ReadBack(s, u)  PROVE CInv'
<1> DEFINE over == \/ CheckReadback(u, Required(session[s].plan))
                   \/ session[s].attempts + 1 >= MAX_READBACK_ATTEMPTS
           phase == IF over THEN "confirmed" ELSE "readback"
           spoken == IF over THEN session[s].spoken ELSE session[s].plan
           attempts == IF over THEN 0 ELSE session[s].attempts + 1
           r == [session[s] EXCEPT !.phase = phase, !.spoken = spoken, !.attempts = attempts]
<1>1. session[s].attempts \in 0..2
  BY One DEF Record, MAX_READBACK_ATTEMPTS
<1>2. session' = [session EXCEPT ![s] = r]
  BY DEF ReadBack, CInv, TypeOK
<1>3. /\ phase \in {"readback", "confirmed"}
      /\ spoken \in {session[s].spoken, session[s].plan}
      /\ attempts \in 0..2
  BY <1>1 DEF MAX_READBACK_ATTEMPTS
<1> HIDE DEF over, phase, spoken, attempts
<1>4. r \in Record
  <2>1. session[s] \in Record
    BY One
  <2>2. spoken \in Plan /\ attempts \in 0..MAX_READBACK_ATTEMPTS - 1
    BY <1>3, <2>1 DEF Record, MAX_READBACK_ATTEMPTS
  <2> QED BY <1>3, <2>1, <2>2 DEF Record
<1>5. Instructed(r) /\ StagedAt(s, r, job[s])
  BY <1>3, One DEF ReadBack, Instructed, StagedAt, Record
<1> HIDE DEF r
<1> QED BY <1>2, <1>4, <1>5, UpdateSession DEF ReadBack

LEMMA DeleteStep ==
  ASSUME CInv, NEW s \in Session, Delete(s)  PROVE CInv'
<1> DEFINE r == IF job[s].at = "found" THEN [session[s] EXCEPT !.live = FALSE]
                ELSE [Unborn EXCEPT !.phase = "gone"]
<1>1. r \in Record
  <2>1. session[s] \in Record
    BY One
  <2>2. [session[s] EXCEPT !.live = FALSE] \in Record
    BY <2>1 DEF Record
  <2>3. [Unborn EXCEPT !.phase = "gone"] \in Record
    <3>1. 0 \in 0..MAX_READBACK_ATTEMPTS - 1
      BY DEF MAX_READBACK_ATTEMPTS
    <3>2. Unborn \in Record
      BY <3>1 DEF Record, Unborn, Plan
    <3> QED BY <3>2 DEF Record
  <2> QED BY <2>2, <2>3
<1>2. session' = [session EXCEPT ![s] = r]
  BY DEF Delete
<1>3. Instructed(r)
  BY One DEF Instructed, Unborn, Record
<1>4. StagedAt(s, r, job[s])
  BY One DEF Delete, StagedAt, Unborn, Record
<1> HIDE DEF r
<1> QED BY <1>1, <1>2, <1>3, <1>4, UpdateSession DEF Delete

LEMMA EditMapStep == CInv /\ EditMap => CInv'
<1> SUFFICES ASSUME CInv, EditMap PROVE CInv'
  OBVIOUS
<1>1. /\ version \in 1..MaxVersion /\ version < MaxVersion /\ version' = version + 1
      /\ MaxVersion \in Nat /\ now \in Nat /\ cache_ttl_seconds \in Nat
  BY ClearanceAssumption DEF CInv, TypeOK, EditMap
<1>2. /\ \A v \in 1..MaxVersion : superseded'[v] = IF v = version THEN now ELSE superseded[v]
      /\ superseded' \in [1..MaxVersion -> (0..now) \cup {None}]
  BY <1>1 DEF EditMap, CInv, TypeOK
<1>3. \A v \in 1..MaxVersion, t \in Int : t <= now /\ StandsAt(v, t) => StandsAt(v, t)'
  BY <1>1, <1>2 DEF StandsAt
<1>4. TypeOK'
  <2>1. Job \subseteq Job'
    BY <1>1 DEF Job, EditMap
  <2>2. version' \in 1..MaxVersion
    BY <1>1
  <2>3. cache' \in ([stamp : 0..now, version : 1..version] \cup {None})'
    BY <1>1 DEF CInv, TypeOK, EditMap
  <2> QED BY <1>2, <2>1, <2>2, <2>3 DEF CInv, TypeOK, EditMap, Record, Plan
<1>5. Fresh'
  <2>1. \A v \in version'..MaxVersion : superseded'[v] = None
    BY <1>1, <1>2 DEF CInv, Fresh
  <2>2. FreshCache'
    <3> SUFFICES ASSUME cache # None PROVE StandsAt(cache.version, cache.stamp)'
      BY DEF FreshCache, EditMap, StandsAt
    <3>1. cache.version \in 1..version /\ cache.stamp \in 0..now
          /\ StandsAt(cache.version, cache.stamp)
      BY DEF CInv, TypeOK, Fresh, FreshCache
    <3> QED BY <1>1, <1>3, <3>1 DEF EditMap, StandsAt
  <2>3. ASSUME NEW s \in Session PROVE FreshJob(job[s])'
    <3>1. job[s] \in Job /\ FreshJob(job[s])
      BY One
    <3>2. CASE job[s].at = "sent"
      <4>1. \A v \in job[s].version..version + 1 : StandsAt(v, job[s].stamp)'
        <5> SUFFICES ASSUME NEW v \in job[s].version..version + 1
                     PROVE  superseded'[v] = None \/ superseded'[v] >= job[s].stamp
          BY DEF StandsAt, EditMap
        <5>1. CASE v = version + 1
          BY <1>1, <2>1, <5>1
        <5>2. CASE v # version + 1
          <6>1. v \in 1..version /\ v \in job[s].version..version
            BY <1>1, <3>1, <3>2, <5>2 DEF Job, FreshJob
          <6> QED BY <1>1, <1>2, <3>1, <3>2, <6>1 DEF Job, FreshJob, StandsAt
        <5> QED BY <5>1, <5>2
      <4> QED BY <1>1, <3>1, <3>2, <4>1 DEF FreshJob, EditMap
    <3>3. CASE job[s].at = "have"
      <4>1. job[s].version \in 1..version /\ job[s].asked \in 0..now
            /\ StandsAt(job[s].version, job[s].asked - cache_ttl_seconds)
        BY <1>1, <3>1, <3>3 DEF Job, FreshJob
      <4>2. superseded'[job[s].version] = None
            \/ superseded'[job[s].version] >= job[s].asked - cache_ttl_seconds
        BY <1>1, <1>2, <4>1 DEF StandsAt
      <4> QED BY <3>3, <4>1, <4>2 DEF FreshJob, StandsAt, EditMap
    <3>4. CASE job[s].at \notin {"sent", "have"}
      BY <3>4 DEF FreshJob, EditMap
    <3> QED BY <3>2, <3>3, <3>4
  <2> QED BY <2>1, <2>2, <2>3 DEF Fresh
<1>6. Staged'
  BY DEF CInv, Staged, EditMap, StagedAt
<1> QED BY <1>4, <1>5, <1>6 DEF CInv

LEMMA PassTimeStep == CInv /\ PassTime => CInv'
<1> SUFFICES ASSUME CInv, PassTime PROVE CInv'
  OBVIOUS
<1>1. now \in 0..MaxTime /\ now' = now + 1 /\ now' \in 0..MaxTime /\ MaxTime \in Nat
      /\ 0..now \subseteq 0..(now + 1)
  BY ClearanceAssumption DEF CInv, TypeOK, PassTime
<1>2. TypeOK'
  <2>1. Job \subseteq Job'
    BY <1>1 DEF Job, PassTime
  <2> QED BY <1>1, <2>1 DEF CInv, TypeOK, PassTime, Record, Plan
<1>3. Fresh' /\ Staged'
  BY DEF CInv, PassTime, Fresh, FreshCache, FreshJob, StandsAt, Staged, StagedAt
<1> QED BY <1>2, <1>3 DEF CInv

LEMMA NextCInv == CInv /\ [Next]_vars => CInv'
<1> SUFFICES ASSUME CInv, [Next]_vars PROVE CInv'
  OBVIOUS
<1>1. ASSUME NEW s \in Session, Work(s) PROVE CInv'
  BY <1>1, BeginStep, FetchStep, AnswerStep, FailStep, ConcludeDrillStep, RefetchStep, SaveStep
  DEF Work
<1>2. CASE UNCHANGED vars
  BY <1>2 DEF vars, CInv, TypeOK, Record, Job, Plan, Fresh, FreshCache, FreshJob, StandsAt,
              Staged, StagedAt
<1> QED
  BY <1>1, <1>2, CreateDrillStep, CreateDepartureStep, ChainStep, InstructStep, ReadBackStep,
     DeleteStep, EditMapStep, PassTimeStep DEF Next

----------------------------------------------------------------------------
\* In every reachable state the records are well-formed, no answer in use or in the
\* cache is older than it passes for, and a drill is graded only once its route is
\* settled.
THEOREM Invariance == Spec => []CInv
BY InitCInv, NextCInv, PTL DEF Spec

\* From the taxi flow on a session has a route to speak of, the default or one worked
\* out from a version of the map that was there, whatever the order of the steps.
THEOREM TypeCorrect == Spec => []TypeOK
BY Invariance, PTL DEF CInv

\* OverpassClient: for every TTL, however slow the queries and in whatever order their
\* answers fill the cache, a route is never worked out from a map that was replaced
\* longer than the TTL before the request asked.
THEOREM Freshness == Spec => []ServedFresh
<1>1. CInv => ServedFresh
  BY DEF CInv, Fresh, FreshJob, ServedFresh, StandsAt
<1> QED BY <1>1, Invariance, PTL

\* create_session has the route before it creates a drill: what the readback is graded
\* against is what ATC said, whatever pilots say and however often.
THEOREM GradedAsSpoken == Spec => []DrillGradedAsSpoken
<1>1. CInv => DrillGradedAsSpoken
  BY ClearanceAssumption DEF CInv, Staged, StagedAt, DrillGradedAsSpoken
<1> QED BY <1>1, Invariance, PTL

LEMMA KeptByWork ==
  ASSUME CInv, NEW s \in Session, Work(s), NEW t \in Session,
         session[t].plan \notin {None, 0}
  PROVE  session'[t].plan \notin {None, 0}
<1>0. session \in [Session -> Record] /\ session[s] \in Record /\ StagedAt(s, session[s], job[s])
  BY One DEF CInv, TypeOK
<1>1. CASE UNCHANGED session
  BY <1>1
<1>2. CASE ConcludeDrill(s)
  <2>1. session[s].plan = None
    BY <1>0, <1>2 DEF ConcludeDrill, StagedAt
  <2> QED BY <1>0, <1>2, <2>1 DEF ConcludeDrill
<1>3. CASE Refetch(s)
  <2>1. PICK plan \in Computed(s) :
          \/ UNCHANGED session
          \/ plan # None /\ session' = [session EXCEPT ![s].plan = plan]
    BY <1>3 DEF Refetch
  <2>2. plan # 0
    BY <1>3, ComputedPlan DEF Refetch
  <2> QED BY <1>0, <2>1, <2>2 DEF Record
<1>4. CASE Save(s)
  BY <1>0, <1>4 DEF Save
<1> QED BY <1>1, <1>2, <1>3, <1>4 DEF Work, Begin, Fetch, Answer, Fail

LEMMA KeptBySession ==
  ASSUME CInv, NEW s \in Session, NEW t \in Session,
         session[t].plan \notin {None, 0}, session'[t].phase # "gone",
         \/ CreateDrill(s)
         \/ CreateDeparture(s)
         \/ Chain(s)
         \/ Instruct(s)
         \/ \E u \in Utterance : ReadBack(s, u)
         \/ Delete(s)
  PROVE  session'[t].plan \notin {None, 0}
<1>1. session \in [Session -> Record] /\ session[s] \in Record
  BY One DEF CInv, TypeOK
<1>2. CASE CreateDrill(s)
  BY <1>1, <1>2 DEF CreateDrill
<1>3. CASE CreateDeparture(s)
  BY <1>1, <1>3 DEF CreateDeparture
<1>4. CASE Chain(s)
  BY <1>1, <1>4 DEF Chain, Record
<1>5. CASE Instruct(s)
  BY <1>1, <1>5 DEF Instruct
<1>6. CASE \E u \in Utterance : ReadBack(s, u)
  <2>1. PICK u \in Utterance : ReadBack(s, u)
    BY <1>6
  <2> DEFINE over == \/ CheckReadback(u, Required(session[s].plan))
                     \/ session[s].attempts + 1 >= MAX_READBACK_ATTEMPTS
             phase == IF over THEN "confirmed" ELSE "readback"
             spoken == IF over THEN session[s].spoken ELSE session[s].plan
             attempts == IF over THEN 0 ELSE session[s].attempts + 1
             r == [session[s] EXCEPT !.phase = phase, !.spoken = spoken, !.attempts = attempts]
  <2>2. session' = [session EXCEPT ![s] = r]
    BY <1>1, <2>1 DEF ReadBack
  <2> HIDE DEF over, phase, spoken, attempts
  <2>3. r.plan = session[s].plan
    BY <1>1 DEF Record
  <2> HIDE DEF r
  <2> QED BY <1>1, <2>2, <2>3
<1>7. CASE Delete(s)
  BY <1>1, <1>7 DEF Delete, Unborn, Record
<1> QED BY <1>2, <1>3, <1>4, <1>5, <1>6, <1>7

\* The background task, the chain into the taxi flow and the readback share the
\* session: none of them, in any order, puts the flow's default back over a route
\* that was worked out.
THEOREM RouteKept == Spec => ComputedRouteKept
<1>1. ASSUME CInv, [Next]_vars, NEW t \in Session,
             session[t].plan \notin {None, 0}, session'[t].phase # "gone"
      PROVE  session'[t].plan \notin {None, 0}
  <2>1. CASE UNCHANGED session
    BY <1>1, <2>1
  <2>2. CASE Next
    BY <1>1, <2>1, <2>2, KeptByWork, KeptBySession DEF Next, EditMap, PassTime
  <2> QED BY <1>1, <2>1, <2>2 DEF vars
<1>2. CInv /\ [Next]_vars
        => [\A s \in Session :
              session[s].plan \notin {None, 0} /\ session'[s].phase # "gone"
                => session'[s].plan \notin {None, 0}]_vars
  BY <1>1
<1> QED BY <1>2, Invariance, PTL DEF Spec, ComputedRouteKept

----------------------------------------------------------------------------
\* The clearance repeated

Word == Digit \cup Side \cup {"runway", "via", "route", "hold short"}

Said == Seq(Word)

LEMMA SpokenIsSaid ==
  ASSUME NEW r \in RunwayValues
  PROVE  Spoken(r) \in Said
<1>1. r.digits \in Seq(Digit) /\ r.side \in Side \cup {None}
  BY DEF RunwayValues
<1>2. r.digits \in Seq(Word)
  BY <1>1, SeqMonotonic DEF Word
<1>3. r.side # None => r.side \in Word
  BY <1>1 DEF Word
<1> QED BY <1>2, <1>3, AppendProperties DEF Spoken, Said

LEMMA SpokenMatches ==
  ASSUME NEW r \in RunwayValues, NEW u \in Said, NEW p, StandsIn(u, p, Spoken(r))
  PROVE  Matches(r, u)
<1>1. r # None /\ r.kind = "runway"
  BY RunwayAssumption DEF RunwayValues, Value
<1>2. Says(u, Spoken(r))
  BY SpokenIsSaid, StandsAsSubSeq DEF Says, Said
<1>3. Spoken(r) \in SpokenForms(r)
  BY <1>1 DEF Spoken, SpokenForms, NumberForms
<1> QED BY <1>1, <1>2, <1>3 DEF Matches

\* What was said before, and what is said now, after two more words.
LEMMA SaidOn ==
  ASSUME NEW u \in Said, NEW word \in Word, NEW form \in Said
  PROVE  LET w == u \o <<word>> \o form
         IN  /\ w \in Said
             /\ \E p : StandsIn(w, p, form)
             /\ \A other \in Said : (\E p : StandsIn(u, p, other)) => \E p : StandsIn(w, p, other)
<1> DEFINE mark == u \o <<word>>
           w == mark \o form
<1>1. <<word>> \in Seq(Word) /\ mark \in Seq(Word) /\ w \in Seq(Word)
  <2>1. <<word>> \in Seq(Word)
    OBVIOUS
  <2> QED BY <2>1, ConcatProperties DEF Said
<1>2. ASSUME NEW other \in Said, NEW p, StandsIn(u, p, other)
      PROVE  StandsIn(w, p, other)
  <2>1. StandsIn(mark, p, other)
    BY <1>1, <1>2, StandsBeforeMore DEF Said
  <2> HIDE DEF mark
  <2> QED BY <1>1, <2>1, StandsBeforeMore DEF Said
<1>3. StandsIn(w, Len(mark), form)
  BY <1>1, StandsAtEnd DEF Said
<1> HIDE DEF mark, w
<1>4. \E p : StandsIn(w, p, form)
  BY <1>3
<1>5. \A other \in Said : (\E p : StandsIn(u, p, other)) => \E p : StandsIn(w, p, other)
  BY <1>2
<1> QED BY <1>1, <1>4, <1>5 DEF w, mark, Said

\* The clearance names its runway and every runway to hold short of.
LEMMA VerbatimSays ==
  ASSUME NEW holds, NEW N \in Nat, holds \in [1..N -> RunwayValues]
  PROVE  /\ Verbatim(holds) \in Said
         /\ \E p : StandsIn(Verbatim(holds), p, Spoken(Runway))
         /\ \A i \in 1..N : \E p : StandsIn(Verbatim(holds), p, Spoken(holds[i]))
<1> DEFINE start == <<"runway">> \o Spoken(Runway) \o <<"via", "route">>
           next(k, w) == IF k \in 1..N THEN w \o <<"hold short">> \o Spoken(holds[k]) ELSE <<>>
           step == [x \in Nat \X Said |-> next(x[1], x[2])]
           Recursive(r) ==
             r = [k \in 0..N |-> IF k = 0 THEN start
                                 ELSE r[k - 1] \o <<"hold short">> \o Spoken(holds[k])]
           r == CHOOSE x : Recursive(x)
           Holds(w, form) == \E p : StandsIn(w, p, form)
<1>1. Len(holds) = N /\ \A k \in 1..N : holds[k] \in RunwayValues
  BY LenProperties
<1>2. Verbatim(holds) = r[N]
  BY <1>1 DEF Verbatim
<1>3. start \in Said /\ Holds(start, Spoken(Runway))
  <2>0. "runway" \in Word /\ "via" \in Word /\ "route" \in Word
    BY DEF Word
  <2>1. Spoken(Runway) \in Seq(Word) /\ <<"runway">> \in Seq(Word) /\ <<"via", "route">> \in Seq(Word)
    BY <2>0, SpokenIsSaid, RunwayAssumption DEF Said
  <2> DEFINE front == <<"runway">> \o Spoken(Runway)
  <2>2. front \in Seq(Word) /\ StandsIn(front, Len(<<"runway">>), Spoken(Runway))
    BY <2>1, ConcatProperties, StandsAtEnd
  <2> HIDE DEF front
  <2>3. /\ front \o <<"via", "route">> \in Seq(Word)
        /\ StandsIn(front \o <<"via", "route">>, Len(<<"runway">>), Spoken(Runway))
    BY <2>1, <2>2, ConcatProperties, StandsBeforeMore
  <2> QED BY <2>3 DEF front, Said
<1>4. \A k \in Nat, w \in Said : next(k, w) \in Said
  <2> TAKE k \in Nat, w \in Said
  <2>1. ASSUME k \in 1..N PROVE w \o <<"hold short">> \o Spoken(holds[k]) \in Said
    <3>1. "hold short" \in Word /\ Spoken(holds[k]) \in Said
      BY <1>1, <2>1, SpokenIsSaid DEF Word
    <3> QED BY <3>1, SaidOn
  <2>2. <<>> \in Said
    BY DEF Said
  <2> QED BY <2>1, <2>2
<1> HIDE DEF next, start
<1>5. step \in [Nat \X Said -> Said] /\ \A k \in Nat, w \in Said : step[<<k, w>>] = next(k, w)
  BY <1>4
<1> HIDE DEF step, Holds
<1>6. PICK f : Follows(f, N, Said, start, step)
  BY <1>3, <1>5, HistoryOfLength, Zenon
<1>7. \A k \in 0..N : f[k] = IF k = 0 THEN start
                             ELSE f[k - 1] \o <<"hold short">> \o Spoken(holds[k])
  <2> TAKE k \in 0..N
  <2>1. CASE k = 0
    BY <1>6, <2>1 DEF Follows
  <2>2. CASE k # 0
    <3>1. k \in 1..N /\ k \in Nat /\ k - 1 \in 0..N
      BY <2>2
    <3>2. f[k] = step[<<k, f[k - 1]>>] /\ f[k - 1] \in Said
      BY <1>6, <3>1 DEF Follows
    <3>3. f[k] = next(k, f[k - 1])
      BY <1>5, <3>1, <3>2
    <3> QED BY <2>2, <3>1, <3>3 DEF next
  <2> QED BY <2>1, <2>2
<1>8. f = [k \in 0..N |-> f[k]]
  BY <1>6 DEF Follows
<1>9. Recursive(f)
  BY <1>7, <1>8, Zenon
<1>10. Recursive(r)
  <2> HIDE DEF Recursive
  <2> QED BY <1>9
<1> HIDE DEF r
<1>11. r[0] = start
  <2>1. 0 \in 0..N
    OBVIOUS
  <2> QED BY <1>10, <2>1
<1>12. ASSUME NEW k \in 0..N, k < N
       PROVE  k + 1 \in 1..N /\ r[k + 1] = r[k] \o <<"hold short">> \o Spoken(holds[k + 1])
  <2>1. k + 1 \in 0..N /\ k + 1 \in 1..N /\ k + 1 # 0 /\ (k + 1) - 1 = k
    BY <1>12
  <2> QED BY <1>10, <2>1
<1> HIDE DEF Recursive
<1> DEFINE P == {k \in 0..N : /\ r[k] \in Said
                              /\ Holds(r[k], Spoken(Runway))
                              /\ \A i \in 1..k : Holds(r[k], Spoken(holds[i]))}
<1>13. 0 \in P
  BY <1>3, <1>11
<1>14. ASSUME NEW k \in 0..N, k \in P, k < N PROVE k + 1 \in P
  <2>1. k + 1 \in 1..N /\ k + 1 \in 0..N /\ k \in Nat
    <3> HIDE DEF P
    <3> QED BY <1>14
  <2>2. Spoken(holds[k + 1]) \in Said /\ Spoken(Runway) \in Said /\ "hold short" \in Word
    BY <1>1, <2>1, SpokenIsSaid, RunwayAssumption DEF Word
  <2>3. /\ r[k + 1] \in Said
        /\ Holds(r[k + 1], Spoken(holds[k + 1]))
        /\ \A other \in Said : Holds(r[k], other) => Holds(r[k + 1], other)
    <3> DEFINE w == r[k]
               form == Spoken(holds[k + 1])
    <3>1. w \in Said /\ r[k + 1] = w \o <<"hold short">> \o form
      BY <1>12, <1>14
    <3>2. form \in Said /\ "hold short" \in Word
      BY <2>2
    <3> HIDE DEF w, form
    <3>3. /\ r[k + 1] \in Said
          /\ Holds(r[k + 1], form)
          /\ \A other \in Said : Holds(w, other) => Holds(r[k + 1], other)
      BY <3>1, <3>2, SaidOn DEF Holds
    <3> QED BY <3>3 DEF w, form
  <2>4. \A i \in 1..k : Spoken(holds[i]) \in Said
    BY <1>1, <2>1, SpokenIsSaid
  <2>5. \A i \in 1..k + 1 : i \in 1..k \/ i = k + 1
    BY <2>1
  <2> QED BY <1>14, <2>1, <2>2, <2>3, <2>4, <2>5
<1>15. \A k \in 0..N : k \in P
  <2> HIDE DEF P
  <2> QED BY <1>13, <1>14, UpTo
<1>16. N \in 0..N
  OBVIOUS
<1> QED BY <1>2, <1>15, <1>16 DEF Holds

LEMMA VerbatimPasses ==
  ASSUME NEW plan \in DOMAIN Hold, NEW holds \in Orders(Hold[plan])
  PROVE  CheckReadback(Verbatim(holds), Required(plan))
<1> DEFINE N == Cardinality(Hold[plan])
           u == Verbatim(holds)
<1>1. N \in Nat /\ Hold[plan] \subseteq RunwayValues /\ Runway \in RunwayValues
  BY RunwayAssumption, FS_CardinalityType
<1>2. holds \in [1..N -> Hold[plan]] /\ Hold[plan] \subseteq ToSet(holds)
  BY DEF Orders
<1> HIDE DEF N
<1>3. holds \in [1..N -> RunwayValues]
  BY <1>1, <1>2
<1>4. /\ u \in Said
      /\ \E p : StandsIn(u, p, Spoken(Runway))
      /\ \A i \in 1..N : \E p : StandsIn(u, p, Spoken(holds[i]))
  BY <1>1, <1>3, VerbatimSays
<1> HIDE DEF u
<1>5. Matches(Runway, u)
  BY <1>1, <1>4, SpokenMatches
<1>6. ASSUME NEW r \in Hold[plan] PROVE Matches(r, u)
  <2>1. PICK i \in 1..N : r = holds[i]
    BY <1>2 DEF ToSet
  <2> QED BY <1>1, <1>4, <2>1, SpokenMatches
<1>7. CheckReadback(u, Required(plan))
  BY <1>5, <1>6 DEF CheckReadback, Required
<1> QED BY <1>7 DEF u

\* say_template, readback_required and the evaluator fit together, for every runway
\* and whatever the route crosses: who repeats the clearance, the runways to hold short
\* of in any order, is confirmed at once unless the route has changed since.
THEOREM RepeatedIsConfirmed == Spec => VerbatimConfirmed
<1> DEFINE A == heard' # None =>
                  LET record == session[heard'.session]
                      clearances == {Verbatim(holds) : holds \in Orders(Hold[record.spoken])}
                  IN  record.plan = record.spoken /\ heard'.said \in clearances => heard'.passed
<1>1. ASSUME CInv, Next PROVE A
  <2>1. CASE heard' = None
    BY <2>1
  <2>2. ASSUME NEW s \in Session, NEW u \in Utterance, ReadBack(s, u) PROVE A
    <3>1. /\ session[s].phase = "readback"
          /\ heard' = [session |-> s, said |-> u,
                       passed |-> CheckReadback(u, Required(session[s].plan))]
      BY <2>2 DEF ReadBack
    <3>2. session[s].plan \in DOMAIN Hold
      BY <1>1, <3>1, One DEF Instructed, Record, Plan
    <3>3. SUFFICES ASSUME session[s].plan = session[s].spoken,
                          u \in {Verbatim(holds) : holds \in Orders(Hold[session[s].plan])}
                   PROVE  CheckReadback(u, Required(session[s].plan))
      BY <3>1
    <3>4. PICK holds \in Orders(Hold[session[s].plan]) : u = Verbatim(holds)
      BY <3>3
    <3> QED BY <3>2, <3>4, VerbatimPasses
  <2> QED
    BY <1>1, <2>1, <2>2 DEF Next, Work, CreateDrill, CreateDeparture, Begin, Fetch, Answer, Fail,
       ConcludeDrill, Refetch, Save, Chain, Instruct, Delete, EditMap, PassTime
<1>2. CInv /\ [Next]_vars => [A]_vars
  BY <1>1
<1> QED BY <1>2, Invariance, PTL DEF Spec, VerbatimConfirmed
============================================================================
