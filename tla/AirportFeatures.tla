-------------------------- MODULE AirportFeatures --------------------------
(***************************************************************************)
(* The named places of an airport, as app/airport_geocode.py finds them in *)
(* OpenStreetMap answers: stands, gates, runways. A name is a sequence of  *)
(* words and a word the tuple of its characters, normalised; that of a     *)
(* query is what _analyze_query leaves of it. A feature has its aliases in *)
(* the code's order, its centre, and of a runway mapped as a way the two   *)
(* ends. Coordinates are integers <<east, north>> and the distance is that *)
(* of the grid.                                                            *)
(***************************************************************************)
EXTENDS Integers, Sequences, SequencesExt, FiniteSets, FiniteSetsExt

CONSTANTS
  None,
  Heading   \* the unit vector of every runway designator

Point == Int \X Int

Abs(n) == IF n < 0 THEN -n ELSE n

Distance(p, q) == Abs(p[1] - q[1]) + Abs(p[2] - q[2])

Vector(p, q) == <<q[1] - p[1], q[2] - p[2]>>

\* Not positive: the angle between the two is at least 90 degrees.
Dot(v, w) == v[1] * w[1] + v[2] * w[2]

\* The elements x of S with the least cost(x); the code takes the first of them,
\* in an order that is Overpass's.
Cheapest(S, cost(_)) == {x \in S : \A y \in S : cost(x) <= cost(y)}

----------------------------------------------------------------------------
\* Names

Digit == {"0", "1", "2", "3", "4", "5", "6", "7", "8", "9"}

KindWord == {<<"R","U","N","W","A","Y">>, <<"R","W","Y">>, <<"G","A","T","E">>, <<"S","T","A","N","D">>}

Joined(name) == FlattenSeq(name)

\* normalize_with_prefixes: the whole name, the name without the word for its kind,
\* and its last word.
Variants(name) ==
  {Joined(name), Last(name)}
    \cup (IF Len(name) > 1 /\ Head(name) \in KindWord THEN {Joined(Tail(name))} ELSE {})

\* Exactly the same place for match_feature_by_name.
SameName(name, other) == Variants(name) \cap Variants(other) # {}

\* normalized_aliases: what a feature may be called; the first alias with a variant
\* stands for it.
Keys(f) == UNION {Variants(f.aliases[i]) : i \in DOMAIN f.aliases}

AliasOf(f, key) == f.aliases[Min({i \in DOMAIN f.aliases : key \in Variants(f.aliases[i])})]

Occurs(word, other) ==
  \E i \in 1..Len(other) : i + Len(word) - 1 <= Len(other)
                           /\ SubSeq(other, i, i + Len(word) - 1) = word

\* 7, 07, 25R and A12 all end like a runway's designator.
EndsLikeRunway(word) ==
  \/ Last(word) \in Digit
  \/ /\ Len(word) > 1
     /\ Last(word) \in {"L", "R", "C"}
     /\ word[Len(word) - 1] \in Digit

RunwayBias(name) == name[1][1] \in Digit \/ \E i \in DOMAIN name : EndsLikeRunway(name[i])

EXACT == 1000
PART == 700

\* What a feature scores for the query q, asked for as said, before the tier.
Bias(f, said, q) ==
  (IF ~RunwayBias(q.name) THEN 0 ELSE IF f.kind = "runway" THEN 20 ELSE -10)
  + (IF f.kind = "runway" /\ said[1] \in Digit THEN 10 ELSE 0)
  + (IF f.kind \in {"stand", "gate"} THEN 2 ELSE 0)
  + (IF q.prefer = "stand" /\ f.kind \in {"stand", "gate"} THEN 50
     ELSE IF q.prefer = "runway" /\ f.kind = "runway" THEN 50 ELSE 0)

\* A slip: one tier for exact and partial hits.
ScoreOneTier(h, q) == PART + Bias(h.feature, h.said, q)

Score(h, q) == (IF h.key = h.said THEN EXACT ELSE PART) + Bias(h.feature, h.said, q)

\* Every way to say the query against every key of every feature.
Hits(features, q) ==
  {h \in [feature : features, key : UNION {Keys(f) : f \in features}, said : Variants(q.name)] :
     /\ h.key \in Keys(h.feature)
     /\ h.key = h.said \/ Occurs(h.key, h.said) \/ Occurs(h.said, h.key)}

\* A match has no ends of a runway yet.
MatchByName(features, q) ==
  LET cost(h) == -Score(h, q)
  IN  {[feature |-> h.feature, alias |-> AliasOf(h.feature, h.key), ends |-> None] :
         h \in Cheapest(Hits(features, q), cost)}

MatchByCoordinate(features, p) ==
  LET cost(f) == Distance(p, f.at)
  IN  {[feature |-> f, alias |-> f.aliases[1], ends |-> None] : f \in Cheapest(features, cost)}

\* The matches the code may return; none when there is no match.
ResolveFeature(features, q) ==
  LET byName == IF q.name = None THEN {} ELSE MatchByName(features, q)
  IN  IF byName # {} THEN byName
      ELSE IF q.at # None THEN MatchByCoordinate(features, q.at)
      ELSE {}

----------------------------------------------------------------------------
\* Runway ends

\* A slip: the order of the way's nodes is taken for that of the designator.
ThresholdsAsDrawn(alias, ends) == ends

\* The way's two ends in the order of its nodes, turned round when that order runs
\* against the matched designator.
Thresholds(alias, ends) ==
  IF Joined(alias) \in DOMAIN Heading /\ Dot(Vector(ends[1], ends[2]), Heading[Joined(alias)]) < 0
  THEN Reverse(ends) ELSE ends

\* Only for a way the ends are asked for.
AsksForEnds(m, point) == m.feature.kind = "runway" /\ m.feature.way # None /\ point # "center"

\* What the match may become: the answer holds the way's nodes, or the match stays
\* at the centre.
ApplyRunwayPoint(m, point) ==
  {m} \cup
  (IF AsksForEnds(m, point)
   THEN {[m EXCEPT !.ends = m.feature.way,
                   !.feature.at = Thresholds(m.alias, m.feature.way)[IF point = "start" THEN 1 ELSE 2]]}
   ELSE {})

----------------------------------------------------------------------------
\* _resolve_endpoint: what a query may resolve to, none when its name is unknown.
\* Coordinates win over the feature's; the feature then only tells a runway.
ResolveEndpoint(features, q) ==
  LET matched == UNION {ApplyRunwayPoint(m, q.point) : m \in ResolveFeature(features, q)}
  IN  IF q.at = None
      THEN {[at |-> m.feature.at, match |-> m] : m \in matched}
      ELSE IF q.name # None /\ matched # {}
      THEN {[at |-> q.at, match |-> m] : m \in matched}
      ELSE {[at |-> q.at, match |-> None]}

\* Whether that takes a query of its own, which may fail.
MayAskForEnds(features, q) ==
  q.name # None /\ \E m \in ResolveFeature(features, q) : AsksForEnds(m, q.point)

\* The designators of the runway a taxi route ends at or comes from.
RunwayNames(endpoint) ==
  IF endpoint.match = None \/ endpoint.match.feature.kind # "runway" THEN {}
  ELSE {a[1] : a \in {b \in ToSet(endpoint.match.feature.aliases) : Len(b) = 1}}
============================================================================
