----------------------------- MODULE TaxiGraph -----------------------------
(***************************************************************************)
(* The taxiway graph of app/taxi_routing.py and what is computed from it:  *)
(* attachment of both endpoints, the names of a route and the runways it   *)
(* crosses. An answer is a set of ways; the order of its elements, which   *)
(* decides between equally good choices, is Overpass's.                    *)
(***************************************************************************)
EXTENDS AirportFeatures

CONSTANTS
  Position,                \* the coordinates of the nodes the answers hold
  Runway,                  \* the runways of the field: <<[designators, polyline]>>
  MAX_ATTACH_DISTANCE_M

\* A table of nodes as OpenStreetMap numbers them; the heap compares the numbers.
ASSUME PositionAssumption ==
  /\ IsFiniteSet(DOMAIN Position)
  /\ DOMAIN Position \subseteq Int
  /\ \A n \in DOMAIN Position : Position[n] \in Point

ASSUME AttachAssumption == MAX_ATTACH_DISTANCE_M \in Int

\* A runway has at least one designator, a number and what follows it, and at least
\* two points.
ASSUME RunwayAssumption ==
  /\ Runway \in Seq([designators : Seq(DOMAIN Heading) \ {<<>>}, polyline : Seq(Point)])
  /\ \A k \in DOMAIN Runway : Len(Runway[k].polyline) >= 2
  /\ \A d \in DOMAIN Heading : Heading[d] \in Point

CONNECTOR_PENALTY == 5

Connectors == {"parking_position", "holding_position", "apron"}

Routable(way, connectors) ==
  way.aeroway \in {"taxiway"} \cup (IF connectors THEN Connectors ELSE {})

\* Consecutive nodes of the way whose coordinates are both known.
Legs(way) ==
  {<<way.nodes[i], way.nodes[i + 1]>> : i \in
     {j \in 1..Len(way.nodes) - 1 : {way.nodes[j], way.nodes[j + 1]} \subseteq DOMAIN Position}}

EdgeOf(way, u, v) ==
  [from |-> u, to |-> v, name |-> way.name,
   weight |-> Distance(Position[u], Position[v])
              * (IF way.aeroway = "taxiway" THEN 1 ELSE CONNECTOR_PENALTY)]

\* Ways are walked both ways.
ParseTaxiwayGraph(answer, connectors) ==
  LET legs == UNION {{<<way, leg>> : leg \in Legs(way)} :
                       way \in {w \in answer : Routable(w, connectors)}}
      edges == {EdgeOf(l[1], l[2][1], l[2][2]) : l \in legs}
                 \cup {EdgeOf(l[1], l[2][2], l[2][1]) : l \in legs}
  IN  [nodes |-> {e.from : e \in edges}, edges |-> edges]

----------------------------------------------------------------------------
\* Attachment

Beside(g, u) == {u} \cup {e.to : e \in {f \in g.edges : f.from = u}}

\* What a search from u reaches.
Component(g, u) ==
  LET reached[k \in Nat] ==
        IF k = 0 THEN {u} ELSE UNION {Beside(g, v) : v \in reached[k - 1]}
  IN  reached[Cardinality(g.nodes)]

ConnectedComponents(g) == {Component(g, u) : u \in g.nodes}

NearestNodes(nodes, p) ==
  LET cost(n) == Distance(p, Position[n]) IN Cheapest(nodes, cost)

\* A slip: each endpoint on its nearest node, whatever part of the graph that is.
AttachNearest(g, parts, origin, dest) ==
  NearestNodes(g.nodes, origin) \X NearestNodes(g.nodes, dest)

\* Both endpoints on the component that serves both at the least total distance;
\* when none does, each on its nearest node.
AttachEndpoints(g, parts, origin, dest) ==
  LET near(n, p) == Distance(p, Position[n]) <= MAX_ATTACH_DISTANCE_M
      serving == UNION {{pair \in NearestNodes(c, origin) \X NearestNodes(c, dest) :
                           near(pair[1], origin) /\ near(pair[2], dest)} : c \in parts}
      cost(pair) == Distance(origin, Position[pair[1]]) + Distance(dest, Position[pair[2]])
  IN  IF serving # {} THEN Cheapest(serving, cost)
      ELSE NearestNodes(g.nodes, origin) \X NearestNodes(g.nodes, dest)

----------------------------------------------------------------------------
\* Names. A taxiway name is [letters, digits]; None where the way has no name.

\* The names the route's steps may have: one of each pair's edges gives it.
StepNames(g, path) ==
  LET name(i) == {e.name : e \in {f \in g.edges : f.from = path[i] /\ f.to = path[i + 1]}}
  IN  {names \in [1..Len(path) - 1 -> UNION {name(i) : i \in 1..Len(path) - 1}] :
         \A i \in 1..Len(path) - 1 : names[i] \in name(i)}

\* The elements of s that are kept, appended one after the other.
Pick(s, kept) ==
  LET upTo[k \in 0..Len(s)] ==
        IF k = 0 THEN <<>>
        ELSE IF kept[k] THEN Append(upTo[k - 1], s[k]) ELSE upTo[k - 1]
  IN  upTo[Len(s)]

\* The first occurrence of every element.
Distinct(s) == Pick(s, [i \in DOMAIN s |-> \A k \in 1..i - 1 : s[k] # s[i]])

\* Names said, without those that repeat the one said before.
Repeats(steps, i) ==
  \E j \in 1..i - 1 : steps[j] = steps[i] /\ \A k \in j + 1..i - 1 : steps[k] = None

PathNames(steps) ==
  Pick(steps, [i \in DOMAIN steps |-> steps[i] # None /\ ~Repeats(steps, i)])

\* A slip: the letters alone decide.
SameLettered(m, n) == m.letters # None /\ m.letters = n.letters

SameNumbered(m, n) ==
  m.letters # None /\ m.letters = n.letters /\ m.digits # None /\ n.digits # None

\* L7, L8 is spoken L7: comparing with the last name kept is comparing with the
\* one before, which is like it when it was dropped.
Alike(m, n) == m = n \/ SameNumbered(m, n)

CollapseTaxiwayNames(names) ==
  Pick(names, [i \in DOMAIN names |-> i = 1 \/ ~Alike(names[i - 1], names[i])])

----------------------------------------------------------------------------
\* Runway crossings

\* Positive when c lies to the left of the line from a to b.
Orientation(a, b, c) == (b[1] - a[1]) * (c[2] - b[2]) - (b[2] - a[2]) * (c[1] - b[1])

\* A slip: a point on the line counts as being on neither side.
SegmentsCrossOpen(p1, p2, p3, p4) ==
  /\ Orientation(p3, p4, p1) * Orientation(p3, p4, p2) < 0
  /\ Orientation(p1, p2, p3) * Orientation(p1, p2, p4) < 0

\* Half open: a point on the line counts as being on its right.
SegmentsCross(p1, p2, p3, p4) ==
  /\ (Orientation(p3, p4, p1) > 0) # (Orientation(p3, p4, p2) > 0)
  /\ (Orientation(p1, p2, p3) > 0) # (Orientation(p1, p2, p4) > 0)

\* The intersection point as a vector from p1, times the denominator.
Intersection(p1, p2, p3, p4) ==
  LET r == Vector(p1, p2)
      s == Vector(p3, p4)
      denominator == r[1] * s[2] - r[2] * s[1]
      t == (p3[1] - p1[1]) * s[2] - (p3[2] - p1[2]) * s[1]
  IN  [times |-> denominator, at |-> <<t * r[1], t * r[2]>>]

\* The distance from the intersection to p, times the denominator.
ScaledDistance(x, p1, p) ==
  Distance(x.at, <<x.times * (p[1] - p1[1]), x.times * (p[2] - p1[2])>>)

\* A slip: the designators are taken to be in the order of the way's nodes.
AnnouncedAsListed(runway, x, p1) ==
  runway.designators[
    IF ScaledDistance(x, p1, runway.polyline[1]) <= ScaledDistance(x, p1, Last(runway.polyline))
    THEN 1 ELSE Len(runway.designators)]

\* The end whose heading fits the direction of the way is the one at its first
\* node; the end nearer to the crossing is named.
AnnouncedDesignator(runway, x, p1) ==
  LET line == runway.polyline
      names == runway.designators
      along == Vector(line[1], Last(line))
      cost(i) == -Dot(Heading[names[i]], along)
      start == CHOOSE i \in Cheapest(DOMAIN names, cost) : TRUE
      others == DOMAIN names \ {start}
  IN  IF others = {} \/ ScaledDistance(x, p1, line[1]) <= ScaledDistance(x, p1, Last(line))
      THEN names[start]
      ELSE names[CHOOSE i \in others : TRUE]

\* The designator announced on the step from a to b, nothing when it does not
\* cross; the first piece of the runway that is hit decides.
Announced(a, b, runway) ==
  LET line == runway.polyline
      pieces == {j \in 1..Len(line) - 1 : SegmentsCross(a, b, line[j], line[j + 1])}
      j == Min(pieces)
  IN  IF pieces = {} THEN <<>>
      ELSE <<AnnouncedDesignator(runway, Intersection(a, b, line[j], line[j + 1]), a)>>

\* What is said on step i of the path of runway k.
CrossingOn(path, exclude, i, k) ==
  IF ToSet(Runway[k].designators) \cap exclude # {} THEN <<>>
  ELSE Announced(Position[path[i]], Position[path[i + 1]], Runway[k])

\* Step by step, and on each step runway by runway.
DetectCrossings(path, exclude) ==
  LET R == Len(Runway)
      on == [v \in (1..Len(path) - 1) \X (1..R) |-> CrossingOn(path, exclude, v[1], v[2])]
      upTo[n \in 0..(Len(path) - 1) * R] ==
        IF n = 0 THEN <<>> ELSE upTo[n - 1] \o on[<<1 + ((n - 1) \div R), 1 + ((n - 1) % R)>>]
  IN  upTo[(Len(path) - 1) * R]
============================================================================
