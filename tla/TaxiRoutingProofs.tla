-------------------------- MODULE TaxiRoutingProofs --------------------------
(***************************************************************************)
(* Proofs about TaxiRouting, for every field, request and answer: what names*)
(* resolve to (ExactNameWins), the end of a runway that is one             *)
(* (ThresholdOfDesignator), what it means that there is no route           *)
(* (NoRouteOnlyWhereUnserved), that the search finds a cheapest one        *)
(* (ShortestRoute) and what is told of it: the taxiways (TaxiwaysSpoken) and*)
(* the runways crossed (EveryCrossingAnnounced, NearerEndAnnounced).       *)
(***************************************************************************)
EXTENDS TaxiRouting, SequenceTheorems, OrderLemmas

----------------------------------------------------------------------------
\* The graph

LEMMA DistanceIsNat ==
  ASSUME NEW p \in Point, NEW q \in Point
  PROVE  Distance(p, q) \in Nat
BY DEF Point, Distance, Abs

\* Every edge joins two of the nodes at no negative cost, and can be walked back.
WellFormed(g) ==
  /\ g.nodes \subseteq DOMAIN Position
  /\ \A e \in g.edges :
       /\ e.from \in g.nodes /\ e.to \in g.nodes
       /\ e.weight \in Nat
       /\ \E f \in g.edges : f.from = e.to /\ f.to = e.from

LEMMA ParsedIsWellFormed ==
  ASSUME NEW ways, NEW connectors
  PROVE  WellFormed(ParseTaxiwayGraph(ways, connectors))
<1> DEFINE legs == UNION {{<<way, leg>> : leg \in Legs(way)} :
                            way \in {w \in ways : Routable(w, connectors)}}
           there == {EdgeOf(l[1], l[2][1], l[2][2]) : l \in legs}
           back == {EdgeOf(l[1], l[2][2], l[2][1]) : l \in legs}
           edges == there \cup back
<1>1. ASSUME NEW way, NEW leg \in Legs(way)
      PROVE  leg[1] \in DOMAIN Position /\ leg[2] \in DOMAIN Position
  BY DEF Legs
<1>2. ASSUME NEW l \in legs
      PROVE  l[2][1] \in DOMAIN Position /\ l[2][2] \in DOMAIN Position
  <2>1. PICK way : \E leg \in Legs(way) : l = <<way, leg>>
    OBVIOUS
  <2> QED BY <1>1, <2>1
<1>3. ASSUME NEW way, NEW u \in DOMAIN Position, NEW v \in DOMAIN Position
      PROVE  /\ EdgeOf(way, u, v).from = u
             /\ EdgeOf(way, u, v).to = v
             /\ EdgeOf(way, u, v).weight \in Nat
  <2>1. Distance(Position[u], Position[v]) \in Nat
    BY DistanceIsNat, PositionAssumption
  <2> QED BY <2>1 DEF EdgeOf, CONNECTOR_PENALTY
<1> HIDE DEF legs
<1>4. ASSUME NEW e \in edges
      PROVE  \E l \in legs : \/ e = EdgeOf(l[1], l[2][1], l[2][2])
                             \/ e = EdgeOf(l[1], l[2][2], l[2][1])
  OBVIOUS
<1>5. \A l \in legs : /\ EdgeOf(l[1], l[2][1], l[2][2]) \in edges
                      /\ EdgeOf(l[1], l[2][2], l[2][1]) \in edges
  OBVIOUS
<1>6. ParseTaxiwayGraph(ways, connectors) = [nodes |-> {e.from : e \in edges}, edges |-> edges]
  BY DEF ParseTaxiwayGraph, legs
<1> HIDE DEF edges
<1>7. ASSUME NEW e \in edges
      PROVE  /\ e.from \in DOMAIN Position /\ e.weight \in Nat
             /\ \E f \in edges : f.from = e.to /\ f.to = e.from
  <2>1. PICK l \in legs : \/ e = EdgeOf(l[1], l[2][1], l[2][2])
                          \/ e = EdgeOf(l[1], l[2][2], l[2][1])
    BY <1>4
  <2>2. CASE e = EdgeOf(l[1], l[2][1], l[2][2])
    BY <1>2, <1>3, <1>5, <2>2
  <2>3. CASE e = EdgeOf(l[1], l[2][2], l[2][1])
    BY <1>2, <1>3, <1>5, <2>3
  <2> QED BY <2>1, <2>2, <2>3
<1>8. \A e \in edges : e.to \in {f.from : f \in edges}
  BY <1>7
<1> QED BY <1>6, <1>7, <1>8 DEF WellFormed

LEMMA NoGraphIsWellFormed == WellFormed(NoGraph)
BY DEF WellFormed, NoGraph

LEMMA NodesAreFinite ==
  ASSUME NEW g, WellFormed(g)
  PROVE  IsFiniteSet(g.nodes) /\ Cardinality(g.nodes) \in Nat
BY PositionAssumption, FS_Subset, FS_CardinalityType DEF WellFormed

LEMMA NeighbourFacts ==
  ASSUME NEW g, WellFormed(g), NEW u, NEW v \in Neighbours(g, u)
  PROVE  /\ u \in g.nodes /\ v \in g.nodes
         /\ u \in Neighbours(g, v)
         /\ Weight(g, u, v) \in Nat
<1> DEFINE weights == {e.weight : e \in {f \in g.edges : f.from = u /\ f.to = v}}
<1>1. PICK e \in g.edges : e.from = u /\ e.to = v
  BY DEF Neighbours
<1>2. weights \in SUBSET Nat /\ weights # {}
  BY <1>1 DEF WellFormed
<1>3. Weight(g, u, v) = Min(weights)
  BY DEF Weight
<1> HIDE DEF weights
<1>4. Weight(g, u, v) \in Nat
  BY <1>2, <1>3, MinIsLeast
<1> QED BY <1>1, <1>4 DEF WellFormed, Neighbours

----------------------------------------------------------------------------
\* Components

ClosedIn(g, C) == \A u \in C : Neighbours(g, u) \subseteq C

\* A search from u stays in every part of the graph that has u and no way out.
LEMMA ComponentStays ==
  ASSUME NEW g, WellFormed(g), NEW C, ClosedIn(g, C), NEW u \in C
  PROVE  Component(g, u) \subseteq C
<1> DEFINE S == SUBSET C
           beyond(X) == UNION {Beside(g, v) : v \in X}
           step == [p \in Nat \X S |-> beyond(p[2])]
           Recursive(r) == r = [k \in Nat |-> IF k = 0 THEN {u} ELSE beyond(r[k - 1])]
           r == CHOOSE x : Recursive(x)
           N == Cardinality(g.nodes)
<1>1. \A X \in S : beyond(X) \in S
  BY DEF Beside, ClosedIn, Neighbours
<1>2. N \in Nat
  BY NodesAreFinite
<1>3. Component(g, u) = r[N]
  BY DEF Component
<1>4. {u} \in S
  OBVIOUS
<1>5. step \in [Nat \X S -> S] /\ \A n \in Nat, X \in S : step[<<n, X>>] = beyond(X)
  BY <1>1
<1> HIDE DEF beyond, S, step, N
<1>6. PICK f : Iteration(f, S, {u}, step)
  BY <1>4, <1>5, IteratesForever, Zenon
<1>a. /\ f \in [Nat -> S]
      /\ f = [n \in Nat |-> IF n = 0 THEN {u} ELSE step[<<n, f[n - 1]>>]]
  BY <1>6 DEF Iteration
<1>7. ASSUME NEW n \in Nat, n # 0 PROVE step[<<n, f[n - 1]>>] = beyond(f[n - 1])
  <2>1. PICK m \in Nat : m = n - 1
    BY <1>7
  <2>2. f[m] \in S
    BY <1>a
  <2> QED BY <1>5, <2>1, <2>2, Zenon
<1>8. Recursive(f)
  <2>1. \A n \in Nat : (IF n = 0 THEN {u} ELSE step[<<n, f[n - 1]>>])
                         = (IF n = 0 THEN {u} ELSE beyond(f[n - 1]))
    BY <1>7
  <2> QED BY <1>a, <2>1, Zenon
<1>9. Recursive(r)
  <2> HIDE DEF Recursive
  <2> QED BY <1>8
<1> HIDE DEF r
<1>10. \A n \in Nat : r[n] = IF n = 0 THEN {u} ELSE beyond(r[n - 1])
  BY <1>9, Zenon
<1> DEFINE P == {n \in 0..N : r[n] \in S}
<1>11. 0 \in P
  BY <1>2, <1>4, <1>10
<1>12. ASSUME NEW n \in 0..N, n \in P, n < N PROVE n + 1 \in P
  <2>1. n + 1 \in Nat /\ n + 1 # 0 /\ (n + 1) - 1 = n /\ n + 1 \in 0..N
    BY <1>2, <1>12
  <2>2. r[n + 1] = beyond(r[n])
    BY <1>10, <2>1
  <2> QED BY <1>1, <1>12, <2>1, <2>2
<1> HIDE DEF P
<1>13. N \in P
  BY <1>2, <1>11, <1>12, UpTo
<1> QED BY <1>3, <1>13 DEF P, S

\* What is closed is closed the other way round too.
LEMMA ComplementIsClosed ==
  ASSUME NEW g, WellFormed(g), NEW C, ClosedIn(g, C)
  PROVE  ClosedIn(g, g.nodes \ C)
<1> SUFFICES ASSUME NEW u \in g.nodes \ C, NEW v \in Neighbours(g, u) PROVE v \in g.nodes \ C
  BY DEF ClosedIn
<1>1. v \in g.nodes /\ u \in Neighbours(g, v)
  BY NeighbourFacts
<1> QED BY <1>1 DEF ClosedIn

\* The components are parts of the graph.
LEMMA ComponentsOfNodes ==
  ASSUME NEW g, WellFormed(g), NEW c \in ConnectedComponents(g)
  PROVE  c \subseteq g.nodes
<1>1. PICK u \in g.nodes : c = Component(g, u)
  BY DEF ConnectedComponents
<1>2. ClosedIn(g, g.nodes)
  BY NeighbourFacts DEF ClosedIn
<1> QED BY <1>1, <1>2, ComponentStays

\* Two nodes of one component are not parted by a closed part of the graph.
LEMMA NotParted ==
  ASSUME NEW g, WellFormed(g), NEW C, ClosedIn(g, C),
         NEW c \in ConnectedComponents(g), NEW a \in c \cap C, NEW b \in c
  PROVE  b \in C
<1>1. PICK u \in g.nodes : c = Component(g, u)
  BY DEF ConnectedComponents
<1>2. CASE u \in C
  BY <1>1, <1>2, ComponentStays
<1>3. CASE u \notin C
  <2>1. ClosedIn(g, g.nodes \ C) /\ u \in g.nodes \ C
    BY <1>3, ComplementIsClosed
  <2>2. c \subseteq g.nodes \ C
    BY <1>1, <2>1, ComponentStays, Zenon
  <2> QED BY <2>2
<1> QED BY <1>2, <1>3

----------------------------------------------------------------------------
\* Attachment

LEMMA NearestFacts ==
  ASSUME NEW nodes \in SUBSET DOMAIN Position, NEW p \in Point
  PROVE  /\ NearestNodes(nodes, p) \subseteq nodes
         /\ nodes # {} => NearestNodes(nodes, p) # {}
         /\ \A n \in NearestNodes(nodes, p), m \in nodes :
              Distance(p, Position[n]) <= Distance(p, Position[m])
<1> DEFINE distances == {Distance(p, Position[n]) : n \in nodes}
<1>1. distances \in SUBSET Nat
  BY DistanceIsNat, PositionAssumption
<1>2. NearestNodes(nodes, p)
        = {n \in nodes : \A m \in nodes : Distance(p, Position[n]) <= Distance(p, Position[m])}
  BY DEF NearestNodes, Cheapest
<1>3. ASSUME nodes # {}
      PROVE  \E n \in nodes : \A m \in nodes : Distance(p, Position[n]) <= Distance(p, Position[m])
  <2>1. PICK least \in distances : \A x \in distances : least <= x
    <3>1. distances # {}
      BY <1>3
    <3> HIDE DEF distances
    <3> QED BY <1>1, <3>1, LeastNatural
  <2> QED BY <2>1
<1> QED BY <1>2, <1>3

Near(n, p) == Distance(p, Position[n]) <= MAX_ATTACH_DISTANCE_M

\* No node of c is near p.
Unserved(c, p) == \A n \in c : Distance(p, Position[n]) > MAX_ATTACH_DISTANCE_M

\* The two ends are on one component, unless no component lies near both endpoints.
LEMMA AttachedFacts ==
  ASSUME NEW g, WellFormed(g), NEW origin \in Point, NEW dest \in Point,
         NEW pair \in AttachEndpoints(g, ConnectedComponents(g), origin, dest)
  PROVE  /\ pair[1] \in g.nodes /\ pair[2] \in g.nodes
         /\ \/ \E c \in ConnectedComponents(g) : pair[1] \in c /\ pair[2] \in c
            \/ \A c \in ConnectedComponents(g) : Unserved(c, origin) \/ Unserved(c, dest)
<1> DEFINE components == ConnectedComponents(g)
           serving == UNION {{p \in NearestNodes(c, origin) \X NearestNodes(c, dest) :
                                Near(p[1], origin) /\ Near(p[2], dest)} : c \in components}
           cost(p) == Distance(origin, Position[p[1]]) + Distance(dest, Position[p[2]])
<1>1. AttachEndpoints(g, components, origin, dest)
        = IF serving # {} THEN Cheapest(serving, cost)
          ELSE NearestNodes(g.nodes, origin) \X NearestNodes(g.nodes, dest)
  BY DEF AttachEndpoints, Near
<1>2. \A c \in components : c \in SUBSET DOMAIN Position /\ c \subseteq g.nodes
  BY ComponentsOfNodes DEF WellFormed
<1>3. g.nodes \in SUBSET DOMAIN Position
  BY DEF WellFormed
<1>4. Cheapest(serving, cost) \subseteq serving
  BY DEF Cheapest
<1>5. ASSUME NEW p \in serving
      PROVE  \E c \in components : /\ p \in NearestNodes(c, origin) \X NearestNodes(c, dest)
                              /\ Near(p[1], origin) /\ Near(p[2], dest)
  OBVIOUS
<1>6. ASSUME NEW c \in components, NEW m \in NearestNodes(c, origin), NEW n \in NearestNodes(c, dest),
             Near(m, origin), Near(n, dest)
      PROVE  serving # {}
  <2>1. <<m, n>> \in {p \in NearestNodes(c, origin) \X NearestNodes(c, dest) :
                        Near(p[1], origin) /\ Near(p[2], dest)}
    BY <1>6
  <2> QED BY <2>1
<1> HIDE DEF components, serving, cost
<1>7. CASE serving # {}
  <2>1. pair \in serving
    BY <1>1, <1>4, <1>7 DEF components
  <2>2. PICK c \in components : pair \in NearestNodes(c, origin) \X NearestNodes(c, dest)
    BY <1>5, <2>1
  <2>3. NearestNodes(c, origin) \subseteq c /\ NearestNodes(c, dest) \subseteq c
    BY <1>2, NearestFacts
  <2> QED BY <1>2, <2>2, <2>3 DEF components
<1>8. CASE serving = {}
  <2>1. pair \in NearestNodes(g.nodes, origin) \X NearestNodes(g.nodes, dest)
    BY <1>1, <1>8 DEF components
  <2>2. NearestNodes(g.nodes, origin) \subseteq g.nodes /\ NearestNodes(g.nodes, dest) \subseteq g.nodes
    BY <1>3, NearestFacts
  <2>3. ASSUME NEW c \in components PROVE Unserved(c, origin) \/ Unserved(c, dest)
    <3>1. CASE c = {}
      BY <3>1 DEF Unserved
    <3>2. CASE c # {}
      <4>1. c \in SUBSET DOMAIN Position
        BY <1>2
      <4>2. PICK m \in NearestNodes(c, origin) : TRUE
        BY <3>2, <4>1, NearestFacts
      <4>3. PICK n \in NearestNodes(c, dest) : TRUE
        BY <3>2, <4>1, NearestFacts
      <4>4. ~Near(m, origin) \/ ~Near(n, dest)
        BY <1>6, <1>8
      <4>5. /\ \A x \in c : Distance(origin, Position[m]) <= Distance(origin, Position[x])
            /\ \A x \in c : Distance(dest, Position[n]) <= Distance(dest, Position[x])
        BY <4>1, NearestFacts
      <4>6. m \in c /\ n \in c
        BY <4>1, NearestFacts
      <4>7. \A x \in c : /\ Distance(origin, Position[x]) \in Nat
                         /\ Distance(dest, Position[x]) \in Nat
        BY <4>1, DistanceIsNat, PositionAssumption
      <4> QED BY <4>4, <4>5, <4>6, <4>7, AttachAssumption DEF Near, Unserved
    <3> QED BY <3>1, <3>2
  <2> QED BY <2>1, <2>2, <2>3 DEF components
<1> QED BY <1>7, <1>8

----------------------------------------------------------------------------
\* The reference costs of ShortestRoute

\* Costs of some of the nodes.
CostTables(g) == UNION {[T -> Nat] : T \in SUBSET g.nodes}

\* Every entry of next is one of costs, or one with an edge more, and none of them is less.
Extends(g, costs, next) ==
  /\ next \in CostTables(g)
  /\ \A n \in DOMAIN costs : n \in DOMAIN next /\ next[n] <= costs[n]
  /\ \A m \in DOMAIN costs : \A n \in Neighbours(g, m) :
       n \in DOMAIN next /\ next[n] <= costs[m] + Weight(g, m, n)
  /\ \A n \in DOMAIN next :
       \/ n \in DOMAIN costs /\ next[n] = costs[n]
       \/ \E m \in DOMAIN costs : n \in Neighbours(g, m) /\ next[n] = costs[m] + Weight(g, m, n)

LEMMA ExtendedFacts ==
  ASSUME NEW g, WellFormed(g), NEW costs \in CostTables(g)
  PROVE  Extends(g, costs, Extended(g, costs))
<1> DEFINE before(n) == {m \in DOMAIN costs : n \in Neighbours(g, m)}
           candidates(n) == {costs[m] : m \in DOMAIN costs \cap {n}}
                              \cup {costs[m] + Weight(g, m, n) : m \in before(n)}
           D == DOMAIN costs \cup UNION {Neighbours(g, m) : m \in DOMAIN costs}
           next == Extended(g, costs)
<1>1. next = [n \in D |-> Min(candidates(n))]
  BY DEF Extended
<1>2. DOMAIN costs \subseteq g.nodes /\ \A n \in DOMAIN costs : costs[n] \in Nat
  BY DEF CostTables
<1>3. D \subseteq g.nodes
  BY <1>2, NeighbourFacts
<1>4. ASSUME NEW n \in D PROVE candidates(n) \in SUBSET Nat /\ candidates(n) # {}
  <2>1. candidates(n) \in SUBSET Nat
    <3>1. \A m \in before(n) : costs[m] \in Nat /\ Weight(g, m, n) \in Nat
      BY <1>2, NeighbourFacts
    <3> QED BY <1>2, <3>1
  <2>2. CASE n \in DOMAIN costs
    BY <2>1, <2>2
  <2>3. CASE n \notin DOMAIN costs
    <3>1. PICK m \in DOMAIN costs : n \in Neighbours(g, m)
      BY <2>3
    <3>2. costs[m] + Weight(g, m, n) \in candidates(n)
      BY <3>1
    <3> QED BY <2>1, <3>2
  <2> QED BY <2>2, <2>3
<1>5. ASSUME NEW n, NEW x \in candidates(n)
      PROVE  \/ n \in DOMAIN costs /\ x = costs[n]
             \/ \E m \in DOMAIN costs : n \in Neighbours(g, m) /\ x = costs[m] + Weight(g, m, n)
  OBVIOUS
<1>6. \A n \in DOMAIN costs : n \in D /\ costs[n] \in candidates(n)
  OBVIOUS
<1>7. \A m \in DOMAIN costs : \A n \in Neighbours(g, m) :
        n \in D /\ costs[m] + Weight(g, m, n) \in candidates(n)
  OBVIOUS
<1>8. DOMAIN next = D /\ next = [n \in D |-> next[n]]
  BY <1>1
<1>9. \A n \in D : next[n] = Min(candidates(n))
  BY <1>1
<1> HIDE DEF candidates, D, next
<1>10. ASSUME NEW n \in D
       PROVE  /\ next[n] \in Nat /\ next[n] \in candidates(n)
              /\ \A x \in candidates(n) : next[n] <= x
  BY <1>4, <1>9, MinIsLeast
<1>11. next \in CostTables(g)
  <2>1. next \in [D -> Nat]
    BY <1>8, <1>10
  <2> QED BY <1>3, <2>1 DEF CostTables
<1>12. \A n \in DOMAIN costs : n \in DOMAIN next /\ next[n] <= costs[n]
  BY <1>6, <1>8, <1>10
<1>13. \A m \in DOMAIN costs : \A n \in Neighbours(g, m) :
         n \in DOMAIN next /\ next[n] <= costs[m] + Weight(g, m, n)
  BY <1>7, <1>8, <1>10
<1>14. \A n \in DOMAIN next :
         \/ n \in DOMAIN costs /\ next[n] = costs[n]
         \/ \E m \in DOMAIN costs : n \in Neighbours(g, m) /\ next[n] = costs[m] + Weight(g, m, n)
  BY <1>5, <1>8, <1>10
<1> QED BY <1>11, <1>12, <1>13, <1>14 DEF Extends, next

\* The table of k + 1 steps extends that of k.
CostsFrom(best, g, u) ==
  /\ best[0] = [n \in {u} |-> 0]
  /\ \A k \in Nat : best[k] \in CostTables(g) /\ Extends(g, best[k], best[k + 1])

LEMMA CostsFacts ==
  ASSUME NEW g, WellFormed(g), NEW u \in g.nodes
  PROVE  CostsFrom(Costs(g, u), g, u)
<1> DEFINE S == CostTables(g)
           first == [n \in {u} |-> 0]
           step == [p \in Nat \X S |-> Extended(g, p[2])]
           Recursive(r) == r = [k \in Nat |-> IF k = 0 THEN first ELSE Extended(g, r[k - 1])]
           r == CHOOSE x : Recursive(x)
<1>1. \A X \in S : Extended(g, X) \in S /\ Extends(g, X, Extended(g, X))
  BY ExtendedFacts DEF Extends
<1>2. Costs(g, u) = r
  BY DEF Costs
<1>3. first \in S
  <2>1. {u} \in SUBSET g.nodes /\ first \in [{u} -> Nat]
    OBVIOUS
  <2> QED BY <2>1 DEF CostTables
<1>4. step \in [Nat \X S -> S] /\ \A n \in Nat, X \in S : step[<<n, X>>] = Extended(g, X)
  BY <1>1
<1> HIDE DEF S, step, first
<1>5. PICK f : Iteration(f, S, first, step)
  BY <1>3, <1>4, IteratesForever, Zenon
<1>6. /\ f \in [Nat -> S]
      /\ f = [n \in Nat |-> IF n = 0 THEN first ELSE step[<<n, f[n - 1]>>]]
  BY <1>5 DEF Iteration
<1>7. ASSUME NEW n \in Nat, n # 0 PROVE step[<<n, f[n - 1]>>] = Extended(g, f[n - 1])
  <2>1. PICK m \in Nat : m = n - 1
    BY <1>7
  <2>2. f[m] \in S
    BY <1>6
  <2> QED BY <1>4, <2>1, <2>2, Zenon
<1>8. Recursive(f)
  <2>1. \A n \in Nat : (IF n = 0 THEN first ELSE step[<<n, f[n - 1]>>])
                         = (IF n = 0 THEN first ELSE Extended(g, f[n - 1]))
    BY <1>7
  <2> QED BY <1>6, <2>1, Zenon
<1>9. Recursive(r)
  <2> HIDE DEF Recursive
  <2> QED BY <1>8
<1> HIDE DEF r
<1>10. \A n \in Nat : r[n] = IF n = 0 THEN first ELSE Extended(g, r[n - 1])
  BY <1>9, Zenon
<1>11. \A n \in Nat : r[n + 1] = Extended(g, r[n])
  <2> TAKE n \in Nat
  <2>1. n + 1 \in Nat /\ n + 1 # 0 /\ (n + 1) - 1 = n
    OBVIOUS
  <2> QED BY <1>10, <2>1
<1>12. ASSUME NEW N \in Nat PROVE r[N] \in S
  <2> DEFINE P == {n \in 0..N : r[n] \in S}
  <2>1. 0 \in P
    BY <1>3, <1>10
  <2>2. ASSUME NEW n \in 0..N, n \in P, n < N PROVE n + 1 \in P
    BY <1>1, <1>11, <2>2
  <2> HIDE DEF P
  <2>3. N \in P
    BY <2>1, <2>2, UpTo
  <2> QED BY <2>3 DEF P
<1>13. r[0] = first
  BY <1>10
<1>14. \A k \in Nat : r[k] \in S /\ Extends(g, r[k], r[k + 1])
  BY <1>1, <1>11, <1>12
<1> QED BY <1>2, <1>13, <1>14 DEF CostsFrom, S, first

\* What a walk may cost is no more with more steps.
LEMMA CostsDecrease ==
  ASSUME NEW g, WellFormed(g), NEW u \in g.nodes, NEW k \in Nat, NEW l \in Nat, k <= l,
         NEW n \in DOMAIN Costs(g, u)[k]
  PROVE  n \in DOMAIN Costs(g, u)[l] /\ Costs(g, u)[l][n] <= Costs(g, u)[k][n]
<1> PICK best : best = Costs(g, u)
  OBVIOUS
<1>1. \A i \in Nat : best[i] \in CostTables(g) /\ Extends(g, best[i], best[i + 1])
  BY CostsFacts DEF CostsFrom
<1> DEFINE N == l - k
           P == {i \in 0..N : n \in DOMAIN best[k + i] /\ best[k + i][n] <= best[k][n]}
<1>2. \A i \in Nat : n \in DOMAIN best[i] => best[i][n] \in Nat
  BY <1>1 DEF CostTables
<1>3. 0 \in P
  BY <1>2
<1>4. ASSUME NEW i \in 0..N, i \in P, i < N PROVE i + 1 \in P
  <2>1. k + i \in Nat /\ k + (i + 1) = (k + i) + 1 /\ (k + i) + 1 \in Nat /\ i + 1 \in 0..N
    BY <1>4
  <2>2. n \in DOMAIN best[(k + i) + 1] /\ best[(k + i) + 1][n] <= best[k + i][n]
    BY <1>1, <1>4, <2>1 DEF Extends
  <2>3. best[(k + i) + 1][n] <= best[k][n]
    BY <1>2, <1>4, <2>1, <2>2
  <2> QED BY <2>1, <2>2, <2>3
<1>5. N \in Nat
  OBVIOUS
<1> HIDE DEF P, N
<1>6. N \in P
  BY <1>3, <1>4, <1>5, UpTo
<1>7. k + N = l
  BY DEF N
<1> QED BY <1>6, <1>7 DEF P

\* A potential: it is nothing at u and no edge climbs by more than it costs.
Potential(F, g, u) ==
  /\ F \in [g.nodes -> Nat]
  /\ F[u] = 0
  /\ \A m \in g.nodes : \A n \in Neighbours(g, m) : F[n] <= F[m] + Weight(g, m, n)

\* No walk from u to n costs less than the potential of n.
LEMMA PotentialBounds ==
  ASSUME NEW g, WellFormed(g), NEW u \in g.nodes, NEW F, Potential(F, g, u),
         NEW k \in Nat, NEW n \in DOMAIN Costs(g, u)[k]
  PROVE  F[n] <= Costs(g, u)[k][n]
<1> PICK best : best = Costs(g, u)
  OBVIOUS
<1>1. \A i \in Nat : best[i] \in CostTables(g) /\ Extends(g, best[i], best[i + 1])
  BY CostsFacts DEF CostsFrom
<1>2. best[0] = [m \in {u} |-> 0]
  BY CostsFacts DEF CostsFrom
<1>3. \A i \in Nat : \A m \in DOMAIN best[i] : m \in g.nodes /\ best[i][m] \in Nat
  BY <1>1 DEF CostTables
<1> DEFINE P == {i \in 0..k : \A m \in DOMAIN best[i] : F[m] <= best[i][m]}
<1>4. 0 \in P
  BY <1>2 DEF Potential
<1>5. ASSUME NEW i \in 0..k, i \in P, i < k PROVE i + 1 \in P
  <2>1. i + 1 \in 0..k /\ i \in Nat
    BY <1>5
  <2>2. ASSUME NEW m \in DOMAIN best[i + 1] PROVE F[m] <= best[i + 1][m]
    <3>1. CASE m \in DOMAIN best[i] /\ best[i + 1][m] = best[i][m]
      BY <1>5, <3>1
    <3>2. CASE \E l \in DOMAIN best[i] : /\ m \in Neighbours(g, l)
                                        /\ best[i + 1][m] = best[i][l] + Weight(g, l, m)
      <4>1. PICK l \in DOMAIN best[i] : /\ m \in Neighbours(g, l)
                                        /\ best[i + 1][m] = best[i][l] + Weight(g, l, m)
        BY <3>2
      <4>2. F[m] <= F[l] + Weight(g, l, m) /\ F[l] <= best[i][l]
        BY <1>3, <1>5, <2>1, <4>1 DEF Potential
      <4>3. l \in g.nodes /\ m \in g.nodes /\ Weight(g, l, m) \in Nat /\ best[i][l] \in Nat
        BY <1>3, <2>1, <4>1, NeighbourFacts
      <4>4. F[l] \in Nat /\ F[m] \in Nat
        BY <4>3 DEF Potential
      <4> QED BY <4>1, <4>2, <4>3, <4>4
    <3> QED BY <1>1, <2>1, <3>1, <3>2 DEF Extends
  <2> QED BY <2>1, <2>2
<1> HIDE DEF P
<1>6. k \in P
  BY <1>4, <1>5, UpTo
<1> QED BY <1>6 DEF P

----------------------------------------------------------------------------
\* What a walk costs

\* The cost of the first i steps of p, for every i.
Tally(up, g, p) ==
  /\ up \in [0..Len(p) - 1 -> Nat]
  /\ up[0] = 0
  /\ \A i \in 1..Len(p) - 1 : up[i] = up[i - 1] + Weight(g, p[i], p[i + 1])

LEMMA CostIsTallied ==
  ASSUME NEW g, WellFormed(g), NEW p \in Seq(g.nodes), p # <<>>, IsWalk(g, p)
  PROVE  \E up : Tally(up, g, p) /\ Cost(g, p) = up[Len(p) - 1]
<1> DEFINE N == Len(p) - 1
           w(j) == IF j \in 1..N THEN Weight(g, p[j], p[j + 1]) ELSE 0
           step == [q \in Nat \X Nat |-> q[2] + w(q[1])]
           Recursive(r) ==
             r = [i \in 0..N |-> IF i = 0 THEN 0 ELSE r[i - 1] + Weight(g, p[i], p[i + 1])]
           r == CHOOSE x : Recursive(x)
<1>1. N \in Nat
  OBVIOUS
<1>2. \A i \in 1..N : Weight(g, p[i], p[i + 1]) \in Nat
  BY NeighbourFacts DEF IsWalk
<1>3. Cost(g, p) = r[N]
  BY DEF Cost
<1>4. /\ step \in [Nat \X Nat -> Nat]
      /\ \A i \in 1..N, x \in Nat : step[<<i, x>>] = x + Weight(g, p[i], p[i + 1])
  <2>1. \A j \in Nat : w(j) \in Nat
    BY <1>2
  <2>2. \A j \in 1..N : w(j) = Weight(g, p[j], p[j + 1]) /\ j \in Nat
    BY <1>1
  <2> HIDE DEF w
  <2>3. \A i \in Nat, x \in Nat : step[<<i, x>>] = x + w(i)
    OBVIOUS
  <2>4. \A q \in Nat \X Nat : q[2] + w(q[1]) \in Nat
    <3>1. \A x, y \in Nat : x + y \in Nat
      OBVIOUS
    <3> QED BY <2>1, <3>1
  <2>5. step \in [Nat \X Nat -> Nat]
    BY <2>4
  <2> QED BY <2>2, <2>3, <2>5
<1> HIDE DEF step, N
<1>5. PICK f : Iteration(f, Nat, 0, step)
  BY <1>4, IteratesForever, Zenon
<1>6. /\ f \in [Nat -> Nat]
      /\ f = [n \in Nat |-> IF n = 0 THEN 0 ELSE step[<<n, f[n - 1]>>]]
  BY <1>5 DEF Iteration
<1> DEFINE up == [i \in 0..N |-> f[i]]
<1>7. ASSUME NEW i \in 1..N PROVE up[i] = up[i - 1] + Weight(g, p[i], p[i + 1])
  <2>1. i \in Nat /\ i # 0 /\ i \in 0..N /\ i - 1 \in 0..N /\ i - 1 \in Nat
    BY <1>1
  <2>2. f[i] = step[<<i, f[i - 1]>>] /\ f[i - 1] \in Nat
    BY <1>6, <2>1
  <2> QED BY <1>4, <2>1, <2>2
<1>8. up[0] = 0 /\ up \in [0..N -> Nat]
  BY <1>1, <1>6
<1> HIDE DEF up
<1>9. up = [i \in 0..N |-> up[i]]
  BY <1>8
<1>10. Recursive(up)
  <2>1. \A i \in 0..N : up[i] = IF i = 0 THEN 0 ELSE up[i - 1] + Weight(g, p[i], p[i + 1])
    BY <1>1, <1>7, <1>8
  <2> QED BY <1>9, <2>1, Zenon
<1>11. Recursive(r)
  <2> HIDE DEF Recursive
  <2> QED BY <1>10
<1> HIDE DEF r
<1>12. \A i \in 0..N : r[i] = IF i = 0 THEN 0 ELSE r[i - 1] + Weight(g, p[i], p[i + 1])
  BY <1>11, Zenon
<1>13. r = [i \in 0..N |-> r[i]]
  BY <1>11
<1>14. \A i \in 1..N : r[i] = r[i - 1] + Weight(g, p[i], p[i + 1])
  BY <1>1, <1>12
<1> DEFINE P == {i \in 0..N : r[i] \in Nat}
<1>15. r[0] = 0 /\ 0 \in P
  BY <1>1, <1>12
<1>16. ASSUME NEW i \in 0..N, i \in P, i < N PROVE i + 1 \in P
  <2>1. i + 1 \in 1..N /\ (i + 1) - 1 = i
    BY <1>1, <1>16
  <2> QED BY <1>2, <1>14, <1>16, <2>1
<1> HIDE DEF P
<1>17. \A i \in 0..N : i \in P
  BY <1>1, <1>15, <1>16, UpTo
<1>18. r \in [0..N -> Nat]
  BY <1>13, <1>17 DEF P
<1>19. Tally(r, g, p)
  BY <1>14, <1>15, <1>18 DEF Tally, N
<1> QED BY <1>3, <1>19 DEF N

LEMMA SeqOfOne ==
  ASSUME NEW S, NEW n \in S
  PROVE  <<n>> \in Seq(S) /\ Len(<<n>>) = 1 /\ <<n>> # <<>>
OBVIOUS

LEMMA CostOfStanding ==
  ASSUME NEW g, WellFormed(g), NEW n \in g.nodes
  PROVE  Cost(g, <<n>>) = 0 /\ IsWalk(g, <<n>>)
<1>1. IsWalk(g, <<n>>)
  BY DEF IsWalk
<1>2. <<n>> \in Seq(g.nodes) /\ <<n>> # <<>> /\ Len(<<n>>) - 1 = 0
  <2>1. <<n>> \in Seq(g.nodes) /\ <<n>> # <<>> /\ Len(<<n>>) = 1
    BY SeqOfOne, Zenon
  <2> QED BY <2>1
<1>3. PICK up : Tally(up, g, <<n>>) /\ Cost(g, <<n>>) = up[Len(<<n>>) - 1]
  BY <1>1, <1>2, CostIsTallied
<1> QED BY <1>1, <1>2, <1>3 DEF Tally

\* A step put before a walk adds its weight.
LEMMA CostOfStep ==
  ASSUME NEW g, WellFormed(g), NEW p \in Seq(g.nodes), p # <<>>, IsWalk(g, p),
         NEW n \in g.nodes, p[1] \in Neighbours(g, n)
  PROVE  /\ <<n>> \o p \in Seq(g.nodes)
         /\ IsWalk(g, <<n>> \o p)
         /\ Cost(g, p) \in Nat
         /\ Cost(g, <<n>> \o p) = Weight(g, n, p[1]) + Cost(g, p)
<1> DEFINE q == <<n>> \o p
           L == Len(p)
<1>1. /\ q \in Seq(g.nodes) /\ q # <<>> /\ Len(q) = L + 1 /\ L \in Nat /\ L # 0
      /\ q[1] = n
      /\ \A i \in 1..L : q[i + 1] = p[i]
  <2>1. q \in Seq(g.nodes)
    BY SeqOfOne, ConcatProperties
  <2>2. Len(q) = L + 1
    OBVIOUS
  <2>3. L \in Nat /\ L # 0
    OBVIOUS
  <2>4. q[1] = n
    OBVIOUS
  <2>5. \A i \in 1..L : q[i + 1] = p[i]
    OBVIOUS
  <2>6. q # <<>>
    BY <2>2, <2>3
  <2> QED BY <2>1, <2>2, <2>3, <2>4, <2>5, <2>6
<1> HIDE DEF q, L
<1>2. IsWalk(g, q)
  <2> SUFFICES ASSUME NEW i \in 1..L PROVE q[i + 1] \in Neighbours(g, q[i])
    BY <1>1 DEF IsWalk
  <2>1. CASE i = 1
    BY <1>1, <2>1
  <2>2. CASE i # 1
    <3>1. i - 1 \in 1..L /\ (i - 1) + 1 = i /\ i - 1 \in 1..L - 1
      BY <1>1, <2>2
    <3>2. q[i] = p[i - 1] /\ q[i + 1] = p[i]
      BY <1>1, <3>1
    <3> QED BY <3>1, <3>2 DEF IsWalk, L
  <2> QED BY <2>1, <2>2
<1>3. PICK up : Tally(up, g, p) /\ Cost(g, p) = up[L - 1]
  BY CostIsTallied DEF L
<1>4. PICK on : Tally(on, g, q) /\ Cost(g, q) = on[Len(q) - 1]
  BY <1>1, <1>2, CostIsTallied
<1>5. Len(q) - 1 = L /\ Cost(g, q) = on[L]
  BY <1>1, <1>4
<1>6. /\ on[0] = 0
      /\ \A i \in 1..L : on[i] = on[i - 1] + Weight(g, q[i], q[i + 1])
  BY <1>4, <1>5 DEF Tally
<1>7. /\ \A i \in 0..L - 1 : up[i] \in Nat
      /\ up[0] = 0
      /\ \A i \in 1..L - 1 : up[i] = up[i - 1] + Weight(g, p[i], p[i + 1])
  BY <1>3 DEF Tally, L
<1>8. Weight(g, n, p[1]) \in Nat
  BY NeighbourFacts
<1> DEFINE P == {i \in 0..L - 1 : on[i + 1] = Weight(g, n, p[1]) + up[i]}
<1>9. 0 \in P
  <2>1. on[1] = on[0] + Weight(g, n, p[1])
    BY <1>1, <1>6
  <2> QED BY <1>1, <1>6, <1>7, <1>8, <2>1
<1>10. ASSUME NEW i \in 0..L - 1, i \in P, i < L - 1 PROVE i + 1 \in P
  <2>1. PICK k \in 1..L - 1 : k = i + 1
    BY <1>1, <1>10
  <2>2. k + 1 \in 1..L /\ k \in 1..L /\ k \in 0..L - 1 /\ (k + 1) - 1 = k /\ k - 1 = i
    BY <1>1, <2>1
  <2>3. on[k + 1] = on[k] + Weight(g, q[k + 1], q[(k + 1) + 1])
    BY <1>6, <2>2
  <2>4. q[k + 1] = p[k] /\ q[(k + 1) + 1] = p[k + 1]
    BY <1>1, <2>2
  <2>5. up[k] = up[i] + Weight(g, p[k], p[k + 1])
    BY <1>7, <2>2
  <2>6. on[k] = Weight(g, n, p[1]) + up[i]
    BY <1>10, <2>1
  <2>7. Weight(g, p[k], p[k + 1]) \in Nat /\ up[i] \in Nat
    BY <1>7, NeighbourFacts DEF IsWalk, L
  <2> QED BY <1>8, <2>1, <2>2, <2>3, <2>4, <2>5, <2>6, <2>7
<1>11. L - 1 \in Nat /\ (L - 1) + 1 = L
  BY <1>1
<1> HIDE DEF P
<1>12. L - 1 \in P
  BY <1>9, <1>10, <1>11, UpTo
<1>13. on[L] = Weight(g, n, p[1]) + up[L - 1]
  BY <1>11, <1>12 DEF P
<1>14. Cost(g, p) \in Nat
  BY <1>3, <1>7, <1>11
<1> QED BY <1>1, <1>2, <1>3, <1>5, <1>13, <1>14 DEF q

----------------------------------------------------------------------------
\* The search. g is the graph, e the two ends; the rest are the search's variables.

LEMMA LeastFacts ==
  ASSUME NEW g, WellFormed(g), NEW q \in SUBSET (Nat \X g.nodes), q # {}
  PROVE  Least(q) \in q /\ \A x \in q : Least(q)[1] <= x[1]
<1> DEFINE firsts == {x[1] : x \in q}
<1>1. PICK top \in q : \A x \in q : top[1] <= x[1]
  <2>1. firsts \in SUBSET Nat /\ firsts # {}
    OBVIOUS
  <2> HIDE DEF firsts
  <2>2. PICK least \in firsts : \A y \in firsts : least <= y
    BY <2>1, LeastNatural
  <2> QED BY <2>2 DEF firsts
<1> DEFINE tops == {x \in q : x[1] = top[1]}
           nodes == {x[2] : x \in tops}
<1>2. PICK n \in nodes : \A m \in nodes : n <= m
  <2>1. nodes \subseteq g.nodes /\ nodes # {}
    OBVIOUS
  <2> HIDE DEF nodes
  <2>2. IsFiniteSet(nodes) /\ nodes \in SUBSET Int
    BY <2>1, NodesAreFinite, FS_Subset, PositionAssumption DEF WellFormed
  <2> QED BY <2>1, <2>2, LeastInteger
<1>3. PICK least \in tops : least[2] = n
  OBVIOUS
<1>4. \A x \in q : x[1] \in Nat /\ x[2] \in Int
  BY PositionAssumption DEF WellFormed
<1>5. ASSUME NEW x \in q
      PROVE  least[1] < x[1] \/ (least[1] = x[1] /\ least[2] <= x[2])
  <2>1. CASE x[1] = top[1]
    BY <1>2, <1>3, <2>1
  <2>2. CASE x[1] # top[1]
    BY <1>1, <1>3, <1>4, <2>2
  <2> QED BY <2>1, <2>2
<1>6. \E y \in q : \A x \in q : y[1] < x[1] \/ (y[1] = x[1] /\ y[2] <= x[2])
  BY <1>3, <1>5
<1>7. /\ Least(q) \in q
      /\ \A x \in q : Least(q)[1] < x[1] \/ (Least(q)[1] = x[1] /\ Least(q)[2] <= x[2])
  BY <1>6 DEF Least
<1> QED BY <1>4, <1>7

\* A node with a distance is reached by its predecessor, which is settled.
Known(g, e, dist, prev, vis) ==
  /\ e[1] \in g.nodes /\ e[2] \in g.nodes
  /\ dist \in [DOMAIN dist -> Nat] /\ DOMAIN dist \subseteq g.nodes
  /\ vis \subseteq DOMAIN dist
  /\ e[1] \in DOMAIN dist /\ dist[e[1]] = 0
  /\ \A v \in DOMAIN dist \ {e[1]} :
       /\ v \in DOMAIN prev /\ prev[v] \in vis
       /\ v \in Neighbours(g, prev[v])
       /\ dist[v] = dist[prev[v]] + Weight(g, prev[v], v)

\* What is settled is at its distance: its neighbours are known, and the rest is no nearer.
Settled(g, dist, vis) ==
  /\ \A u \in vis : \A v \in Neighbours(g, u) :
       v \in DOMAIN dist /\ dist[v] <= dist[u] + Weight(g, u, v)
  /\ \A u \in vis, v \in DOMAIN dist \ vis : dist[u] <= dist[v]

\* The heap may hold stale elements, never one that is too near, and for every node
\* that is not settled it holds the distance.
Queued(dist, vis, q) ==
  /\ q \in SUBSET (Nat \X DOMAIN dist)
  /\ \A x \in q : dist[x[2]] <= x[1]
  /\ \A v \in DOMAIN dist \ vis : <<dist[v], v>> \in q

\* No distance is less than what as many steps as nodes are settled may reach.
Walked(g, e, dist, vis) ==
  \A v \in DOMAIN dist :
    /\ v \in DOMAIN Costs(g, e[1])[Cardinality(vis)]
    /\ Costs(g, e[1])[Cardinality(vis)][v] <= dist[v]

Frontier(g, e, dist, prev, vis, q) ==
  /\ Known(g, e, dist, prev, vis)
  /\ Settled(g, dist, vis)
  /\ Queued(dist, vis, q)
  /\ Walked(g, e, dist, vis)
  /\ e[2] \notin vis

\* The search starts at the first end.
LEMMA FrontierStarts ==
  ASSUME NEW g, WellFormed(g), NEW e, e[1] \in g.nodes, e[2] \in g.nodes
  PROVE  Frontier(g, e, [n \in {e[1]} |-> 0], <<>>, {}, {<<0, e[1]>>})
<1> PICK s : s = e[1]
  OBVIOUS
<1> PICK dist : dist = [n \in {s} |-> 0]
  OBVIOUS
<1>1. DOMAIN dist = {s} /\ dist[s] = 0 /\ dist \in [DOMAIN dist -> Nat] /\ s \in g.nodes
  OBVIOUS
<1>2. Known(g, e, dist, <<>>, {})
  BY <1>1 DEF Known
<1>3. Settled(g, dist, {})
  BY DEF Settled
<1>4. Queued(dist, {}, {<<0, s>>})
  BY <1>1 DEF Queued
<1>5. Cardinality({}) = 0
  BY FS_EmptySet
<1>6. Costs(g, s)[0] = [n \in {s} |-> 0]
  BY CostsFacts DEF CostsFrom
<1>7. Walked(g, e, dist, {})
  BY <1>1, <1>5, <1>6 DEF Walked
<1> QED BY <1>2, <1>3, <1>4, <1>7 DEF Frontier

\* The heap's least element is that of a node that is not settled, at its distance, or stale.
LEMMA TopFacts ==
  ASSUME NEW g, WellFormed(g), NEW e, NEW dist, NEW prev, NEW vis, NEW q, q # {},
         Frontier(g, e, dist, prev, vis, q)
  PROVE  /\ Least(q) \in q /\ Least(q)[2] \in DOMAIN dist
         /\ Least(q)[2] \notin vis =>
              /\ Least(q) = <<dist[Least(q)[2]], Least(q)[2]>>
              /\ \A v \in DOMAIN dist \ vis : dist[Least(q)[2]] <= dist[v]
<1>1. q \in SUBSET (Nat \X g.nodes)
  BY DEF Frontier, Known, Queued
<1>2. PICK top : top = Least(q)
  OBVIOUS
<1>3. top \in q /\ \A x \in q : top[1] <= x[1]
  BY <1>1, <1>2, LeastFacts
<1>4. top[2] \in DOMAIN dist /\ top[1] \in Nat /\ top = <<top[1], top[2]>> /\ dist[top[2]] <= top[1]
  BY <1>3 DEF Frontier, Queued
<1>5. \A v \in DOMAIN dist \ vis : top[1] <= dist[v]
  BY <1>3 DEF Frontier, Queued
<1>6. dist[top[2]] \in Nat
  BY <1>4 DEF Frontier, Known
<1>7. ASSUME top[2] \notin vis
      PROVE  top[1] = dist[top[2]]
  BY <1>4, <1>5, <1>6, <1>7
<1> QED BY <1>2, <1>3, <1>4, <1>5, <1>7

\* A stale element is dropped.
LEMMA FrontierDrops ==
  ASSUME NEW g, NEW e, NEW dist, NEW prev, NEW vis, NEW q,
         Frontier(g, e, dist, prev, vis, q), NEW x, x[2] \in vis
  PROVE  Frontier(g, e, dist, prev, vis, q \ {x})
<1>1. \A v \in DOMAIN dist \ vis : <<dist[v], v>> # x
  OBVIOUS
<1>2. Queued(dist, vis, q \ {x})
  BY <1>1 DEF Frontier, Queued
<1> QED BY <1>2 DEF Frontier

\* The nodes that are nearer by way of u, and what is then known of them.
Nearer(g, dist, vis, u, d) ==
  {v \in Neighbours(g, u) \ (vis \cup {u}) :
     v \notin DOMAIN dist \/ d + Weight(g, u, v) < dist[v]}

RelaxedDistance(g, dist, better, u, d) ==
  [v \in DOMAIN dist \cup better |-> IF v \in better THEN d + Weight(g, u, v) ELSE dist[v]]

RelaxedPrevious(prev, better, u) ==
  [v \in DOMAIN prev \cup better |-> IF v \in better THEN u ELSE prev[v]]

RelaxedQueue(g, q, better, u, d) ==
  (q \ {<<d, u>>}) \cup {<<d + Weight(g, u, v), v>> : v \in better}

\* The nearest node that is not settled is settled, and its neighbours are looked at.
LEMMA FrontierRelaxes ==
  ASSUME NEW g, WellFormed(g), NEW e, NEW dist, NEW prev, NEW vis, NEW q,
         Frontier(g, e, dist, prev, vis, q),
         NEW u \in DOMAIN dist \ vis, u # e[2], NEW d, d = dist[u],
         \A v \in DOMAIN dist \ vis : d <= dist[v],
         NEW better, better = Nearer(g, dist, vis, u, d)
  PROVE  Frontier(g, e, RelaxedDistance(g, dist, better, u, d), RelaxedPrevious(prev, better, u),
                  vis \cup {u}, RelaxedQueue(g, q, better, u, d))
<1> PICK dist2 : dist2 = RelaxedDistance(g, dist, better, u, d)
  OBVIOUS
<1> PICK prev2 : prev2 = RelaxedPrevious(prev, better, u)
  OBVIOUS
<1> PICK vis2 : vis2 = vis \cup {u}
  OBVIOUS
<1> PICK q2 : q2 = RelaxedQueue(g, q, better, u, d)
  OBVIOUS
<1>1. /\ e[1] \in g.nodes /\ e[2] \in g.nodes
      /\ DOMAIN dist \subseteq g.nodes
      /\ \A v \in DOMAIN dist : dist[v] \in Nat
      /\ vis \subseteq DOMAIN dist
      /\ e[1] \in DOMAIN dist /\ dist[e[1]] = 0
  BY DEF Frontier, Known
<1>2. d \in Nat
  BY <1>1
<1>3. ASSUME NEW v \in better
      PROVE  /\ v \in Neighbours(g, u) /\ v \notin vis2 /\ v \in g.nodes
             /\ Weight(g, u, v) \in Nat
             /\ v \in DOMAIN dist => d + Weight(g, u, v) < dist[v]
  BY NeighbourFacts DEF Nearer
<1>4. e[1] \notin better
  BY <1>1, <1>2, <1>3
<1>5. /\ DOMAIN dist2 = DOMAIN dist \cup better
      /\ \A v \in better : dist2[v] = d + Weight(g, u, v)
      /\ \A v \in DOMAIN dist \ better : dist2[v] = dist[v]
  BY DEF RelaxedDistance
<1>6. /\ DOMAIN prev2 = DOMAIN prev \cup better
      /\ \A v \in better : prev2[v] = u
      /\ \A v \in DOMAIN prev \ better : prev2[v] = prev[v]
  BY DEF RelaxedPrevious
<1>7. \A v \in vis2 : v \in DOMAIN dist /\ v \notin better /\ dist2[v] = dist[v]
  BY <1>1, <1>3, <1>5
<1>8. \A v \in DOMAIN dist2 : dist2[v] \in Nat
  BY <1>1, <1>2, <1>3, <1>5
<1>9. \A v \in DOMAIN dist : v \in DOMAIN dist2 /\ dist2[v] <= dist[v]
  BY <1>1, <1>2, <1>3, <1>5
<1>10. u \in vis2 /\ dist2[u] = d
  BY <1>7
<1>11. Known(g, e, dist2, prev2, vis2)
  <2>1. dist2 \in [DOMAIN dist2 -> Nat]
    <3>1. dist2 = [v \in DOMAIN dist2 |-> dist2[v]]
      BY DEF RelaxedDistance
    <3> QED BY <1>8, <3>1
  <2>2. DOMAIN dist2 \subseteq g.nodes /\ vis2 \subseteq DOMAIN dist2
    BY <1>1, <1>3, <1>5
  <2>3. e[1] \in DOMAIN dist2 /\ dist2[e[1]] = 0
    BY <1>1, <1>4, <1>5
  <2>4. ASSUME NEW v \in DOMAIN dist2 \ {e[1]}
        PROVE  /\ v \in DOMAIN prev2 /\ prev2[v] \in vis2
               /\ v \in Neighbours(g, prev2[v])
               /\ dist2[v] = dist2[prev2[v]] + Weight(g, prev2[v], v)
    <3>1. CASE v \in better
      BY <1>3, <1>5, <1>6, <1>10, <3>1
    <3>2. CASE v \notin better
      <4>1. /\ v \in DOMAIN dist /\ v \in DOMAIN prev /\ prev[v] \in vis
            /\ v \in Neighbours(g, prev[v])
            /\ dist[v] = dist[prev[v]] + Weight(g, prev[v], v)
        BY <1>5, <3>2 DEF Frontier, Known
      <4> QED BY <1>5, <1>6, <1>7, <3>2, <4>1
    <3> QED BY <3>1, <3>2
  <2> QED BY <1>1, <2>1, <2>2, <2>3, <2>4 DEF Known
<1>12. Settled(g, dist2, vis2)
  <2>1. ASSUME NEW w \in vis2, NEW v \in Neighbours(g, w)
        PROVE  v \in DOMAIN dist2 /\ dist2[v] <= dist2[w] + Weight(g, w, v)
    <3>1. Weight(g, w, v) \in Nat /\ dist2[w] = dist[w] /\ dist[w] \in Nat
      BY <1>1, <1>7, NeighbourFacts
    <3>2. CASE w \in vis
      <4>1. v \in DOMAIN dist /\ dist[v] <= dist[w] + Weight(g, w, v)
        BY <3>2 DEF Frontier, Settled
      <4>2. dist2[v] <= dist[v] /\ v \in DOMAIN dist2 /\ dist[v] \in Nat /\ dist2[v] \in Nat
        BY <1>1, <1>8, <1>9, <4>1
      <4> QED BY <3>1, <4>1, <4>2
    <3>3. CASE w = u
      <4>1. CASE v \in better
        BY <1>2, <1>5, <1>10, <3>1, <3>3, <4>1
      <4>2. CASE v \notin better /\ v \in vis2
        <5>1. dist[v] <= d
          BY <1>1, <1>2, <4>2 DEF Frontier, Settled
        <5>2. dist2[v] = dist[v] /\ dist[v] \in Nat /\ v \in DOMAIN dist2
          BY <1>1, <1>5, <1>7, <4>2
        <5> QED BY <1>2, <1>10, <3>1, <3>3, <5>1, <5>2
      <4>3. CASE v \notin better /\ v \notin vis2
        <5>1. v \in DOMAIN dist /\ ~(d + Weight(g, u, v) < dist[v])
          BY <3>3, <4>3 DEF Nearer
        <5>2. dist[v] \in Nat
          BY <1>1, <5>1
        <5> QED BY <1>2, <1>5, <1>10, <3>1, <3>3, <4>3, <5>1, <5>2
      <4> QED BY <4>1, <4>2, <4>3
    <3> QED BY <3>2, <3>3
  <2>2. ASSUME NEW w \in vis2, NEW v \in DOMAIN dist2 \ vis2 PROVE dist2[w] <= dist2[v]
    <3>1. dist2[w] = dist[w] /\ dist[w] \in Nat
      BY <1>1, <1>7
    <3>2. dist[w] <= d
      BY <1>1, <1>2 DEF Frontier, Settled
    <3>3. d <= dist2[v]
      <4>1. CASE v \in better
        BY <1>2, <1>3, <1>5, <4>1
      <4>2. CASE v \notin better
        BY <1>5, <4>2
      <4> QED BY <4>1, <4>2
    <3>4. dist2[v] \in Nat
      BY <1>8
    <3> QED BY <1>2, <3>1, <3>2, <3>3, <3>4
  <2> QED BY <2>1, <2>2 DEF Settled
<1>13. Queued(dist2, vis2, q2)
  <2>1. q \in SUBSET (Nat \X DOMAIN dist)
        /\ (\A x \in q : dist[x[2]] <= x[1])
        /\ \A v \in DOMAIN dist \ vis : <<dist[v], v>> \in q
    BY DEF Frontier, Queued
  <2>2. ASSUME NEW x \in q2
        PROVE  x \in Nat \X DOMAIN dist2 /\ dist2[x[2]] <= x[1]
    <3>1. CASE x \in q
      <4>1. x \in Nat \X DOMAIN dist /\ dist[x[2]] <= x[1] /\ x[2] \in DOMAIN dist
        BY <2>1, <3>1
      <4>2. dist2[x[2]] <= dist[x[2]] /\ x[2] \in DOMAIN dist2
        BY <1>9, <4>1
      <4>3. dist2[x[2]] \in Nat /\ dist[x[2]] \in Nat /\ x[1] \in Nat
        BY <1>1, <1>8, <4>1, <4>2
      <4> QED BY <4>1, <4>2, <4>3
    <3>2. CASE x \notin q
      <4>1. PICK v \in better : x = <<d + Weight(g, u, v), v>>
        BY <3>2 DEF RelaxedQueue
      <4>2. d + Weight(g, u, v) \in Nat /\ v \in DOMAIN dist2 /\ dist2[v] = d + Weight(g, u, v)
        BY <1>2, <1>3, <1>5
      <4> QED BY <4>1, <4>2
    <3> QED BY <3>1, <3>2
  <2>3. ASSUME NEW v \in DOMAIN dist2 \ vis2 PROVE <<dist2[v], v>> \in q2
    <3>1. CASE v \in better
      BY <1>5, <3>1 DEF RelaxedQueue
    <3>2. CASE v \notin better
      <4>1. v \in DOMAIN dist \ vis /\ dist2[v] = dist[v] /\ v # u
        BY <1>5, <3>2
      <4>2. <<dist[v], v>> \in q /\ <<dist[v], v>> # <<d, u>>
        BY <2>1, <4>1
      <4> QED BY <4>1, <4>2 DEF RelaxedQueue
    <3> QED BY <3>1, <3>2
  <2> QED BY <2>2, <2>3 DEF Queued
<1>14. Walked(g, e, dist2, vis2)
  <2> PICK k : k = Cardinality(vis)
    OBVIOUS
  <2>1. k \in Nat /\ Cardinality(vis2) = k + 1
    <3>1. IsFiniteSet(vis)
      BY <1>1, NodesAreFinite, FS_Subset
    <3> QED BY <3>1, FS_CardinalityType, FS_AddElement
  <2> PICK best : best = Costs(g, e[1])
    OBVIOUS
  <2>2. CostsFrom(best, g, e[1])
    BY <1>1, CostsFacts
  <2>3. best[k] \in CostTables(g) /\ best[k + 1] \in CostTables(g) /\ Extends(g, best[k], best[k + 1])
    BY <2>1, <2>2 DEF CostsFrom
  <2>4. \A v \in DOMAIN dist : v \in DOMAIN best[k] /\ best[k][v] <= dist[v]
    BY DEF Frontier, Walked
  <2>5. ASSUME NEW v \in DOMAIN dist2 PROVE v \in DOMAIN best[k + 1] /\ best[k + 1][v] <= dist2[v]
    <3>1. CASE v \in better
      <4>1. v \in DOMAIN best[k + 1] /\ best[k + 1][v] <= best[k][u] + Weight(g, u, v)
        BY <1>3, <2>3, <2>4, <3>1 DEF Extends
      <4>2. best[k][u] \in Nat /\ best[k + 1][v] \in Nat /\ best[k][u] <= d
        BY <2>3, <2>4, <4>1 DEF CostTables
      <4>3. dist2[v] = d + Weight(g, u, v) /\ Weight(g, u, v) \in Nat
        BY <1>3, <1>5, <3>1
      <4> QED BY <1>2, <4>1, <4>2, <4>3
    <3>2. CASE v \notin better
      <4>1. v \in DOMAIN dist /\ dist2[v] = dist[v] /\ dist[v] \in Nat
        BY <1>1, <1>5, <3>2
      <4>2. v \in DOMAIN best[k + 1] /\ best[k + 1][v] <= best[k][v] /\ best[k][v] <= dist[v]
        BY <2>3, <2>4, <4>1 DEF Extends
      <4>3. best[k + 1][v] \in Nat /\ best[k][v] \in Nat
        BY <2>3, <2>4, <4>1, <4>2 DEF CostTables
      <4> QED BY <4>1, <4>2, <4>3
    <3> QED BY <3>1, <3>2
  <2> QED BY <2>1, <2>5 DEF Walked
<1>15. e[2] \notin vis2
  BY DEF Frontier
<1>16. Frontier(g, e, dist2, prev2, vis2, q2)
  BY <1>11, <1>12, <1>13, <1>14, <1>15 DEF Frontier
<1> QED BY <1>16

\* When the other end is the nearest node that is not settled, no walk to it is cheaper.
LEMMA ArrivalIsLeast ==
  ASSUME NEW g, WellFormed(g), NEW e, NEW dist, NEW prev, NEW vis, NEW q,
         Frontier(g, e, dist, prev, vis, q), e[2] \in DOMAIN dist,
         \A v \in DOMAIN dist \ vis : dist[e[2]] <= dist[v]
  PROVE  LeastCost(g, e[1], e[2]) = dist[e[2]]
<1> PICK D : D = dist[e[2]]
  OBVIOUS
<1>1. /\ e[1] \in g.nodes /\ e[2] \in g.nodes /\ e[2] \notin vis
      /\ DOMAIN dist \subseteq g.nodes
      /\ \A v \in DOMAIN dist : dist[v] \in Nat
      /\ vis \subseteq DOMAIN dist
      /\ e[1] \in DOMAIN dist /\ dist[e[1]] = 0
  BY DEF Frontier, Known
<1>2. D \in Nat
  BY <1>1
<1> DEFINE F == [n \in g.nodes |-> IF n \in vis THEN dist[n] ELSE D]
<1>3. /\ \A n \in vis : F[n] = dist[n]
      /\ \A n \in g.nodes \ vis : F[n] = D
  BY <1>1
<1>4. F \in [g.nodes -> Nat]
  BY <1>1, <1>2
<1> HIDE DEF F
<1>5. F[e[1]] = 0
  <2>1. CASE e[1] \in vis
    BY <1>1, <1>3, <2>1
  <2>2. CASE e[1] \notin vis
    <3>1. D <= 0
      BY <1>1, <2>2
    <3> QED BY <1>1, <1>2, <1>3, <2>2, <3>1
  <2> QED BY <2>1, <2>2
<1>6. \A n \in vis : dist[n] <= D
  BY <1>1 DEF Frontier, Settled
<1>7. ASSUME NEW m \in g.nodes, NEW n \in Neighbours(g, m)
      PROVE  F[n] <= F[m] + Weight(g, m, n)
  <2>1. n \in g.nodes /\ Weight(g, m, n) \in Nat
    BY NeighbourFacts
  <2>2. CASE m \in vis
    <3>1. n \in DOMAIN dist /\ dist[n] <= dist[m] + Weight(g, m, n) /\ dist[n] \in Nat /\ dist[m] \in Nat
      BY <1>1, <2>2 DEF Frontier, Settled
    <3>2. CASE n \in vis
      BY <1>3, <2>2, <3>1, <3>2
    <3>3. CASE n \notin vis
      <4>1. D <= dist[n]
        BY <3>1, <3>3
      <4> QED BY <1>2, <1>3, <2>1, <2>2, <3>1, <3>3, <4>1
    <3> QED BY <3>2, <3>3
  <2>3. CASE m \notin vis
    <3>1. F[m] = D
      BY <1>3, <2>3
    <3>2. F[n] <= D /\ F[n] \in Nat
      BY <1>2, <1>3, <1>4, <1>6, <2>1
    <3> QED BY <1>2, <2>1, <3>1, <3>2
  <2> QED BY <2>2, <2>3
<1>8. Potential(F, g, e[1])
  BY <1>4, <1>5, <1>7 DEF Potential
<1> PICK k : k = Cardinality(vis)
  OBVIOUS
<1> PICK N : N = Cardinality(g.nodes)
  OBVIOUS
<1>9. k \in Nat /\ N \in Nat /\ k <= N
  BY <1>1, NodesAreFinite, FS_Subset, FS_CardinalityType
<1> PICK best : best = Costs(g, e[1])
  OBVIOUS
<1>10. e[2] \in DOMAIN best[k] /\ best[k][e[2]] <= D
  BY DEF Frontier, Walked
<1>11. e[2] \in DOMAIN best[N] /\ best[N][e[2]] <= best[k][e[2]]
  BY <1>1, <1>9, <1>10, CostsDecrease
<1>12. D <= best[N][e[2]]
  <2>1. F[e[2]] <= best[N][e[2]]
    BY <1>1, <1>8, <1>9, <1>11, PotentialBounds
  <2> QED BY <1>1, <1>3, <2>1
<1>13. best[k] \in CostTables(g) /\ best[N] \in CostTables(g)
  BY <1>1, <1>9, CostsFacts DEF CostsFrom
<1>14. best[k][e[2]] \in Nat /\ best[N][e[2]] \in Nat
  BY <1>10, <1>11, <1>13 DEF CostTables
<1>15. best[N][e[2]] = D
  BY <1>2, <1>10, <1>11, <1>12, <1>14
<1> QED BY <1>15 DEF LeastCost

\* What is left of the way back is the distance of the node it has come to.
Traced(g, e, dist, prev, vis, p) ==
  /\ Known(g, e, dist, prev, vis)
  /\ p \in Seq(g.nodes) /\ p # <<>> /\ IsWalk(g, p)
  /\ Last(p) = e[2]
  /\ p[1] \in DOMAIN dist
  /\ Cost(g, p) + dist[p[1]] = LeastCost(g, e[1], e[2])

LEMMA TraceStarts ==
  ASSUME NEW g, WellFormed(g), NEW e, NEW dist, NEW prev, NEW vis, NEW q,
         Frontier(g, e, dist, prev, vis, q), e[2] \in DOMAIN dist,
         \A v \in DOMAIN dist \ vis : dist[e[2]] <= dist[v]
  PROVE  Traced(g, e, dist, prev, vis \cup {e[2]}, <<e[2]>>)
<1> PICK n : n = e[2]
  OBVIOUS
<1>1. Known(g, e, dist, prev, vis \cup {n}) /\ n \in g.nodes /\ dist[n] \in Nat
  BY DEF Frontier, Known
<1>2. <<n>> \in Seq(g.nodes) /\ Len(<<n>>) = 1 /\ <<n>> # <<>>
  BY <1>1, SeqOfOne
<1>3. Last(<<n>>) = n /\ <<n>>[1] = n
  BY <1>2 DEF Last
<1>4. IsWalk(g, <<n>>) /\ Cost(g, <<n>>) = 0
  BY <1>1, CostOfStanding
<1>5. dist[n] = LeastCost(g, e[1], e[2])
  BY ArrivalIsLeast
<1>6. Cost(g, <<n>>) + dist[<<n>>[1]] = LeastCost(g, e[1], e[2])
  BY <1>1, <1>3, <1>4, <1>5
<1> QED BY <1>1, <1>2, <1>3, <1>4, <1>6 DEF Traced

LEMMA TraceGoesBack ==
  ASSUME NEW g, WellFormed(g), NEW e, NEW dist, NEW prev, NEW vis, NEW p,
         Traced(g, e, dist, prev, vis, p), p[1] # e[1]
  PROVE  Traced(g, e, dist, prev, vis, <<prev[p[1]]>> \o p)
<1> PICK v : v = p[1]
  OBVIOUS
<1> PICK n : n = prev[v]
  OBVIOUS
<1> PICK p2 : p2 = <<n>> \o p
  OBVIOUS
<1>1. /\ n \in vis /\ n \in DOMAIN dist /\ n \in g.nodes /\ v \in Neighbours(g, n)
      /\ dist[v] = dist[n] + Weight(g, n, v)
      /\ dist[v] \in Nat /\ dist[n] \in Nat
  BY DEF Traced, Known
<1>2. p \in Seq(g.nodes) /\ p # <<>> /\ IsWalk(g, p)
  BY DEF Traced
<1>3. /\ p2 \in Seq(g.nodes) /\ IsWalk(g, p2) /\ Cost(g, p) \in Nat
      /\ Cost(g, p2) = Weight(g, n, v) + Cost(g, p)
  BY <1>1, <1>2, CostOfStep
<1>4. Len(p2) = Len(p) + 1 /\ Len(p) \in Nat /\ Len(p) # 0 /\ p2[1] = n /\ p2[Len(p) + 1] = p[Len(p)]
  <2>1. <<n>> \in Seq(g.nodes) /\ Len(<<n>>) = 1
    BY <1>1, SeqOfOne
  <2>2. /\ Len(p2) = Len(<<n>>) + Len(p)
        /\ \A i \in 1..Len(<<n>>) + Len(p) :
             p2[i] = IF i <= Len(<<n>>) THEN <<n>>[i] ELSE p[i - Len(<<n>>)]
    BY <1>2, <2>1, ConcatProperties
  <2>3. Len(p) \in Nat /\ Len(p) # 0
    BY <1>2
  <2> QED BY <2>1, <2>2, <2>3
<1>5. p2 # <<>> /\ Last(p2) = Last(p)
  BY <1>2, <1>4 DEF Last
<1>6. Weight(g, n, v) \in Nat
  BY <1>1, NeighbourFacts
<1>7. Cost(g, p) + dist[v] = LeastCost(g, e[1], e[2])
  BY DEF Traced
<1>8. Cost(g, p2) + dist[p2[1]] = LeastCost(g, e[1], e[2])
  BY <1>1, <1>3, <1>4, <1>6, <1>7
<1>9. Traced(g, e, dist, prev, vis, p2)
  BY <1>1, <1>3, <1>4, <1>5, <1>8 DEF Traced
<1> QED BY <1>9

\* When the heap is empty, the other end lies on no component of the first.
LEMMA NothingLeft ==
  ASSUME NEW g, WellFormed(g), NEW e, NEW dist, NEW prev, NEW vis,
         Frontier(g, e, dist, prev, vis, {})
  PROVE  /\ e[2] \notin Component(g, e[1])
         /\ \A c \in ConnectedComponents(g) : ~(e[1] \in c /\ e[2] \in c)
<1>1. vis = DOMAIN dist /\ e[1] \in vis /\ e[2] \notin vis
  BY DEF Frontier, Known, Queued
<1>2. ClosedIn(g, vis)
  BY <1>1 DEF Frontier, Settled, ClosedIn
<1>3. e[2] \notin Component(g, e[1])
  BY <1>1, <1>2, ComponentStays
<1>4. ASSUME NEW c \in ConnectedComponents(g), e[1] \in c, e[2] \in c PROVE FALSE
  <2>1. e[1] \in c \cap vis
    BY <1>1, <1>4
  <2> QED BY <1>1, <1>2, <1>4, <2>1, NotParted
<1> QED BY <1>3, <1>4

----------------------------------------------------------------------------
\* The endpoints

\* A match is a feature known to the request, at its centre, and an alias of it.
LEMMA MatchFacts ==
  ASSUME NEW fs, NEW q, NEW m \in ResolveFeature(fs, q)
  PROVE  \E f \in fs : \E a : m = [feature |-> f, alias |-> a, ends |-> None]
<1>1. CASE m \in MatchByName(fs, q)
  <2>1. PICK h \in Hits(fs, q) :
          m = [feature |-> h.feature, alias |-> AliasOf(h.feature, h.key), ends |-> None]
    BY <1>1 DEF MatchByName, Cheapest
  <2>2. h.feature \in fs
    BY DEF Hits
  <2> QED BY <2>1, <2>2
<1>2. CASE m \in MatchByCoordinate(fs, q.at)
  <2>1. PICK f \in fs : m = [feature |-> f, alias |-> f.aliases[1], ends |-> None]
    BY <1>2 DEF MatchByCoordinate, Cheapest
  <2> QED BY <2>1
<1>3. m \in MatchByName(fs, q) \/ m \in MatchByCoordinate(fs, q.at)
  BY DEF ResolveFeature
<1> QED BY <1>1, <1>2, <1>3

LEMMA ReversePair ==
  ASSUME NEW p, NEW q
  PROVE  Reverse(<<p, q>>) = <<q, p>>
<1>1. Len(<<p, q>>) = 2
  OBVIOUS
<1>2. Reverse(<<p, q>>) = [i \in 1..2 |-> <<p, q>>[(2 - i) + 1]]
  BY <1>1 DEF Reverse
<1> QED BY <1>2

\* The match keeps its alias and its feature's kind; it stays at the centre, or it is
\* moved to one of the ends of a way.
LEMMA AppliedFacts ==
  ASSUME NEW f \in Feature, NEW a, NEW point, NEW m, m = [feature |-> f, alias |-> a, ends |-> None],
         NEW x \in ApplyRunwayPoint(m, point)
  PROVE  /\ x.alias = a /\ x.feature.kind = f.kind /\ x.feature.at \in Point
         /\ \/ x.feature = f /\ x.ends = None
            \/ /\ x.ends = f.way /\ f.way \in Point \X Point /\ f.way # None
               /\ x.feature.at = Thresholds(a, f.way)[IF point = "start" THEN 1 ELSE 2]
<1>1. f.at \in Point /\ f.way \in (Point \X Point) \cup {None} /\ "at" \in DOMAIN f
  BY PlacesAssumption
<1>2. CASE x = m
  BY <1>1, <1>2
<1>3. CASE x # m
  <2> PICK t : t = Thresholds(a, f.way)[IF point = "start" THEN 1 ELSE 2]
    OBVIOUS
  <2>1. AsksForEnds(m, point) /\ x = [m EXCEPT !.ends = f.way, !.feature.at = t]
    BY <1>3 DEF ApplyRunwayPoint
  <2>2. f.way \in Point \X Point /\ f.way # None
    BY <1>1, <2>1 DEF AsksForEnds
  <2>3. t \in Point
    <3>1. Reverse(f.way)[1] = f.way[2] /\ Reverse(f.way)[2] = f.way[1]
      <4>1. PICK p, y : f.way = <<p, y>>
        BY <2>2
      <4> QED BY <4>1, ReversePair
    <3>2. Thresholds(a, f.way) = f.way \/ Thresholds(a, f.way) = Reverse(f.way)
      BY DEF Thresholds
    <3> QED BY <2>2, <3>1, <3>2
  <2>4. x = [feature |-> [f EXCEPT !.at = t], alias |-> a, ends |-> f.way]
    BY <2>1
  <2>5. [f EXCEPT !.at = t].at = t /\ [f EXCEPT !.at = t].kind = f.kind
    BY <1>1
  <2> QED BY <2>2, <2>3, <2>4, <2>5
<1> QED BY <1>2, <1>3

LEMMA EndpointIsPoint ==
  ASSUME NEW fs \in {{}, Feature}, NEW q, q.at \in Point \cup {None}, NEW p \in ResolveEndpoint(fs, q)
  PROVE  p.at \in Point
<1>1. CASE q.at # None
  BY <1>1 DEF ResolveEndpoint
<1>2. CASE q.at = None
  <2>1. PICK m \in ResolveFeature(fs, q) : \E x \in ApplyRunwayPoint(m, q.point) : p.at = x.feature.at
    BY <1>2 DEF ResolveEndpoint
  <2>2. PICK f \in fs : \E a : m = [feature |-> f, alias |-> a, ends |-> None]
    BY MatchFacts
  <2>3. f \in Feature
    OBVIOUS
  <2> QED BY <2>1, <2>2, <2>3, AppliedFacts
<1> QED BY <1>1, <1>2

Endpoint(w) == ResolveEndpoint(features, request[w])

\* The pairs of endpoints the request may resolve to.
Places == [origin : Endpoint("origin"), dest : Endpoint("dest")]

\* Those of them that it has been resolved to.
Resolved == [origin : Endpoint("origin") \cup {None}, dest : Endpoint("dest") \cup {None}]

LEMMA PlacesAreResolved == /\ Places \subseteq Resolved /\ NoPlace \in Resolved
                           /\ Places' \subseteq Resolved' /\ NoPlace \in Resolved'
BY DEF Places, Resolved, NoPlace


LEMMA PlacesArePoints ==
  ASSUME request \in Request, features \in {{}, Feature}, place \in Places
  PROVE  place.origin.at \in Point /\ place.dest.at \in Point
<1>1. /\ request.origin.at \in Point \cup {None} /\ request.dest.at \in Point \cup {None}
  BY PlacesAssumption
<1>2. /\ place.origin \in ResolveEndpoint(features, request.origin)
      /\ place.dest \in ResolveEndpoint(features, request.dest)
  BY DEF Places, Endpoint
<1> QED BY <1>1, <1>2, EndpointIsPoint

----------------------------------------------------------------------------
\* The inductive invariant

Early == {"validate", "features", "origin"}
Resolving == {"dest"}
Fetching == {"area", "around", "radius"}
Late == {"attach", "search", "trace"}

\* What the request has been resolved to, by the phase it is in.
Prepared ==
  /\ request \in Request
  /\ features \in {{}, Feature}
  /\ phase \in Early \cup Resolving \cup Fetching \cup Late \cup {"done"}
  /\ place \in Resolved
  /\ phase \in Early => place = NoPlace
  /\ phase \in Resolving => place.origin \in Endpoint("origin")
  /\ phase \in Fetching \cup Late => place \in Places
  /\ WellFormed(graph)
  /\ parts \in {{}, ConnectedComponents(graph)}
  /\ phase \in Early \cup Resolving \cup Fetching => parts = {}
  /\ phase \in Early \cup Resolving \cup Fetching \cup {"attach"} => previous = <<>> /\ visited = {}

\* The two ends, once the graph has been searched for them.
Attached ==
  /\ parts = ConnectedComponents(graph)
  /\ ends \in AttachEndpoints(graph, parts, place.origin.at, place.dest.at)

Searching == Frontier(graph, ends, distance, previous, visited, queue)

Tracing == Traced(graph, ends, distance, previous, visited, path)

\* The search keeps what Dijkstra's argument needs, the way back what is left of it,
\* and an answer says what they came to.
RoutingInv ==
  /\ Prepared
  /\ phase \in {"search", "trace"} => Attached
  /\ phase = "search" => Searching
  /\ phase = "trace" => Tracing
  /\ Routed => Tracing /\ path[1] = ends[1]
  /\ NoRouteOnlyWhereUnserved

LEMMA RoutingInit == Init => RoutingInv
<1> SUFFICES ASSUME Init PROVE RoutingInv
  OBVIOUS
<1>1. WellFormed(graph)
  BY NoGraphIsWellFormed DEF Init
<1> QED BY <1>1, PlacesAreResolved
        DEF Init, RoutingInv, Prepared, Early, Resolving, Fetching, Late, Routed, NoRouteOnlyWhereUnserved

\* A request that cannot be served ends without a route.
LEMMA FailKeeps ==
  ASSUME RoutingInv, phase # "done", NEW code, Fail(code)
  PROVE  RoutingInv'
<1>1. phase' = "done" /\ answer'.status = "error"
  BY DEF Fail
<1>2. UNCHANGED <<request, features, place, graph, parts, ends, search>>
  BY DEF Fail
<1>3. Prepared'
  BY <1>1, <1>2 DEF RoutingInv, Prepared, Resolved, Endpoint, Early, Resolving, Fetching, Late
<1>4. ~Routed' /\ NoRouteOnlyWhereUnserved'
  BY <1>1 DEF Routed, NoRouteOnlyWhereUnserved
<1> QED BY <1>1, <1>3, <1>4 DEF RoutingInv

\* Before the search, all that matters is what the request has been resolved to.
LEMMA PreparedIsEnough ==
  ASSUME Prepared', phase' \in Early \cup Resolving \cup Fetching \cup {"attach"}
  PROVE  RoutingInv'
BY DEF RoutingInv, Routed, NoRouteOnlyWhereUnserved, Early, Resolving, Fetching

LEMMA ValidateKeeps ==
  ASSUME RoutingInv, Validate
  PROVE  RoutingInv'
<1>1. phase = "validate"
  BY DEF Validate
<1>2. CASE \E code : Fail(code)
  BY <1>1, <1>2, FailKeeps
<1>3. CASE ~ \E code : Fail(code)
  <2>1. /\ Goto(IF RequiresGeocode(request) THEN "features" ELSE "origin")
        /\ UNCHANGED <<features, place, graph, parts, ends>>
    BY <1>3 DEF Validate
  <2>2. phase' \in {"features", "origin"} /\ UNCHANGED <<request, search>>
    BY <2>1 DEF Goto
  <2>3. Prepared'
    BY <1>1, <2>1, <2>2, PlacesAreResolved
    DEF RoutingInv, Prepared, Early, Resolving, Fetching, Late, search, NoPlace
  <2> QED BY <2>2, <2>3, PreparedIsEnough DEF Early
<1> QED BY <1>2, <1>3

LEMMA FetchAirportFeaturesKeeps ==
  ASSUME RoutingInv, FetchAirportFeatures
  PROVE  RoutingInv'
<1>1. phase = "features"
  BY DEF FetchAirportFeatures
<1>2. CASE Fail("overpass")
  BY <1>1, <1>2, FailKeeps
<1>3. CASE features' \in {{}, Feature} /\ Goto("origin") /\ UNCHANGED <<place, graph, parts, ends>>
  <2>1. phase' = "origin" /\ UNCHANGED <<request, search>>
    BY <1>3 DEF Goto
  <2>2. Prepared'
    BY <1>1, <1>3, <2>1, PlacesAreResolved
    DEF RoutingInv, Prepared, Early, Resolving, Fetching, Late, search, NoPlace
  <2> QED BY <2>1, <2>2, PreparedIsEnough DEF Early
<1> QED BY <1>2, <1>3 DEF FetchAirportFeatures

LEMMA ResolveKeeps ==
  ASSUME RoutingInv, NEW w \in {"origin", "dest"}, NEW missing, NEW next, Resolve(w, missing, next),
         (w = "origin" /\ next = "dest") \/ (w = "dest" /\ next \in Fetching)
  PROVE  RoutingInv'
<1>1. phase = w /\ place \in Resolved
  BY DEF Resolve, RoutingInv, Prepared
<1>2. CASE \E code : Fail(code)
  BY <1>1, <1>2, FailKeeps
<1>3. CASE ~ \E code : Fail(code)
  <2>1. PICK endpoint \in Endpoint(w) : place' = [place EXCEPT ![w] = endpoint]
    BY <1>3 DEF Resolve, Endpoint
  <2>2. /\ phase' = next /\ UNCHANGED <<request, search>>
        /\ UNCHANGED <<features, graph, parts, ends>>
    BY <1>3 DEF Resolve, Goto
  <2>3. Endpoint("origin")' = Endpoint("origin") /\ Endpoint("dest")' = Endpoint("dest")
    BY <2>2 DEF Endpoint
  <2>4. CASE w = "origin" /\ next = "dest"
    <3>1. place' \in Resolved' /\ place'.origin \in Endpoint("origin")'
      BY <1>1, <2>1, <2>3, <2>4 DEF Resolved
    <3>2. Prepared'
      BY <1>1, <2>2, <2>4, <3>1 DEF RoutingInv, Prepared, Early, Resolving, Fetching, Late, search
    <3> QED BY <2>2, <2>4, <3>2, PreparedIsEnough DEF Resolving
  <2>5. CASE w = "dest" /\ next \in Fetching
    <3>1. place.origin \in Endpoint("origin")
      BY <1>1, <2>5 DEF RoutingInv, Prepared, Resolving
    <3>2. place' \in Places'
      BY <1>1, <2>1, <2>3, <2>5, <3>1 DEF Places, Resolved
    <3>3. place' \in Resolved'
      BY <3>2, PlacesAreResolved
    <3>4. Prepared'
      BY <1>1, <2>2, <2>5, <3>2, <3>3 DEF RoutingInv, Prepared, Early, Resolving, Fetching, Late, search
    <3> QED BY <2>2, <2>5, <3>4, PreparedIsEnough
  <2> QED BY <2>4, <2>5
<1> QED BY <1>2, <1>3

LEMMA FetchTierKeeps ==
  ASSUME RoutingInv, NEW tier \in Fetching, NEW next \in Fetching \cup {"attach"}, FetchTier(tier, next)
  PROVE  RoutingInv'
<1>1. phase = tier /\ phase # "done"
  BY DEF FetchTier, Fetching
<1>2. CASE Fail("overpass")
  BY <1>1, <1>2, FailKeeps
<1>3. CASE \E ways \in Answer :
             /\ graph' = ParseTaxiwayGraph(ways, request.connectors)
             /\ Goto(IF graph'.nodes # {} THEN "attach" ELSE next)
             /\ UNCHANGED <<features, place, parts, ends>>
  <2>1. WellFormed(graph')
    BY <1>3, ParsedIsWellFormed
  <2>2. /\ phase' \in Fetching \cup {"attach"}
        /\ UNCHANGED <<request, search, features, place, parts, ends>>
    BY <1>3 DEF Goto
  <2>3. parts = {} /\ place \in Places
    BY <1>1 DEF RoutingInv, Prepared
  <2>4. place' \in Places' /\ place' \in Resolved'
    BY <2>2, <2>3, PlacesAreResolved DEF Places, Endpoint
  <2>5. Prepared'
    BY <1>1, <2>1, <2>2, <2>3, <2>4 DEF RoutingInv, Prepared, Early, Resolving, Fetching, Late, search
  <2> QED BY <2>2, <2>5, PreparedIsEnough
<1> QED BY <1>2, <1>3 DEF FetchTier

LEMMA FindComponentsKeeps ==
  ASSUME RoutingInv, FindComponents
  PROVE  RoutingInv'
<1>1. phase = "attach"
  BY DEF FindComponents
<1>2. CASE \E code : Fail(code)
  BY <1>1, <1>2, FailKeeps
<1>3. CASE ~ \E code : Fail(code)
  <2>1. /\ parts' = ConnectedComponents(graph)
        /\ Goto("attach")
        /\ UNCHANGED <<features, place, graph, ends>>
    BY <1>3 DEF FindComponents
  <2>2. phase' = "attach" /\ UNCHANGED <<request, search>>
    BY <2>1 DEF Goto
  <2>3. parts' = ConnectedComponents(graph')
    BY <2>1
  <2>4. place' \in Places' /\ place' \in Resolved'
    BY <1>1, <2>1, <2>2, PlacesAreResolved DEF RoutingInv, Prepared, Late, Places, Endpoint
  <2>5. Prepared'
    BY <1>1, <2>1, <2>2, <2>3, <2>4 DEF RoutingInv, Prepared, Early, Resolving, Fetching, Late, search
  <2> QED BY <2>2, <2>5, PreparedIsEnough
<1> QED BY <1>2, <1>3

LEMMA AttachKeeps ==
  ASSUME RoutingInv, Attach
  PROVE  RoutingInv'
<1>1. /\ phase = "attach" /\ phase' = "search" /\ parts # {}
      /\ UNCHANGED <<request, features, place, graph, parts, previous, visited, path, answer>>
  BY DEF Attach
<1>2. PICK pair \in AttachEndpoints(graph, parts, place.origin.at, place.dest.at) :
        /\ ends' = pair
        /\ distance' = [n \in {pair[1]} |-> 0]
        /\ queue' = {<<0, pair[1]>>}
  BY DEF Attach
<1>3. parts = ConnectedComponents(graph) /\ WellFormed(graph) /\ place \in Places
  BY <1>1 DEF RoutingInv, Prepared, Late
<1>4. place.origin.at \in Point /\ place.dest.at \in Point
  BY <1>3, PlacesArePoints DEF RoutingInv, Prepared
<1>5. pair[1] \in graph.nodes /\ pair[2] \in graph.nodes
  BY <1>2, <1>3, <1>4, AttachedFacts
<1>6. previous = <<>> /\ visited = {}
  BY <1>1 DEF RoutingInv, Prepared
<1>7. Frontier(graph, pair, [n \in {pair[1]} |-> 0], <<>>, {}, {<<0, pair[1]>>})
  BY <1>3, <1>5, FrontierStarts
<1>8. Searching'
  BY <1>1, <1>2, <1>6, <1>7 DEF Searching
<1>9. Attached'
  BY <1>1, <1>2, <1>3 DEF Attached
<1>10. place' \in Places' /\ place' \in Resolved'
  BY <1>1, <1>3, PlacesAreResolved DEF Places, Endpoint
<1>11. Prepared'
  BY <1>1, <1>3, <1>10 DEF RoutingInv, Prepared, Early, Resolving, Fetching, Late
<1> QED BY <1>1, <1>8, <1>9, <1>11 DEF RoutingInv, Routed, NoRouteOnlyWhereUnserved

\* The search and the way back leave what they work on alone.
LEMMA SearchPrepared ==
  ASSUME RoutingInv, phase \in {"search", "trace"}, phase' \in {"search", "trace", "done"},
         UNCHANGED <<request, features, place, graph, parts, ends>>
  PROVE  Prepared' /\ Attached'
<1>1. place \in Places
  BY DEF RoutingInv, Prepared, Late
<1>2. place' \in Places' /\ place' \in Resolved'
  BY <1>1, PlacesAreResolved DEF Places, Endpoint
<1>3. Prepared'
  BY <1>2 DEF RoutingInv, Prepared, Early, Resolving, Fetching, Late
<1>4. Attached'
  BY DEF RoutingInv, Attached
<1> QED BY <1>3, <1>4

LEMMA PopKeeps ==
  ASSUME RoutingInv, Pop
  PROVE  RoutingInv'
<1> PICK top : top = Least(queue)
  OBVIOUS
<1> PICK u : u = top[2]
  OBVIOUS
<1>1. /\ phase = "search" /\ phase' = "search" /\ queue # {}
      /\ UNCHANGED <<request, features, place, graph, parts, ends>>
  BY DEF Pop
<1>2. /\ u \in visited \/ u # ends[2]
      /\ visited' = visited \cup {u}
      /\ IF u \in visited
         THEN queue' = queue \ {top} /\ UNCHANGED <<distance, previous>>
         ELSE Relax(u, top[1])
  BY DEF Pop
<1>3. WellFormed(graph) /\ Frontier(graph, ends, distance, previous, visited, queue)
  BY <1>1 DEF RoutingInv, Prepared, Searching
<1>4. Prepared' /\ Attached'
  BY <1>1, SearchPrepared
<1>5. CASE u \in visited
  <2>1. visited' = visited /\ queue' = queue \ {top} /\ distance' = distance /\ previous' = previous
    BY <1>2, <1>5
  <2>2. Frontier(graph, ends, distance, previous, visited, queue \ {top})
    BY <1>3, <1>5, FrontierDrops
  <2>3. Searching'
    BY <1>1, <2>1, <2>2 DEF Searching
  <2> QED BY <1>1, <1>4, <2>3 DEF RoutingInv, Routed, NoRouteOnlyWhereUnserved
<1>6. CASE u \notin visited
  <2> PICK d : d = top[1]
    OBVIOUS
  <2> PICK better : better = Improved(u, d)
    OBVIOUS
  <2>1. /\ u \in DOMAIN distance /\ d = distance[u]
        /\ \A v \in DOMAIN distance \ visited : d <= distance[v]
    BY <1>1, <1>3, <1>6, TopFacts
  <2>2. better = Nearer(graph, distance, visited, u, d)
    BY DEF Improved, Nearer
  <2>3. Frontier(graph, ends, RelaxedDistance(graph, distance, better, u, d),
                 RelaxedPrevious(previous, better, u), visited \cup {u},
                 RelaxedQueue(graph, queue, better, u, d))
    BY <1>2, <1>3, <1>6, <2>1, <2>2, FrontierRelaxes
  <2>4. /\ distance' = RelaxedDistance(graph, distance, better, u, d)
        /\ previous' = RelaxedPrevious(previous, better, u)
        /\ queue' = RelaxedQueue(graph, queue, better, u, d)
    BY <1>2, <1>6 DEF Relax, RelaxedDistance, RelaxedPrevious, RelaxedQueue
  <2>5. Searching'
    BY <1>1, <1>2, <2>3, <2>4 DEF Searching
  <2> QED BY <1>1, <1>4, <2>5 DEF RoutingInv, Routed, NoRouteOnlyWhereUnserved
<1> QED BY <1>5, <1>6

LEMMA ArriveKeeps ==
  ASSUME RoutingInv, Arrive
  PROVE  RoutingInv'
<1>1. /\ phase = "search" /\ phase' = "trace" /\ queue # {}
      /\ Least(queue)[2] = ends[2] /\ Least(queue)[2] \notin visited
      /\ visited' = visited \cup {ends[2]}
      /\ path' = <<ends[2]>>
      /\ UNCHANGED <<request, features, place, graph, parts, ends, distance, previous>>
  BY DEF Arrive
<1>2. WellFormed(graph) /\ Frontier(graph, ends, distance, previous, visited, queue)
  BY <1>1 DEF RoutingInv, Prepared, Searching
<1>3. Prepared' /\ Attached'
  BY <1>1, SearchPrepared
<1>4. /\ ends[2] \in DOMAIN distance
      /\ \A v \in DOMAIN distance \ visited : distance[ends[2]] <= distance[v]
  BY <1>1, <1>2, TopFacts
<1>5. Traced(graph, ends, distance, previous, visited \cup {ends[2]}, <<ends[2]>>)
  BY <1>2, <1>4, TraceStarts
<1>6. Tracing'
  BY <1>1, <1>5 DEF Tracing
<1> QED BY <1>1, <1>3, <1>6 DEF RoutingInv, Routed, NoRouteOnlyWhereUnserved

LEMMA TraceBackKeeps ==
  ASSUME RoutingInv, TraceBack
  PROVE  RoutingInv'
<1>1. /\ phase = "trace" /\ phase' = "trace" /\ path[1] # ends[1]
      /\ path' = <<previous[path[1]]>> \o path
      /\ UNCHANGED <<request, features, place, graph, parts, ends, distance, previous, visited>>
  BY DEF TraceBack
<1>2. WellFormed(graph) /\ Traced(graph, ends, distance, previous, visited, path)
  BY <1>1 DEF RoutingInv, Prepared, Tracing
<1>3. Prepared' /\ Attached'
  BY <1>1, SearchPrepared
<1>4. Traced(graph, ends, distance, previous, visited, <<previous[path[1]]>> \o path)
  BY <1>1, <1>2, TraceGoesBack
<1>5. Tracing'
  BY <1>1, <1>4 DEF Tracing
<1> QED BY <1>1, <1>3, <1>5 DEF RoutingInv, Routed, NoRouteOnlyWhereUnserved

LEMMA RespondKeeps ==
  ASSUME RoutingInv, Respond
  PROVE  RoutingInv'
<1>1. /\ phase = "trace" /\ phase' = "done" /\ path[1] = ends[1]
      /\ answer'.status = "route"
      /\ UNCHANGED <<request, features, place, graph, parts, ends, search>>
  BY DEF Respond
<1>2. Prepared'
  BY <1>1, SearchPrepared
<1>3. Tracing' /\ path'[1] = ends'[1]
  BY <1>1 DEF RoutingInv, Tracing, search
<1> QED BY <1>1, <1>2, <1>3 DEF RoutingInv, NoRouteOnlyWhereUnserved

LEMMA NoRouteKeeps ==
  ASSUME RoutingInv, NoRoute
  PROVE  RoutingInv'
<1>1. /\ phase = "search" /\ phase' = "done" /\ queue = {}
      /\ answer' = [status |-> "no_route", same_component |-> ends[2] \in Component(graph, ends[1])]
      /\ UNCHANGED <<request, features, place, graph, parts, ends, search>>
  BY DEF NoRoute
<1>2. /\ WellFormed(graph) /\ Frontier(graph, ends, distance, previous, visited, {})
      /\ place \in Places
  BY <1>1 DEF RoutingInv, Prepared, Late, Searching
<1>3. /\ parts = ConnectedComponents(graph)
      /\ ends \in AttachEndpoints(graph, ConnectedComponents(graph), place.origin.at, place.dest.at)
  BY <1>1 DEF RoutingInv, Attached
<1>4. place.origin.at \in Point /\ place.dest.at \in Point
  BY <1>2, PlacesArePoints DEF RoutingInv, Prepared
<1>5. /\ ends[2] \notin Component(graph, ends[1])
      /\ \A c \in ConnectedComponents(graph) : ~(ends[1] \in c /\ ends[2] \in c)
  BY <1>2, NothingLeft
<1>6. \A c \in parts : Unserved(c, place.origin.at) \/ Unserved(c, place.dest.at)
  BY <1>2, <1>3, <1>4, <1>5, AttachedFacts
<1>7. ~answer'.same_component /\ answer'.status = "no_route"
  BY <1>1, <1>5
<1>8. NoRouteOnlyWhereUnserved'
  BY <1>1, <1>6, <1>7 DEF NoRouteOnlyWhereUnserved, Unserved
<1>9. Prepared'
  BY <1>1, SearchPrepared
<1> QED BY <1>1, <1>7, <1>8, <1>9 DEF RoutingInv, Routed

LEMMA RoutingStep == RoutingInv /\ [Next]_vars => RoutingInv'
<1> SUFFICES ASSUME RoutingInv, [Next]_vars PROVE RoutingInv'
  OBVIOUS
<1>1. ASSUME FetchArea \/ FetchAround \/ FetchRadius PROVE RoutingInv'
  <2>1. \E tier \in Fetching, next \in Fetching \cup {"attach"} : FetchTier(tier, next)
    BY <1>1 DEF FetchArea, FetchAround, FetchRadius, Fetching
  <2> QED BY <2>1, FetchTierKeeps
<1>2. ASSUME ResolveOrigin \/ ResolveDest PROVE RoutingInv'
  BY <1>2, ResolveKeeps DEF ResolveOrigin, ResolveDest, Fetching
<1>3. CASE UNCHANGED vars
  <2>1. Prepared'
    BY <1>3 DEF vars, search, RoutingInv, Prepared, Places, Resolved, Endpoint
  <2>2. Attached' = Attached /\ Searching' = Searching /\ Tracing' = Tracing /\ Routed' = Routed
    BY <1>3 DEF vars, search, Attached, Searching, Tracing, Routed
  <2>3. NoRouteOnlyWhereUnserved' = NoRouteOnlyWhereUnserved
    BY <1>3 DEF vars, search, NoRouteOnlyWhereUnserved
  <2> QED BY <1>3, <2>1, <2>2, <2>3 DEF vars, search, RoutingInv
<1> QED BY <1>1, <1>2, <1>3, ValidateKeeps, FetchAirportFeaturesKeeps, FindComponentsKeeps,
        AttachKeeps, PopKeeps, ArriveKeeps, TraceBackKeeps, RespondKeeps, NoRouteKeeps DEF Next

\* The invariant holds in every reachable state.
THEOREM RoutingSoundness == Spec => []RoutingInv
<1>1. Init => RoutingInv
  BY RoutingInit
<1>2. RoutingInv /\ [Next]_vars => RoutingInv'
  BY RoutingStep
<1> QED BY <1>1, <1>2, PTL DEF Spec

\* shortest_path: on every field and for every answer of Overpass, the route is a walk
\* from one attachment to the other, and none in the graph costs less.
THEOREM RouteIsCheapest == Spec => []ShortestRoute
<1>1. RoutingInv => ShortestRoute
  <2> SUFFICES ASSUME RoutingInv, Routed PROVE /\ path[1] = ends[1] /\ Last(path) = ends[2]
                                             /\ IsWalk(graph, path)
                                             /\ Cost(graph, path) = LeastCost(graph, ends[1], ends[2])
    BY DEF ShortestRoute
  <2>1. Traced(graph, ends, distance, previous, visited, path) /\ path[1] = ends[1] /\ WellFormed(graph)
    BY DEF RoutingInv, Prepared, Tracing
  <2>2. PICK up : Tally(up, graph, path) /\ Cost(graph, path) = up[Len(path) - 1]
    BY <2>1, CostIsTallied DEF Traced
  <2>3. Len(path) - 1 \in 0..Len(path) - 1
    BY <2>1 DEF Traced
  <2>4. Cost(graph, path) \in Nat
    BY <2>2, <2>3 DEF Tally
  <2>5. Cost(graph, path) + 0 = LeastCost(graph, ends[1], ends[2])
    BY <2>1 DEF Traced, Known
  <2> QED BY <2>1, <2>4, <2>5 DEF Traced
<1> QED BY <1>1, RoutingSoundness, PTL

\* attach_endpoints with shortest_path: without a route no part of the network lies near
\* both endpoints.
THEOREM NoRouteMeansUnserved == Spec => []NoRouteOnlyWhereUnserved
<1>1. RoutingInv => NoRouteOnlyWhereUnserved
  BY DEF RoutingInv
<1> QED BY <1>1, RoutingSoundness, PTL

----------------------------------------------------------------------------
\* Names

LEMMA BiasIsSmall ==
  ASSUME NEW f, NEW said, NEW q
  PROVE  Bias(f, said, q) \in Int /\ -10 <= Bias(f, said, q) /\ Bias(f, said, q) <= 100
<1>1. /\ (IF ~RunwayBias(q.name) THEN 0 ELSE IF f.kind = "runway" THEN 20 ELSE -10) \in {0, 20, -10}
      /\ (IF f.kind = "runway" /\ said[1] \in Digit THEN 10 ELSE 0) \in {10, 0}
      /\ (IF f.kind \in {"stand", "gate"} THEN 2 ELSE 0) \in {2, 0}
      /\ (IF q.prefer = "stand" /\ f.kind \in {"stand", "gate"} THEN 50
          ELSE IF q.prefer = "runway" /\ f.kind = "runway" THEN 50 ELSE 0) \in {50, 0}
  OBVIOUS
<1>2. \A a \in {0, 20, -10}, b \in {10, 0}, c \in {2, 0}, d \in {50, 0} :
        a + b + c + d \in Int /\ -10 <= a + b + c + d /\ a + b + c + d <= 100
  OBVIOUS
<1> QED BY <1>1, <1>2 DEF Bias

\* The alias that stands for a key has it as a variant.
LEMMA AliasFacts ==
  ASSUME NEW f \in Feature, NEW key \in Keys(f)
  PROVE  \E i \in DOMAIN f.aliases : AliasOf(f, key) = f.aliases[i] /\ key \in Variants(f.aliases[i])
<1> DEFINE having == {i \in DOMAIN f.aliases : key \in Variants(f.aliases[i])}
<1>1. having \in SUBSET Nat
  BY PlacesAssumption
<1>2. having # {}
  BY DEF Keys
<1>3. Min(having) \in having
  <2> HIDE DEF having
  <2> QED BY <1>1, <1>2, MinIsLeast
<1>4. AliasOf(f, key) = f.aliases[Min(having)]
  BY DEF AliasOf
<1> HIDE DEF having
<1>5. PICK i : i = Min(having)
  OBVIOUS
<1> QED BY <1>3, <1>4, <1>5 DEF having

\* A match by name alone is one of the best hits, and an exact one if there is any.
LEMMA ExactMatch ==
  ASSUME NEW fs \in {{}, Feature}, NEW q, q.at = None, NEW m \in ResolveFeature(fs, q)
  PROVE  /\ m.feature \in Feature /\ fs = Feature
         /\ m = [feature |-> m.feature, alias |-> m.alias, ends |-> None]
         /\ \E i \in DOMAIN m.feature.aliases : m.alias = m.feature.aliases[i]
         /\ (\E f \in fs : \E i \in DOMAIN f.aliases : SameName(f.aliases[i], q.name)) =>
              SameName(m.alias, q.name)
<1>1. m \in MatchByName(fs, q)
  BY DEF ResolveFeature
<1>2. PICK best \in Hits(fs, q) :
        /\ m = [feature |-> best.feature, alias |-> AliasOf(best.feature, best.key), ends |-> None]
        /\ \A h \in Hits(fs, q) : -Score(best, q) <= -Score(h, q)
  BY <1>1 DEF MatchByName, Cheapest
<1>3. best \in Hits(fs, q)
  OBVIOUS
<1>4. /\ best.feature \in fs /\ best.key \in Keys(best.feature) /\ best.said \in Variants(q.name)
      /\ m.feature = best.feature /\ m.alias = AliasOf(best.feature, best.key)
      /\ m = [feature |-> m.feature, alias |-> m.alias, ends |-> None]
  BY <1>2, <1>3 DEF Hits
<1>5. fs = Feature
  BY <1>4
<1>6. PICK i \in DOMAIN m.feature.aliases :
        m.alias = m.feature.aliases[i] /\ best.key \in Variants(m.feature.aliases[i])
  BY <1>4, <1>5, AliasFacts
<1>7. ASSUME NEW f \in fs, NEW n \in DOMAIN f.aliases, SameName(f.aliases[n], q.name)
      PROVE  SameName(m.alias, q.name)
  <2>1. PICK v \in Variants(f.aliases[n]) : v \in Variants(q.name)
    BY <1>7 DEF SameName
  <2>2. v \in Keys(f)
    BY <2>1 DEF Keys
  <2> PICK h : h = [feature |-> f, key |-> v, said |-> v]
    OBVIOUS
  <2>3. h \in Hits(fs, q) /\ h.feature = f /\ h.key = v /\ h.said = v
    BY <2>1, <2>2 DEF Hits
  <2>4. Score(h, q) = 1000 + Bias(f, v, q) /\ Bias(f, v, q) \in Int /\ -10 <= Bias(f, v, q)
    BY <2>3, BiasIsSmall DEF Score, EXACT
  <2>5. -Score(best, q) <= -Score(h, q)
    BY <1>2, <2>3
  <2>6. /\ Bias(best.feature, best.said, q) \in Int /\ Bias(best.feature, best.said, q) <= 100
        /\ best.key # best.said => Score(best, q) = 700 + Bias(best.feature, best.said, q)
    BY BiasIsSmall DEF Score, PART
  <2>7. best.key = best.said
    BY <2>4, <2>5, <2>6
  <2> QED BY <1>4, <1>6, <2>7 DEF SameName
<1> QED BY <1>4, <1>5, <1>6, <1>7

\* The match m that the endpoint w comes from, before it is moved to the runway's end.
ComesFrom(w, m) ==
  /\ m.feature \in Feature
  /\ m = [feature |-> m.feature, alias |-> m.alias, ends |-> None]
  /\ \E i \in DOMAIN m.feature.aliases : m.alias = m.feature.aliases[i]
  /\ place[w].match \in ApplyRunwayPoint(m, request[w].point)
  /\ (\E f \in Feature : \E i \in DOMAIN f.aliases : SameName(f.aliases[i], request[w].name)) =>
       SameName(m.alias, request[w].name)

\* An endpoint given by name alone comes from a match of that name.
LEMMA PlaceByName ==
  ASSUME Prepared, NEW w \in ByName
  PROVE  \E m : ComesFrom(w, m)
<1>1. w \in {"origin", "dest"} /\ place[w] # None /\ request[w].at = None
  BY DEF ByName
<1>2. place[w] \in ResolveEndpoint(features, request[w])
  BY <1>1 DEF Prepared, Resolved, Endpoint
<1>3. features \in {{}, Feature}
  BY DEF Prepared
<1>4. PICK m \in ResolveFeature(features, request[w]) :
        \E x \in ApplyRunwayPoint(m, request[w].point) : place[w] = [at |-> x.feature.at, match |-> x]
  BY <1>1, <1>2 DEF ResolveEndpoint
<1>5. /\ m.feature \in Feature /\ features = Feature
      /\ m = [feature |-> m.feature, alias |-> m.alias, ends |-> None]
      /\ \E i \in DOMAIN m.feature.aliases : m.alias = m.feature.aliases[i]
      /\ (\E f \in features : \E i \in DOMAIN f.aliases : SameName(f.aliases[i], request[w].name)) =>
           SameName(m.alias, request[w].name)
  BY <1>1, <1>3, ExactMatch
<1>6. place[w].match \in ApplyRunwayPoint(m, request[w].point)
  BY <1>4
<1> QED BY <1>5, <1>6 DEF ComesFrom

\* match_feature_by_name: whatever longer names contain it, whatever the bias.
THEOREM ExactNameAlwaysWins == Spec => []ExactNameWins
<1>1. RoutingInv => ExactNameWins
  <2> SUFFICES ASSUME RoutingInv, NEW w \in ByName,
                      \E g \in Feature : \E i \in DOMAIN g.aliases : SameName(g.aliases[i], request[w].name)
               PROVE  SameName(place[w].match.alias, request[w].name)
    BY DEF ExactNameWins
  <2>1. PICK m : ComesFrom(w, m)
    BY PlaceByName DEF RoutingInv
  <2>2. /\ m.feature \in Feature /\ m = [feature |-> m.feature, alias |-> m.alias, ends |-> None]
        /\ place[w].match \in ApplyRunwayPoint(m, request[w].point)
        /\ SameName(m.alias, request[w].name)
    BY <2>1 DEF ComesFrom
  <2>3. place[w].match.alias = m.alias
    BY <2>2, AppliedFacts
  <2> QED BY <2>2, <2>3
<1> QED BY <1>1, RoutingSoundness, PTL

----------------------------------------------------------------------------
\* Runway ends

LEMMA DotTurnsRound ==
  ASSUME NEW p \in Point, NEW q \in Point, NEW h \in Point
  PROVE  /\ Dot(Vector(p, q), h) \in Int
         /\ Dot(Vector(q, p), h) = -Dot(Vector(p, q), h)
<1>1. PICK a \in Int, b \in Int : p = <<a, b>>
  BY DEF Point
<1>2. PICK c \in Int, d \in Int : q = <<c, d>>
  BY DEF Point
<1>3. PICK x \in Int, y \in Int : h = <<x, y>>
  BY DEF Point
<1>4. /\ (a - c) * x = -((c - a) * x) /\ (b - d) * y = -((d - b) * y)
      /\ (c - a) * x \in Int /\ (d - b) * y \in Int
  OBVIOUS
<1>5. /\ Dot(Vector(p, q), h) = (c - a) * x + (d - b) * y
      /\ Dot(Vector(q, p), h) = (a - c) * x + (b - d) * y
  BY <1>1, <1>2, <1>3 DEF Dot, Vector
<1> QED BY <1>4, <1>5

\* apply_runway_point: from the first of the thresholds the heading leads to the second.
LEMMA ThresholdFacts ==
  ASSUME NEW p \in Point, NEW q \in Point, NEW alias, NEW d, Joined(alias) = d,
         d \in DOMAIN Heading, Heading[d] \in Point, Dot(Vector(p, q), Heading[d]) # 0
  PROVE  \E here, far \in {p, q} :
           /\ Thresholds(alias, <<p, q>>) = <<here, far>>
           /\ Dot(Vector(here, far), Heading[d]) > 0
<1> PICK h : h = Heading[d]
  OBVIOUS
<1>1. Dot(Vector(p, q), h) \in Int /\ Dot(Vector(q, p), h) = -Dot(Vector(p, q), h)
  BY DotTurnsRound
<1>2. <<p, q>>[1] = p /\ <<p, q>>[2] = q
  OBVIOUS
<1>3. CASE Dot(Vector(p, q), h) < 0
  <2>1. Thresholds(alias, <<p, q>>) = Reverse(<<p, q>>)
    BY <1>2, <1>3 DEF Thresholds
  <2>2. Reverse(<<p, q>>) = <<q, p>>
    BY ReversePair
  <2>3. Dot(Vector(q, p), h) > 0
    BY <1>1, <1>3
  <2> QED BY <2>1, <2>2, <2>3
<1>4. CASE ~(Dot(Vector(p, q), h) < 0)
  <2>1. Thresholds(alias, <<p, q>>) = <<p, q>>
    BY <1>2, <1>4 DEF Thresholds
  <2>2. Dot(Vector(p, q), h) > 0
    BY <1>1, <1>4
  <2> QED BY <2>1, <2>2
<1> QED BY <1>3, <1>4

\* apply_runway_point with match_feature_by_name: on a charted field, a route to or from
\* a runway named by a designator ends at its threshold, or at the end it leads to, when
\* Overpass has told the ends, and at the centre of the runway when it has not.
THEOREM ThresholdIsTheDesignators ==
  ASSUME Charted
  PROVE  Spec => []ThresholdOfDesignator
<1>1. RoutingInv => ThresholdOfDesignator
  <2> SUFFICES ASSUME RoutingInv, NEW w \in ByName, NEW d \in DOMAIN Heading,
                      request[w].name = <<d>>, place[w].match.feature.kind = "runway"
               PROVE  LET m == place[w].match
                          at == m.feature.at
                      IN  IF m.ends = None THEN m.feature \in Feature
                          ELSE /\ at \in ToSet(m.ends)
                               /\ \E other \in ToSet(m.ends) :
                                    Dot(IF request[w].point = "start" THEN Vector(at, other)
                                        ELSE Vector(other, at), Heading[d]) > 0
    BY DEF ThresholdOfDesignator
  <2>1. w \in {"origin", "dest"} /\ request \in Request
    BY DEF ByName, RoutingInv, Prepared
  <2>2. \E g \in Feature : \E i \in DOMAIN g.aliases : SameName(g.aliases[i], <<d>>)
    BY <2>1 DEF Charted
  <2>3. PICK m : ComesFrom(w, m)
    BY PlaceByName DEF RoutingInv
  <2> PICK f, a : f = m.feature /\ a = m.alias
    OBVIOUS
  <2> PICK x : x = place[w].match
    OBVIOUS
  <2>4. /\ f \in Feature /\ m = [feature |-> f, alias |-> a, ends |-> None]
        /\ x \in ApplyRunwayPoint(m, request[w].point)
        /\ SameName(a, <<d>>)
    BY <2>2, <2>3 DEF ComesFrom
  <2>5. PICK i \in DOMAIN f.aliases : a = f.aliases[i]
    BY <2>3 DEF ComesFrom
  <2>6. /\ x.feature.kind = f.kind
        /\ \/ x.feature = f /\ x.ends = None
           \/ /\ x.ends = f.way /\ f.way \in Point \X Point /\ f.way # None
              /\ x.feature.at = Thresholds(a, f.way)[IF request[w].point = "start" THEN 1 ELSE 2]
    BY <2>4, AppliedFacts
  <2>7. /\ Joined(a) = d /\ Heading[d] \in Point
        /\ f.way # None => Dot(Vector(f.way[1], f.way[2]), Heading[d]) # 0
    BY <2>4, <2>5, <2>6, RunwayAssumption DEF Charted
  <2>8. CASE x.ends = None
    BY <2>4, <2>6, <2>8
  <2>9. CASE x.ends # None
    <3>1. /\ x.ends = f.way /\ f.way \in Point \X Point /\ f.way # None
          /\ x.feature.at = Thresholds(a, f.way)[IF request[w].point = "start" THEN 1 ELSE 2]
      BY <2>6, <2>9
    <3>2. PICK p \in Point, q \in Point : f.way = <<p, q>>
      BY <3>1
    <3>3. Dot(Vector(p, q), Heading[d]) # 0
      BY <2>7, <3>1, <3>2
    <3>4. PICK here \in {p, q}, far \in {p, q} :
            Thresholds(a, <<p, q>>) = <<here, far>> /\ Dot(Vector(here, far), Heading[d]) > 0
      BY <2>7, <3>3, ThresholdFacts
    <3>5. x.feature.at = IF request[w].point = "start" THEN here ELSE far
      BY <3>1, <3>2, <3>4
    <3>6. ToSet(x.ends) = {p, q}
      <4>1. DOMAIN <<p, q>> = {1, 2} /\ <<p, q>>[1] = p /\ <<p, q>>[2] = q
        OBVIOUS
      <4> QED BY <3>1, <3>2, <4>1 DEF ToSet
    <3> QED BY <2>9, <3>4, <3>5, <3>6
  <2> QED BY <2>8, <2>9
<1> QED BY <1>1, RoutingSoundness, PTL

----------------------------------------------------------------------------
\* What is picked

\* at tells for every element of t where in s it was picked.
PickedAt(s, kept, k, t, at) ==
  /\ at \in [1..Len(t) -> {i \in 1..k : kept[i]}]
  /\ \A m \in 1..Len(t) : t[m] = s[at[m]]
  /\ \A i \in 1..k : kept[i] => \E m \in 1..Len(t) : at[m] = i
  /\ \A m \in 1..Len(t) - 1 : at[m] < at[m + 1] /\ \A i \in at[m] + 1..at[m + 1] - 1 : ~kept[i]
  /\ t # <<>> => \A i \in at[Len(t)] + 1..k : ~kept[i]

LEMMA PickNothing ==
  ASSUME NEW s, NEW kept
  PROVE  \E at : PickedAt(s, kept, 0, <<>>, at)
<1> DEFINE at == [m \in 1..0 |-> 0]
<1>1. PickedAt(s, kept, 0, <<>>, at)
  BY DEF PickedAt
<1> QED BY <1>1

LEMMA PickAnother ==
  ASSUME NEW T, NEW s \in Seq(T), NEW kept \in [1..Len(s) -> BOOLEAN],
         NEW k \in 0..Len(s), k < Len(s), NEW t \in Seq(T), NEW at, PickedAt(s, kept, k, t, at),
         kept[k + 1]
  PROVE  \E more : PickedAt(s, kept, k + 1, Append(t, s[k + 1]), more)
<1> DEFINE u == Append(t, s[k + 1])
           L == Len(t)
           more == [m \in 1..L + 1 |-> IF m = L + 1 THEN k + 1 ELSE at[m]]
<1>1. L \in Nat /\ s[k + 1] \in T /\ k + 1 \in 1..Len(s) /\ k \in Nat
  OBVIOUS
<1>2. /\ Len(u) = L + 1 /\ u \in Seq(T) /\ u[L + 1] = s[k + 1]
      /\ \A m \in 1..L : u[m] = t[m]
  BY <1>1
<1>3. more[L + 1] = k + 1 /\ \A m \in 1..L : more[m] = at[m]
  BY <1>1
<1>4. \A m \in 1..L : at[m] \in 1..k /\ kept[at[m]]
  BY DEF PickedAt
<1>a. DOMAIN more = 1..L + 1 /\ more = [m \in 1..L + 1 |-> more[m]]
  OBVIOUS
<1> HIDE DEF more, u
<1>5. more \in [1..Len(u) -> {i \in 1..k + 1 : kept[i]}]
  <2>1. ASSUME NEW m \in 1..L + 1 PROVE more[m] \in {i \in 1..k + 1 : kept[i]}
    <3>1. CASE m = L + 1
      BY <1>1, <1>3, <3>1
    <3>2. CASE m # L + 1
      <4>1. m \in 1..L
        BY <1>1, <3>2
      <4> QED BY <1>1, <1>3, <1>4, <4>1
    <3> QED BY <3>1, <3>2
  <2> QED BY <1>2, <1>a, <2>1
<1>6. \A m \in 1..Len(u) : u[m] = s[more[m]]
  <2>1. \A m \in 1..L : t[m] = s[at[m]]
    BY DEF PickedAt
  <2>2. \A m \in 1..L + 1 : m = L + 1 \/ m \in 1..L
    BY <1>1
  <2> QED BY <1>2, <1>3, <2>1, <2>2
<1>7. ASSUME NEW i \in 1..k + 1, kept[i] PROVE \E m \in 1..Len(u) : more[m] = i
  <2>1. CASE i = k + 1
    <3>1. L + 1 \in 1..Len(u)
      BY <1>1, <1>2
    <3> QED BY <1>3, <2>1, <3>1
  <2>2. CASE i # k + 1
    <3>1. i \in 1..k
      BY <1>1, <2>2
    <3>2. PICK m \in 1..L : at[m] = i
      BY <1>7, <3>1 DEF PickedAt
    <3>3. m \in 1..Len(u)
      BY <1>1, <1>2
    <3> QED BY <1>3, <3>2, <3>3
  <2> QED BY <2>1, <2>2
<1>8. ASSUME NEW m \in 1..Len(u) - 1
      PROVE  more[m] < more[m + 1] /\ \A i \in more[m] + 1..more[m + 1] - 1 : ~kept[i]
  <2>1. m \in 1..L /\ m + 1 \in 1..L + 1 /\ (m # L => m \in 1..L - 1 /\ m + 1 \in 1..L)
    BY <1>1, <1>2
  <2>2. CASE m = L
    <3>1. t # <<>>
      BY <2>1, <2>2
    <3>2. \A i \in at[L] + 1..k : ~kept[i]
      BY <3>1 DEF PickedAt
    <3>3. more[m] = at[L] /\ more[m + 1] = k + 1 /\ at[L] \in 1..k
      BY <1>3, <1>4, <2>1, <2>2
    <3> QED BY <1>1, <3>2, <3>3
  <2>3. CASE m # L
    <3>1. more[m] = at[m] /\ more[m + 1] = at[m + 1] /\ m \in 1..L - 1
      BY <1>3, <2>1, <2>3
    <3> QED BY <3>1 DEF PickedAt
  <2> QED BY <2>2, <2>3
<1>9. \A i \in more[Len(u)] + 1..k + 1 : ~kept[i]
  BY <1>1, <1>2, <1>3
<1>10. PickedAt(s, kept, k + 1, u, more)
  BY <1>5, <1>6, <1>7, <1>8, <1>9 DEF PickedAt
<1> QED BY <1>10 DEF u

LEMMA PickNoMore ==
  ASSUME NEW T, NEW s \in Seq(T), NEW kept \in [1..Len(s) -> BOOLEAN],
         NEW k \in 0..Len(s), k < Len(s), NEW t \in Seq(T), NEW at, PickedAt(s, kept, k, t, at),
         ~kept[k + 1]
  PROVE  PickedAt(s, kept, k + 1, t, at)
<1>1. k \in Nat /\ \A i \in 1..k + 1 : i = k + 1 \/ i \in 1..k
  OBVIOUS
<1>2. at \in [1..Len(t) -> {i \in 1..k + 1 : kept[i]}]
  <2>1. {i \in 1..k : kept[i]} \subseteq {i \in 1..k + 1 : kept[i]}
    BY <1>1
  <2>2. at \in [1..Len(t) -> {i \in 1..k : kept[i]}]
    BY DEF PickedAt
  <2> QED BY <2>1, <2>2
<1>3. \A i \in 1..k + 1 : kept[i] => \E m \in 1..Len(t) : at[m] = i
  BY <1>1 DEF PickedAt
<1>4. t # <<>> => \A i \in at[Len(t)] + 1..k + 1 : ~kept[i]
  <2> SUFFICES ASSUME t # <<>>, NEW i \in at[Len(t)] + 1..k + 1 PROVE ~kept[i]
    OBVIOUS
  <2>1. Len(t) \in 1..Len(t)
    OBVIOUS
  <2>2. at[Len(t)] \in 1..k
    BY <2>1 DEF PickedAt
  <2>3. i = k + 1 \/ i \in at[Len(t)] + 1..k
    BY <1>1, <2>2
  <2> QED BY <2>3 DEF PickedAt
<1> QED BY <1>2, <1>3, <1>4 DEF PickedAt

\* Everything that is to be kept is picked, once and in its order.
LEMMA PickFacts ==
  ASSUME NEW T, NEW s \in Seq(T), NEW kept \in [1..Len(s) -> BOOLEAN]
  PROVE  /\ Pick(s, kept) \in Seq(T)
         /\ \E at : PickedAt(s, kept, Len(s), Pick(s, kept), at)
<1> DEFINE N == Len(s)
           S == Seq(T)
           next(k, t) == IF k \in 1..N THEN IF kept[k] THEN Append(t, s[k]) ELSE t ELSE t
           step == [p \in Nat \X S |-> next(p[1], p[2])]
           Recursive(r) ==
             r = [k \in 0..N |-> IF k = 0 THEN <<>>
                                 ELSE IF kept[k] THEN Append(r[k - 1], s[k]) ELSE r[k - 1]]
           r == CHOOSE x : Recursive(x)
<1>1. N \in Nat /\ <<>> \in S /\ \A k \in 1..N : s[k] \in T /\ kept[k] \in BOOLEAN
  OBVIOUS
<1>2. Pick(s, kept) = r[N]
  BY DEF Pick
<1>3. \A k \in Nat, t \in S : next(k, t) \in S
  <2> TAKE k \in Nat, t \in S
  <2>1. CASE k \in 1..N
    <3>1. Append(t, s[k]) \in S
      BY <1>1, <2>1
    <3> QED BY <3>1
  <2> QED BY <2>1
<1>4. \A k \in 1..N, t \in S : next(k, t) = IF kept[k] THEN Append(t, s[k]) ELSE t
  OBVIOUS
<1> HIDE DEF next, S, N
<1>5. step \in [Nat \X S -> S] /\ \A k \in Nat, t \in S : step[<<k, t>>] = next(k, t)
  BY <1>3
<1> HIDE DEF step
<1>6. PICK f : Follows(f, N, S, <<>>, step)
  BY <1>1, <1>5, HistoryOfLength, Zenon
<1>7. \A k \in 0..N : f[k] = IF k = 0 THEN <<>>
                             ELSE IF kept[k] THEN Append(f[k - 1], s[k]) ELSE f[k - 1]
  <2> TAKE k \in 0..N
  <2>1. CASE k = 0
    BY <1>6, <2>1 DEF Follows
  <2>2. CASE k # 0
    <3>1. k \in 1..N /\ k \in Nat /\ k - 1 \in 0..N
      BY <1>1, <2>2
    <3>2. f[k] = step[<<k, f[k - 1]>>] /\ f[k - 1] \in S
      BY <1>6, <3>1 DEF Follows
    <3>3. f[k] = next(k, f[k - 1])
      BY <1>5, <3>1, <3>2
    <3> QED BY <1>4, <2>2, <3>1, <3>2, <3>3
  <2> QED BY <2>1, <2>2
<1>8. f = [k \in 0..N |-> f[k]]
  BY <1>6 DEF Follows
<1>9. Recursive(f)
  BY <1>7, <1>8, Zenon
<1>10. Recursive(r)
  <2> HIDE DEF Recursive
  <2> QED BY <1>9
<1> HIDE DEF r
<1>11. r[0] = <<>>
  BY <1>1, <1>10
<1>12. ASSUME NEW k \in 0..N, k < N
       PROVE  /\ kept[k + 1] => r[k + 1] = Append(r[k], s[k + 1])
              /\ ~kept[k + 1] => r[k + 1] = r[k]
  <2>1. k + 1 \in 0..N /\ k + 1 # 0 /\ (k + 1) - 1 = k
    BY <1>1, <1>12
  <2> QED BY <1>10, <2>1
<1> DEFINE P == {k \in 0..N : r[k] \in S /\ \E at : PickedAt(s, kept, k, r[k], at)}
<1>13. 0 \in P
  <2>1. \E at : PickedAt(s, kept, 0, r[0], at)
    BY <1>11, PickNothing
  <2>2. 0 \in 0..N /\ r[0] \in S
    BY <1>1, <1>11
  <2> QED BY <2>1, <2>2, Zenon
<1>14. ASSUME NEW k \in 0..N, k \in P, k < N PROVE k + 1 \in P
  <2>1. k + 1 \in 0..N /\ k + 1 \in 1..N
    BY <1>1, <1>14
  <2>2. PICK at : PickedAt(s, kept, k, r[k], at)
    BY <1>14
  <2>3. r[k] \in S
    BY <1>14
  <2>4. CASE kept[k + 1]
    <3>1. r[k + 1] = Append(r[k], s[k + 1])
      BY <1>12, <1>14, <2>4
    <3>2. r[k + 1] \in S
      BY <1>1, <2>1, <2>3, <3>1 DEF S
    <3>3. \E more : PickedAt(s, kept, k + 1, Append(r[k], s[k + 1]), more)
      BY <1>14, <2>2, <2>3, <2>4, PickAnother DEF S, N
    <3> QED BY <2>1, <3>1, <3>2, <3>3
  <2>5. CASE ~kept[k + 1]
    <3>1. r[k + 1] = r[k]
      BY <1>12, <1>14, <2>5
    <3>2. PickedAt(s, kept, k + 1, r[k], at)
      BY <1>14, <2>2, <2>3, <2>5, PickNoMore DEF S, N
    <3> QED BY <2>1, <2>3, <3>1, <3>2
  <2> QED BY <2>4, <2>5
<1> HIDE DEF P
<1>15. \A k \in 0..N : k \in P
  BY <1>1, <1>13, <1>14, UpTo
<1>16. N \in P
  BY <1>1, <1>15
<1> QED BY <1>2, <1>16 DEF P, S, N

----------------------------------------------------------------------------
\* What the pilot is told

\* The answer is worked out from the path the search has found.
Told ==
  Routed => /\ answer.steps \in StepNames(graph, path)
            /\ answer.names = CollapseTaxiwayNames(PathNames(answer.steps))
            /\ answer.crossings = Distinct(DetectCrossings(path, EndRunways))

LEMMA ToldStep == Told /\ [Next]_vars => Told'
<1> SUFFICES ASSUME Told, [Next]_vars, Routed' PROVE Told'
  BY DEF Told
<1>1. CASE UNCHANGED vars
  BY <1>1 DEF Told, Routed, vars, search, EndRunways
<1>2. CASE Respond
  <2>1. PICK steps \in StepNames(graph, path) :
          answer' = [status |-> "route", steps |-> steps,
                     crossings |-> Distinct(DetectCrossings(path, EndRunways)),
                     names |-> CollapseTaxiwayNames(PathNames(steps))]
    BY <1>2 DEF Respond
  <2>2. /\ answer'.steps = steps
        /\ answer'.crossings = Distinct(DetectCrossings(path, EndRunways))
        /\ answer'.names = CollapseTaxiwayNames(PathNames(steps))
    BY <2>1
  <2>3. path' = path /\ graph' = graph /\ EndRunways' = EndRunways
    BY <1>2 DEF Respond, search, EndRunways
  <2> QED BY <2>1, <2>2, <2>3 DEF Told
<1>3. ASSUME NEW code, Fail(code) PROVE FALSE
  BY <1>3 DEF Fail, Routed
<1>4. ASSUME NEW tier, NEW next \in Fetching \cup {"attach"}, FetchTier(tier, next) PROVE FALSE
  BY <1>3, <1>4 DEF FetchTier, Goto, Fetching, Routed
<1>5. CASE FetchArea \/ FetchAround \/ FetchRadius
  BY <1>4, <1>5 DEF FetchArea, FetchAround, FetchRadius, Fetching
<1>6. CASE Validate
  BY <1>3, <1>6 DEF Validate, Goto, Routed
<1>7. CASE FetchAirportFeatures
  BY <1>3, <1>7 DEF FetchAirportFeatures, Goto, Routed
<1>8. CASE ResolveOrigin \/ ResolveDest
  BY <1>3, <1>8 DEF ResolveOrigin, ResolveDest, Resolve, Goto, Routed
<1>9. CASE FindComponents
  BY <1>3, <1>9 DEF FindComponents, Goto, Routed
<1>10. CASE Attach \/ Pop \/ Arrive \/ TraceBack \/ NoRoute
  BY <1>10 DEF Attach, Pop, Arrive, TraceBack, NoRoute, Routed
<1> QED BY <1>1, <1>2, <1>5, <1>6, <1>7, <1>8, <1>9, <1>10 DEF Next

\* Every answer tells what the path gives.
THEOREM AnswerIsTold == Spec => []Told
<1>1. Init => Told
  BY DEF Init, Told, Routed
<1> QED BY <1>1, ToldStep, PTL DEF Spec

----------------------------------------------------------------------------
\* Names of taxiways

\* Names that are spoken as one are so for good: the relation is an equivalence.
LEMMA AlikeIsEquivalence ==
  ASSUME NEW a, NEW b, NEW c
  PROVE  /\ Alike(a, a)
         /\ Alike(a, b) => Alike(b, a)
         /\ Alike(a, b) /\ Alike(b, c) => Alike(a, c)
BY DEF Alike, SameNumbered

LEMMA StepsAreSequence ==
  ASSUME NEW g, NEW p, Len(p) \in Nat, NEW steps \in StepNames(g, p)
  PROVE  \E T : steps \in Seq(T)
<1> DEFINE N == Len(p) - 1
           name(i) == {e.name : e \in {f \in g.edges : f.from = p[i] /\ f.to = p[i + 1]}}
           T == UNION {name(i) : i \in 1..N}
<1>1. steps \in [1..N -> T]
  BY DEF StepNames
<1>2. CASE N \in Nat
  <2> HIDE DEF T, N
  <2>1. steps \in Seq(T)
    BY <1>1, <1>2
  <2> QED BY <2>1
<1>3. CASE N \notin Nat
  <2>1. 1..N = 1..0
    BY <1>3
  <2> HIDE DEF T, N
  <2>2. steps \in [1..0 -> T]
    BY <1>1, <2>1
  <2>3. steps \in Seq(T)
    BY <2>2, SMT
  <2> QED BY <2>3
<1> QED BY <1>2, <1>3

\* path_names: every name on the way is said.
LEMMA PathNamesFacts ==
  ASSUME NEW T, NEW steps \in Seq(T)
  PROVE  /\ PathNames(steps) \in Seq(T)
         /\ \A i \in 1..Len(steps) : steps[i] # None =>
              \E m \in 1..Len(PathNames(steps)) : PathNames(steps)[m] = steps[i]
<1> DEFINE kept == [i \in DOMAIN steps |-> steps[i] # None /\ ~Repeats(steps, i)]
           p == PathNames(steps)
<1>1. kept \in [1..Len(steps) -> BOOLEAN] /\ p = Pick(steps, kept)
  BY DEF PathNames
<1>2. \A i \in 1..Len(steps) : kept[i] <=> steps[i] # None /\ ~Repeats(steps, i)
  <2>1. DOMAIN steps = 1..Len(steps)
    OBVIOUS
  <2> QED BY <2>1, Zenon
<1> HIDE DEF kept, p
<1>3. p \in Seq(T)
  BY <1>1, PickFacts
<1>4. PICK at : PickedAt(steps, kept, Len(steps), p, at)
  BY <1>1, PickFacts
<1>5. ASSUME NEW i \in 1..Len(steps), steps[i] # None
      PROVE  \E m \in 1..Len(p) : p[m] = steps[i]
  <2> DEFINE J == {j \in 1..i : steps[j] = steps[i] /\ \A k \in j..i : steps[k] \in {None, steps[i]}}
  <2>1. i \in J /\ J \in SUBSET Nat
    OBVIOUS
  <2>2. PICK j \in J : \A k \in J : j <= k
    <3> HIDE DEF J
    <3> QED BY <2>1, LeastNatural
  <2>3. ~Repeats(steps, j)
    <3> SUFFICES ASSUME NEW h \in 1..j - 1, steps[h] = steps[j],
                        \A k \in h + 1..j - 1 : steps[k] = None
                 PROVE  FALSE
      BY DEF Repeats
    <3>1. h \in 1..i /\ h < j /\ steps[h] = steps[i]
      BY <2>2
    <3>2. \A k \in h..i : k = h \/ k \in h + 1..j - 1 \/ k \in j..i
      BY <2>2
    <3>3. \A k \in h..i : steps[k] \in {None, steps[i]}
      BY <2>2, <3>1, <3>2
    <3>4. h \in J
      BY <3>1, <3>3
    <3> QED BY <2>2, <3>1, <3>4
  <2>4. j \in 1..Len(steps) /\ steps[j] = steps[i]
    BY <2>2
  <2>5. kept[j]
    BY <1>2, <1>5, <2>3, <2>4
  <2>6. PICK m \in 1..Len(p) : at[m] = j
    BY <1>4, <2>4, <2>5 DEF PickedAt
  <2>7. p[m] = steps[j]
    BY <1>4, <2>6 DEF PickedAt
  <2> QED BY <2>4, <2>6, <2>7
<1> QED BY <1>3, <1>5 DEF p

\* collapse_taxiway_names: of names that are alike the first one is said, and what is
\* said next is not like it.
LEMMA CollapsedFacts ==
  ASSUME NEW T, NEW p \in Seq(T)
  PROVE  LET names == CollapseTaxiwayNames(p)
         IN  /\ names \in Seq(T)
             /\ \A q \in 1..Len(p) : \E m \in 1..Len(names) : Alike(names[m], p[q])
             /\ \A m \in 1..Len(names) - 1 : names[m] # names[m + 1]
<1> DEFINE kept == [i \in DOMAIN p |-> i = 1 \/ ~Alike(p[i - 1], p[i])]
           names == CollapseTaxiwayNames(p)
<1>1. kept \in [1..Len(p) -> BOOLEAN] /\ names = Pick(p, kept)
  BY DEF CollapseTaxiwayNames
<1>2. \A i \in 1..Len(p) : kept[i] <=> (i = 1 \/ ~Alike(p[i - 1], p[i]))
  <2>1. DOMAIN p = 1..Len(p)
    OBVIOUS
  <2> QED BY <2>1, Zenon
<1> HIDE DEF kept, names
<1>3. names \in Seq(T)
  BY <1>1, PickFacts
<1>4. PICK at : PickedAt(p, kept, Len(p), names, at)
  BY <1>1, PickFacts
<1>5. ASSUME NEW q \in 1..Len(p)
      PROVE  \E m \in 1..Len(names) : Alike(names[m], p[q])
  <2> DEFINE J == {j \in 1..q : \A k \in j..q : Alike(p[k], p[q])}
  <2>1. q \in J /\ J \in SUBSET Nat
    BY AlikeIsEquivalence
  <2>2. PICK j \in J : \A k \in J : j <= k
    <3> HIDE DEF J
    <3> QED BY <2>1, LeastNatural
  <2>3. j \in 1..q /\ j \in 1..Len(p) /\ Alike(p[j], p[q])
    BY <2>2
  <2>4. j = 1 \/ ~Alike(p[j - 1], p[j])
    <3> SUFFICES ASSUME j # 1, Alike(p[j - 1], p[j]) PROVE FALSE
      OBVIOUS
    <3>1. Alike(p[j - 1], p[q])
      BY <2>3, AlikeIsEquivalence
    <3>2. j - 1 \in 1..q /\ \A k \in j - 1..q : k = j - 1 \/ k \in j..q
      BY <2>3
    <3>3. j - 1 \in J
      BY <2>2, <3>1, <3>2
    <3> QED BY <2>2, <2>3, <3>3
  <2>5. kept[j]
    BY <1>2, <2>3, <2>4
  <2>6. PICK m \in 1..Len(names) : at[m] = j
    BY <1>4, <2>3, <2>5 DEF PickedAt
  <2>7. names[m] = p[j]
    BY <1>4, <2>6 DEF PickedAt
  <2> QED BY <2>3, <2>6, <2>7
<1>6. ASSUME NEW m \in 1..Len(names) - 1, names[m] = names[m + 1] PROVE FALSE
  <2> DEFINE a == at[m]
             b == at[m + 1]
  <2>1. m \in 1..Len(names) /\ m + 1 \in 1..Len(names)
    BY <1>3
  <2>2. /\ a \in 1..Len(p) /\ b \in 1..Len(p) /\ kept[b] /\ a < b
        /\ \A i \in a + 1..b - 1 : ~kept[i]
        /\ p[a] = p[b]
    BY <1>4, <1>6, <2>1 DEF PickedAt
  <2> HIDE DEF a, b
  <2>3. ~Alike(p[b - 1], p[b])
    BY <1>2, <2>2
  <2> DEFINE J == {j \in a..b - 1 : ~Alike(p[j], p[a])}
  <2>4. b - 1 \in J /\ J \in SUBSET Nat
    BY <2>2, <2>3
  <2>5. PICK j \in J : \A k \in J : j <= k
    <3> HIDE DEF J
    <3> QED BY <2>4, LeastNatural
  <2>6. j # a
    BY <2>5, AlikeIsEquivalence
  <2>7. j \in a + 1..b - 1 /\ j \in 1..Len(p) /\ j # 1 /\ j - 1 \in a..b - 1 /\ j - 1 \notin J
    BY <2>2, <2>5, <2>6
  <2>8. Alike(p[j - 1], p[j]) /\ Alike(p[j - 1], p[a])
    BY <1>2, <2>2, <2>7
  <2>9. Alike(p[j], p[a])
    BY <2>8, AlikeIsEquivalence
  <2> QED BY <2>5, <2>9
<1> QED BY <1>3, <1>5, <1>6 DEF names

\* collapse_taxiway_names with path_names: on every field, every named taxiway of the
\* route is spoken, or one with the same letters that is numbered too, and none is
\* spoken twice in a row.
THEOREM EveryTaxiwayIsSpoken == Spec => []TaxiwaysSpoken
<1>1. RoutingInv /\ Told => TaxiwaysSpoken
  <2> SUFFICES ASSUME RoutingInv, Told, Routed
               PROVE  /\ \A i \in DOMAIN answer.steps : answer.steps[i] # None =>
                           \E n \in ToSet(answer.names) :
                             n = answer.steps[i] \/ /\ n.letters = answer.steps[i].letters
                                                     /\ None \notin {n.digits, answer.steps[i].digits}
                      /\ \A i \in 1..Len(answer.names) - 1 : answer.names[i] # answer.names[i + 1]
    BY DEF TaxiwaysSpoken
  <2> DEFINE p == PathNames(answer.steps)
             names == CollapseTaxiwayNames(p)
  <2>1. path \in Seq(graph.nodes)
    BY DEF RoutingInv, Tracing, Traced
  <2>2. answer.steps \in StepNames(graph, path) /\ answer.names = names
    BY DEF Told
  <2>3. PICK T : answer.steps \in Seq(T)
    BY <2>1, <2>2, StepsAreSequence
  <2>4. /\ p \in Seq(T)
        /\ \A i \in 1..Len(answer.steps) : answer.steps[i] # None =>
             \E m \in 1..Len(p) : p[m] = answer.steps[i]
    BY <2>3, PathNamesFacts
  <2> HIDE DEF p
  <2>5. /\ names \in Seq(T)
        /\ \A q \in 1..Len(p) : \E m \in 1..Len(names) : Alike(names[m], p[q])
        /\ \A m \in 1..Len(names) - 1 : names[m] # names[m + 1]
    BY <2>4, CollapsedFacts
  <2> HIDE DEF names
  <2>6. ASSUME NEW i \in DOMAIN answer.steps, answer.steps[i] # None
        PROVE  \E n \in ToSet(names) :
                 n = answer.steps[i] \/ /\ n.letters = answer.steps[i].letters
                                         /\ None \notin {n.digits, answer.steps[i].digits}
    <3>1. i \in 1..Len(answer.steps)
      BY <2>3
    <3>2. PICK q \in 1..Len(p) : p[q] = answer.steps[i]
      BY <2>4, <2>6, <3>1
    <3>3. PICK m \in 1..Len(names) : Alike(names[m], answer.steps[i])
      BY <2>5, <3>2
    <3>4. names[m] \in ToSet(names)
      BY <2>5, <3>3 DEF ToSet
    <3> QED BY <3>3, <3>4 DEF Alike, SameNumbered
  <2> QED BY <2>2, <2>5, <2>6
<1> QED BY <1>1, RoutingSoundness, AnswerIsTold, PTL

----------------------------------------------------------------------------
\* The crossings of the path, one runway after the other on each step

LEMMA DivMod ==
  ASSUME NEW m \in Nat, NEW R \in Nat, R > 0
  PROVE  /\ m \div R \in Nat /\ m % R \in 0..R - 1
         /\ m = R * (m \div R) + (m % R)
OBVIOUS

LEMMA DivModUnique ==
  ASSUME NEW R \in Nat, NEW q \in Nat, NEW k \in 0..R - 1
  PROVE  (q * R + k) \div R = q /\ (q * R + k) % R = k
OBVIOUS

LEMMA DivBound ==
  ASSUME NEW N \in Nat, NEW R \in Nat, NEW q \in Nat, NEW k \in 0..R - 1, R * q + k < N * R
  PROVE  q < N
<1> SUFFICES ASSUME q >= N PROVE FALSE
  OBVIOUS
<1>1. R * q >= R * N
  OBVIOUS
<1> QED BY <1>1

\* What is looked at n-th, and that everything is.
LEMMA VisitFacts ==
  ASSUME NEW N \in Nat, NEW R \in Nat
  PROVE  /\ N * R \in Nat
         /\ \A n \in 1..N * R : 1 + ((n - 1) \div R) \in 1..N /\ 1 + ((n - 1) % R) \in 1..R
         /\ \A i \in 1..N, k \in 1..R :
              \E n \in 1..N * R : 1 + ((n - 1) \div R) = i /\ 1 + ((n - 1) % R) = k
<1>1. N * R \in Nat /\ (R = 0 => N * R = 0)
  OBVIOUS
<1>2. ASSUME NEW n \in 1..N * R
      PROVE  1 + ((n - 1) \div R) \in 1..N /\ 1 + ((n - 1) % R) \in 1..R
  <2> DEFINE m == n - 1
             q == m \div R
             k == m % R
  <2>1. R > 0 /\ m \in Nat /\ m < N * R
    BY <1>1, <1>2
  <2> HIDE DEF m
  <2>2. q \in Nat /\ k \in 0..R - 1 /\ m = R * q + k
    BY <2>1, DivMod
  <2> HIDE DEF q, k
  <2>3. q < N
    BY <2>1, <2>2, DivBound
  <2>4. 1 + q \in 1..N /\ 1 + k \in 1..R
    BY <2>2, <2>3
  <2> QED BY <2>4 DEF m, q, k
<1>3. ASSUME NEW i \in 1..N, NEW k \in 1..R
      PROVE  \E n \in 1..N * R : 1 + ((n - 1) \div R) = i /\ 1 + ((n - 1) % R) = k
  <2> DEFINE m == (i - 1) * R + (k - 1)
  <2>1. i - 1 \in Nat /\ k - 1 \in 0..R - 1
    OBVIOUS
  <2>2. m \div R = i - 1 /\ m % R = k - 1
    BY <2>1, DivModUnique
  <2>3. (i - 1) * R \in Nat /\ (i - 1) * R + R <= N * R
    <3>1. (i - 1) * R + R = i * R
      OBVIOUS
    <3>2. i * R <= N * R
      OBVIOUS
    <3> QED BY <2>1, <3>1, <3>2
  <2>4. m \in Nat /\ m + 1 \in 1..N * R /\ (m + 1) - 1 = m
    BY <1>1, <2>1, <2>3
  <2> HIDE DEF m
  <2>5. 1 + (((m + 1) - 1) \div R) = i /\ 1 + (((m + 1) - 1) % R) = k
    BY <2>2, <2>4
  <2> QED BY <2>4, <2>5
<1> QED BY <1>1, <1>2, <1>3

LEMMA AppendedElements ==
  ASSUME NEW D, NEW s \in Seq(D), NEW t \in Seq(D)
  PROVE  /\ s \o t \in Seq(D)
         /\ \A d : d \in ToSet(s \o t) <=> d \in ToSet(s) \/ d \in ToSet(t)
<1>1. s \o t \in Seq(D) /\ Len(s \o t) = Len(s) + Len(t)
  OBVIOUS
<1>2. /\ \A i \in 1..Len(s) : (s \o t)[i] = s[i]
      /\ \A i \in 1..Len(t) : (s \o t)[Len(s) + i] = t[i]
  OBVIOUS
<1>3. ASSUME NEW d, d \in ToSet(s \o t) PROVE d \in ToSet(s) \/ d \in ToSet(t)
  <2>1. PICK i \in 1..Len(s \o t) : (s \o t)[i] = d
    BY <1>1, <1>3 DEF ToSet
  <2>2. CASE i \in 1..Len(s)
    BY <1>2, <2>1, <2>2 DEF ToSet
  <2>3. CASE i \notin 1..Len(s)
    <3>1. i - Len(s) \in 1..Len(t) /\ Len(s) + (i - Len(s)) = i
      BY <1>1, <2>3
    <3>2. t[i - Len(s)] = d
      BY <1>2, <2>1, <3>1
    <3> QED BY <3>1, <3>2 DEF ToSet
  <2> QED BY <2>2, <2>3
<1>4. ASSUME NEW d, d \in ToSet(s) PROVE d \in ToSet(s \o t)
  <2>1. PICK i \in 1..Len(s) : s[i] = d
    BY <1>4 DEF ToSet
  <2>2. i \in 1..Len(s \o t) /\ (s \o t)[i] = d
    BY <1>1, <1>2, <2>1
  <2> QED BY <1>1, <2>2 DEF ToSet
<1>5. ASSUME NEW d, d \in ToSet(t) PROVE d \in ToSet(s \o t)
  <2>1. PICK i \in 1..Len(t) : t[i] = d
    BY <1>5 DEF ToSet
  <2>2. Len(s) + i \in 1..Len(s \o t) /\ (s \o t)[Len(s) + i] = d
    BY <1>1, <1>2, <2>1
  <2> QED BY <1>1, <2>2 DEF ToSet
<1> QED BY <1>1, <1>3, <1>4, <1>5

\* What is kept of a sequence are its elements.
LEMMA DistinctFacts ==
  ASSUME NEW D, NEW s \in Seq(D)
  PROVE  Distinct(s) \in Seq(D) /\ ToSet(Distinct(s)) = ToSet(s)
<1> DEFINE kept == [i \in DOMAIN s |-> \A k \in 1..i - 1 : s[k] # s[i]]
           t == Distinct(s)
<1>1. kept \in [1..Len(s) -> BOOLEAN] /\ t = Pick(s, kept)
  BY DEF Distinct
<1>2. \A i \in 1..Len(s) : kept[i] <=> \A k \in 1..i - 1 : s[k] # s[i]
  <2>1. DOMAIN s = 1..Len(s)
    OBVIOUS
  <2> QED BY <2>1, Zenon
<1> HIDE DEF kept, t
<1>3. t \in Seq(D)
  BY <1>1, PickFacts
<1>4. PICK at : PickedAt(s, kept, Len(s), t, at)
  BY <1>1, PickFacts
<1>5. ASSUME NEW d \in ToSet(s) PROVE d \in ToSet(t)
  <2> DEFINE J == {j \in 1..Len(s) : s[j] = d}
  <2>1. J # {} /\ J \in SUBSET Nat
    BY DEF ToSet
  <2>2. PICK j \in J : \A k \in J : j <= k
    <3> HIDE DEF J
    <3> QED BY <2>1, LeastNatural
  <2>3. j \in 1..Len(s) /\ s[j] = d /\ \A k \in 1..j - 1 : s[k] # s[j]
    BY <2>2
  <2>4. kept[j]
    BY <1>2, <2>3
  <2>5. PICK m \in 1..Len(t) : at[m] = j
    BY <1>4, <2>3, <2>4 DEF PickedAt
  <2>6. t[m] = d
    BY <1>4, <2>3, <2>5 DEF PickedAt
  <2> QED BY <1>3, <2>6 DEF ToSet
<1>6. ASSUME NEW d \in ToSet(t) PROVE d \in ToSet(s)
  <2>1. PICK m \in 1..Len(t) : t[m] = d
    BY <1>3 DEF ToSet
  <2>2. at[m] \in 1..Len(s) /\ t[m] = s[at[m]]
    BY <1>4 DEF PickedAt
  <2> QED BY <2>1, <2>2 DEF ToSet
<1> QED BY <1>3, <1>5, <1>6 DEF t

LEMMA DotOfPoints ==
  ASSUME NEW h \in Point, NEW v \in Point
  PROVE  Dot(h, v) \in Int
<1>1. PICK a \in Int, b \in Int : h = <<a, b>>
  BY DEF Point
<1>2. PICK c \in Int, d \in Int : v = <<c, d>>
  BY DEF Point
<1>3. a * c \in Int /\ b * d \in Int
  OBVIOUS
<1> QED BY <1>1, <1>2, <1>3 DEF Dot

LEMMA RunwayFacts ==
  ASSUME NEW k \in DOMAIN Runway
  PROVE  /\ Runway[k].designators \in Seq(DOMAIN Heading)
         /\ Runway[k].designators # <<>>
         /\ Runway[k].polyline \in Seq(Point)
         /\ Len(Runway[k].polyline) >= 2
<1> DEFINE S == [designators : Seq(DOMAIN Heading) \ {<<>>}, polyline : Seq(Point)]
<1>1. Runway \in Seq(S) /\ Len(Runway[k].polyline) >= 2
  BY RunwayAssumption
<1> HIDE DEF S
<1>2. Runway[k] \in S
  BY <1>1
<1> QED BY <1>1, <1>2 DEF S

\* One of the designators of a runway is announced.
LEMMA AnnouncedFacts ==
  ASSUME NEW k \in DOMAIN Runway, NEW x, NEW p
  PROVE  AnnouncedDesignator(Runway[k], x, p) \in ToSet(Runway[k].designators)
<1> DEFINE line == Runway[k].polyline
           names == Runway[k].designators
           along == Vector(line[1], Last(line))
           cost(i) == -Dot(Heading[names[i]], along)
           start == CHOOSE i \in Cheapest(DOMAIN names, cost) : TRUE
           others == DOMAIN names \ {start}
<1>1. /\ names \in Seq(DOMAIN Heading) /\ names # <<>>
      /\ line \in Seq(Point) /\ Len(line) \in Nat /\ Len(line) >= 2
  BY RunwayFacts
<1>2. DOMAIN names = 1..Len(names) /\ 1 \in DOMAIN names /\ Len(names) \in Nat
  BY <1>1
<1>3. along \in Point
  <2>1. line[1] \in Point /\ Last(line) \in Point
    BY <1>1 DEF Last
  <2> HIDE DEF line
  <2> QED BY <2>1 DEF Vector, Point
<1>4. \A i \in DOMAIN names : cost(i) \in Int
  <2> TAKE i \in DOMAIN names
  <2>1. Heading[names[i]] \in Point
    BY <1>1, RunwayAssumption
  <2> HIDE DEF names, along
  <2> QED BY <1>3, <2>1, DotOfPoints
<1> HIDE DEF along, line, names
<1>5. \E i \in DOMAIN names : \A j \in DOMAIN names : cost(i) <= cost(j)
  <2> DEFINE costs == [i \in DOMAIN names |-> cost(i)]
             values == {costs[i] : i \in DOMAIN names}
  <2>1. IsFiniteSet(DOMAIN names)
    BY <1>2, FS_Interval
  <2>2. \A i \in DOMAIN names : costs[i] = cost(i)
    OBVIOUS
  <2> HIDE DEF costs, cost
  <2>3. IsFiniteSet(values) /\ values \in SUBSET Int /\ values # {}
    BY <1>2, <1>4, <2>1, <2>2, FiniteRange
  <2> HIDE DEF values
  <2>4. PICK c \in values : \A d \in values : c <= d
    BY <2>3, LeastInteger
  <2> QED BY <2>2, <2>4 DEF values
<1>6. start \in Cheapest(DOMAIN names, cost)
  <2> HIDE DEF cost
  <2> QED BY <1>5 DEF Cheapest
<1>7. start \in DOMAIN names
  <2> HIDE DEF cost, start
  <2> QED BY <1>6 DEF Cheapest
<1>8. others # {} => (CHOOSE i \in others : TRUE) \in DOMAIN names
  <2> HIDE DEF start
  <2> QED OBVIOUS
<1> DEFINE near == ScaledDistance(x, p, line[1]) <= ScaledDistance(x, p, Last(line))
<1>9. AnnouncedDesignator(Runway[k], x, p) =
        IF others = {} \/ near THEN names[start] ELSE names[CHOOSE i \in others : TRUE]
  BY DEF AnnouncedDesignator, line, names, along
<1> HIDE DEF start, others, near
<1>10. AnnouncedDesignator(Runway[k], x, p) \in {names[i] : i \in DOMAIN names}
  BY <1>7, <1>8, <1>9
<1> QED BY <1>10 DEF ToSet, names

\* What is said on a step of a runway is nothing or one of its designators.
LEMMA SaidFacts ==
  ASSUME NEW ps, NEW exclude, NEW i, NEW k \in DOMAIN Runway
  PROVE  /\ CrossingOn(ps, exclude, i, k) \in Seq(DOMAIN Heading)
         /\ ToSet(CrossingOn(ps, exclude, i, k)) \subseteq ToSet(Runway[k].designators)
<1> DEFINE names == Runway[k].designators
           line == Runway[k].polyline
           a == Position[ps[i]]
           b == Position[ps[i + 1]]
           pieces == {j \in 1..Len(line) - 1 : SegmentsCross(a, b, line[j], line[j + 1])}
           j == Min(pieces)
           d == AnnouncedDesignator(Runway[k], Intersection(a, b, line[j], line[j + 1]), a)
<1>1. CrossingOn(ps, exclude, i, k) =
        IF ToSet(names) \cap exclude # {} \/ pieces = {} THEN <<>> ELSE <<d>>
  BY DEF CrossingOn, Announced
<1>2. d \in ToSet(names)
  BY AnnouncedFacts
<1>3. ToSet(names) \subseteq DOMAIN Heading
  BY RunwayFacts DEF ToSet
<1> HIDE DEF names, line, a, b, pieces, j, d
<1>4. <<d>> \in Seq(DOMAIN Heading) /\ ToSet(<<d>>) = {d}
  BY <1>2, <1>3 DEF ToSet
<1>5. <<>> \in Seq(DOMAIN Heading) /\ ToSet(<<>>) = {}
  BY DEF ToSet
<1> QED BY <1>1, <1>2, <1>4, <1>5 DEF names

\* Everything that is said of a runway on a step of the path, and nothing else.
LEMMA DetectedFacts ==
  ASSUME NEW ps, Len(ps) \in Nat \ {0}, NEW exclude
  PROVE  /\ DetectCrossings(ps, exclude) \in Seq(DOMAIN Heading)
         /\ \A d : d \in ToSet(DetectCrossings(ps, exclude)) <=>
              \E i \in 1..Len(ps) - 1, k \in DOMAIN Runway : d \in ToSet(CrossingOn(ps, exclude, i, k))
<1> DEFINE R == Len(Runway)
           L == Len(ps) - 1
           N == L * R
           D == DOMAIN Heading
           S == Seq(D)
           on == [v \in (1..Len(ps) - 1) \X (1..R) |-> CrossingOn(ps, exclude, v[1], v[2])]
           piece(n) == IF n \in 1..N THEN on[<<1 + ((n - 1) \div R), 1 + ((n - 1) % R)>>] ELSE <<>>
           step == [p \in Nat \X S |-> p[2] \o piece(p[1])]
           Recursive(r) ==
             r = [n \in 0..(Len(ps) - 1) * R |->
                    IF n = 0 THEN <<>> ELSE r[n - 1] \o on[<<1 + ((n - 1) \div R), 1 + ((n - 1) % R)>>]]
           r == CHOOSE x : Recursive(x)
<1>1. R \in Nat /\ L \in Nat /\ DOMAIN Runway = 1..R
  BY RunwayAssumption
<1>2. DetectCrossings(ps, exclude) = r[N]
  BY DEF DetectCrossings
<1>3. /\ N \in Nat
      /\ \A n \in 1..N : 1 + ((n - 1) \div R) \in 1..L /\ 1 + ((n - 1) % R) \in 1..R
      /\ \A i \in 1..L, k \in 1..R :
           \E n \in 1..N : 1 + ((n - 1) \div R) = i /\ 1 + ((n - 1) % R) = k
  <2> HIDE DEF R, L
  <2> QED BY <1>1, VisitFacts
<1>4. \A i \in 1..L, k \in 1..R : on[<<i, k>>] = CrossingOn(ps, exclude, i, k) /\ on[<<i, k>>] \in S
  <2> TAKE i \in 1..L, k \in 1..R
  <2>1. k \in DOMAIN Runway /\ <<i, k>> \in (1..Len(ps) - 1) \X (1..R)
    BY <1>1
  <2>2. CrossingOn(ps, exclude, i, k) \in S
    BY <2>1, SaidFacts
  <2>3. on[<<i, k>>] = CrossingOn(ps, exclude, i, k)
    BY <2>1
  <2> QED BY <2>2, <2>3
<1>5. N = (Len(ps) - 1) * R
  OBVIOUS
<1> HIDE DEF on, N, L, R, S
<1>6. \A n \in 1..N : piece(n) = on[<<1 + ((n - 1) \div R), 1 + ((n - 1) % R)>>]
  OBVIOUS
<1>7. \A n \in Nat : piece(n) \in S
  <2> TAKE n \in Nat
  <2>1. CASE n \in 1..N
    <3>1. PICK i \in 1..L, k \in 1..R : i = 1 + ((n - 1) \div R) /\ k = 1 + ((n - 1) % R)
      BY <1>3, <2>1
    <3>2. piece(n) = on[<<i, k>>]
      BY <1>6, <2>1, <3>1
    <3> QED BY <1>4, <3>1, <3>2
  <2>2. CASE n \notin 1..N
    <3>1. piece(n) = <<>>
      BY <2>2, Zenon
    <3>2. <<>> \in S
      BY DEF S
    <3> QED BY <3>1, <3>2
  <2> QED BY <2>1, <2>2
<1> HIDE DEF piece
<1>8. step \in [Nat \X S -> S] /\ \A n \in Nat, t \in S : step[<<n, t>>] = t \o piece(n)
  <2>1. \A n \in Nat, t \in S : t \o piece(n) \in S
    BY <1>7 DEF S
  <2> QED BY <2>1
<1> HIDE DEF step
<1>9. <<>> \in S
  BY DEF S
<1>10. PICK f : Follows(f, N, S, <<>>, step)
  BY <1>3, <1>8, <1>9, HistoryOfLength, Zenon
<1>11. \A n \in 0..N : f[n] = IF n = 0 THEN <<>>
                              ELSE f[n - 1] \o on[<<1 + ((n - 1) \div R), 1 + ((n - 1) % R)>>]
  <2> TAKE n \in 0..N
  <2>1. CASE n = 0
    BY <1>10, <2>1 DEF Follows
  <2>2. CASE n # 0
    <3>1. n \in 1..N /\ n \in Nat /\ n - 1 \in 0..N
      BY <1>3, <2>2
    <3>2. f[n] = step[<<n, f[n - 1]>>] /\ f[n - 1] \in S
      BY <1>10, <3>1 DEF Follows
    <3> QED BY <1>6, <1>8, <2>2, <3>1, <3>2
  <2> QED BY <2>1, <2>2
<1>12. f = [n \in 0..N |-> f[n]]
  BY <1>10 DEF Follows
<1>13. Recursive(f)
  BY <1>5, <1>11, <1>12, Zenon
<1>14. Recursive(r)
  <2> HIDE DEF Recursive
  <2> QED BY <1>13
<1> HIDE DEF r
<1>15. r[0] = <<>> /\ \A n \in 0..N : n < N => r[n + 1] = r[n] \o piece(n + 1)
  <2>1. r[0] = <<>>
    <3>1. 0 \in 0..N
      BY <1>3
    <3> QED BY <1>5, <1>14, <3>1
  <2>2. ASSUME NEW n \in 0..N, n < N PROVE r[n + 1] = r[n] \o piece(n + 1)
    <3>1. n + 1 \in 0..N /\ n + 1 \in 1..N /\ n + 1 # 0 /\ (n + 1) - 1 = n
      BY <1>3, <2>2
    <3> QED BY <1>5, <1>6, <1>14, <3>1
  <2> QED BY <2>1, <2>2
<1> HIDE DEF Recursive
<1> DEFINE Gathered(n) == \A d : d \in ToSet(r[n]) <=> \E m \in 1..n : d \in ToSet(piece(m))
           P == {n \in 0..N : r[n] \in S /\ Gathered(n)}
<1>16. 0 \in P
  <2>1. Gathered(0) /\ r[0] \in S
    BY <1>9, <1>15 DEF ToSet
  <2>2. 0 \in 0..N
    BY <1>3
  <2> QED BY <2>1, <2>2, Zenon
<1>17. ASSUME NEW n \in 0..N, n \in P, n < N PROVE n + 1 \in P
  <2>1. r[n] \in S /\ Gathered(n) /\ r[n + 1] = r[n] \o piece(n + 1)
    BY <1>15, <1>17
  <2>2. n + 1 \in Nat /\ n + 1 \in 0..N /\ \A m \in 1..n + 1 : m = n + 1 \/ m \in 1..n
    BY <1>3, <1>17
  <2>3. n + 1 \in 1..n + 1 /\ \A m \in 1..n : m \in 1..n + 1
    BY <2>2
  <2>4. piece(n + 1) \in S
    BY <1>7, <2>2
  <2>5. /\ r[n + 1] \in S
        /\ \A d : d \in ToSet(r[n + 1]) <=> d \in ToSet(r[n]) \/ d \in ToSet(piece(n + 1))
    BY <2>1, <2>4, AppendedElements DEF S
  <2>6. Gathered(n + 1)
    BY <2>1, <2>2, <2>3, <2>5
  <2> QED BY <2>2, <2>5, <2>6, Zenon
<1> HIDE DEF P
<1>18. \A n \in 0..N : n \in P
  BY <1>3, <1>16, <1>17, UpTo
<1>19. N \in 0..N
  BY <1>3
<1>20. r[N] \in S /\ Gathered(N)
  BY <1>18, <1>19 DEF P
<1>21. ASSUME NEW d, d \in ToSet(r[N])
       PROVE  \E i \in 1..L, k \in 1..R : d \in ToSet(CrossingOn(ps, exclude, i, k))
  <2>1. PICK n \in 1..N : d \in ToSet(piece(n))
    BY <1>20, <1>21
  <2>2. PICK i \in 1..L, k \in 1..R : i = 1 + ((n - 1) \div R) /\ k = 1 + ((n - 1) % R)
    BY <1>3
  <2>3. d \in ToSet(on[<<i, k>>])
    BY <1>6, <2>1, <2>2
  <2> QED BY <1>4, <2>2, <2>3
<1>22. ASSUME NEW i \in 1..L, NEW k \in 1..R, NEW d, d \in ToSet(CrossingOn(ps, exclude, i, k))
       PROVE  d \in ToSet(r[N])
  <2>1. PICK n \in 1..N : 1 + ((n - 1) \div R) = i /\ 1 + ((n - 1) % R) = k
    BY <1>3
  <2>2. d \in ToSet(piece(n))
    BY <1>4, <1>6, <1>22, <2>1
  <2> QED BY <1>20, <2>2
<1> QED BY <1>1, <1>2, <1>20, <1>21, <1>22 DEF L, S

----------------------------------------------------------------------------
\* From one side of a runway to the other

LEMMA SignOfProduct ==
  ASSUME NEW a \in Int, NEW b \in Int, NEW A \in Int, NEW B \in Int,
         a * B = b * A, a # 0, (a <= 0 /\ b >= 0) \/ (a >= 0 /\ b <= 0)
  PROVE  ~(A > 0 /\ B > 0) /\ ~(A < 0 /\ B < 0)
<1>1. ASSUME A > 0, B > 0 PROVE FALSE
  <2>1. a > 0 => a * B > 0 /\ b * A <= 0
    BY <1>1
  <2>2. a < 0 => a * B < 0 /\ b * A >= 0
    BY <1>1
  <2> QED BY <2>1, <2>2
<1>2. ASSUME A < 0, B < 0 PROVE FALSE
  <2>1. a > 0 => a * B < 0 /\ b * A >= 0
    BY <1>2
  <2>2. a < 0 => a * B > 0 /\ b * A <= 0
    BY <1>2
  <2> QED BY <2>1, <2>2
<1> QED BY <1>1, <1>2

\* What points one way and what points the other way turn to opposite sides.
LEMMA OppositeSides ==
  ASSUME NEW a1 \in Int, NEW a2 \in Int, NEW b1 \in Int, NEW b2 \in Int,
         NEW u1 \in Int, NEW u2 \in Int,
         a1 * b2 = a2 * b1, a1 # 0 \/ a2 # 0, b1 # 0 \/ b2 # 0,
         (a1 <= 0 /\ b1 >= 0) \/ (a1 >= 0 /\ b1 <= 0),
         (a2 <= 0 /\ b2 >= 0) \/ (a2 >= 0 /\ b2 <= 0),
         u1 * a2 - u2 * a1 # u1 * b2 - u2 * b1
  PROVE  \/ u1 * a2 - u2 * a1 > 0 /\ u1 * b2 - u2 * b1 < 0
         \/ u1 * a2 - u2 * a1 < 0 /\ u1 * b2 - u2 * b1 > 0
<1> DEFINE A == u1 * a2 - u2 * a1
           B == u1 * b2 - u2 * b1
<1>1. A \in Int /\ B \in Int /\ A # B
  OBVIOUS
<1>2. a1 * B = b1 * A
  <2>1. a1 * B = u1 * (a1 * b2) - u2 * (a1 * b1)
    OBVIOUS
  <2>2. b1 * A = u1 * (a2 * b1) - u2 * (a1 * b1)
    OBVIOUS
  <2> QED BY <2>1, <2>2
<1>3. a2 * B = b2 * A
  <2>1. a2 * B = u1 * (a2 * b2) - u2 * (a2 * b1)
    OBVIOUS
  <2>2. b2 * A = u1 * (a2 * b2) - u2 * (a1 * b2)
    OBVIOUS
  <2> QED BY <2>1, <2>2
<1> HIDE DEF A, B
<1>4. A # 0
  <2> SUFFICES ASSUME A = 0 PROVE FALSE
    OBVIOUS
  <2>1. a1 * B = 0 /\ a2 * B = 0
    BY <1>2, <1>3
  <2>2. B = 0
    BY <1>1, <2>1
  <2> QED BY <1>1, <2>2
<1>5. B # 0
  <2> SUFFICES ASSUME B = 0 PROVE FALSE
    OBVIOUS
  <2>1. b1 * A = 0 /\ b2 * A = 0
    BY <1>2, <1>3
  <2>2. A = 0
    BY <1>1, <2>1
  <2> QED BY <1>1, <2>2
<1>6. ~(A > 0 /\ B > 0) /\ ~(A < 0 /\ B < 0)
  <2>1. CASE a1 # 0
    BY <1>1, <1>2, <2>1, SignOfProduct
  <2>2. CASE a2 # 0
    BY <1>1, <1>3, <2>2, SignOfProduct
  <2> QED BY <2>1, <2>2
<1> QED BY <1>1, <1>4, <1>5, <1>6 DEF A, B

LEMMA OrientationIsInt ==
  ASSUME NEW a \in Point, NEW b \in Point, NEW c \in Point
  PROVE  Orientation(a, b, c) \in Int
<1>1. /\ a[1] \in Int /\ a[2] \in Int /\ b[1] \in Int /\ b[2] \in Int /\ c[1] \in Int /\ c[2] \in Int
  BY DEF Point
<1>2. PICK x \in Int, y \in Int, z \in Int, w \in Int :
        x = b[1] - a[1] /\ y = c[2] - b[2] /\ z = b[2] - a[2] /\ w = c[1] - b[1]
  <2>1. b[1] - a[1] \in Int /\ c[2] - b[2] \in Int /\ b[2] - a[2] \in Int /\ c[1] - b[1] \in Int
    BY <1>1
  <2> QED BY <2>1
<1>3. x * y - z * w \in Int
  OBVIOUS
<1> QED BY <1>2, <1>3 DEF Orientation

\* Between the ends of a straight runway: with x on its surface but at neither end, and
\* c beside it, the ends lie on opposite sides of the line through c and x.
LEMMA BesideAndOn ==
  ASSUME NEW p \in Point, NEW q \in Point, NEW x \in Point, NEW c \in Point,
         Orientation(p, q, x) = 0, Distance(p, q) = Distance(p, x) + Distance(x, q),
         x # p, x # q, Orientation(p, q, c) # 0
  PROVE  /\ (Orientation(c, x, p) > 0) # (Orientation(c, x, q) > 0)
         /\ (Orientation(x, c, p) > 0) # (Orientation(x, c, q) > 0)
<1>1. PICK p1 \in Int, p2 \in Int : p = <<p1, p2>>
  BY DEF Point
<1>2. PICK q1 \in Int, q2 \in Int : q = <<q1, q2>>
  BY DEF Point
<1>3. PICK x1 \in Int, x2 \in Int : x = <<x1, x2>>
  BY DEF Point
<1>4. PICK c1 \in Int, c2 \in Int : c = <<c1, c2>>
  BY DEF Point
<1>5. PICK a1 \in Int, a2 \in Int, b1 \in Int, b2 \in Int, u1 \in Int, u2 \in Int :
        /\ a1 = p1 - x1 /\ a2 = p2 - x2 /\ b1 = q1 - x1 /\ b2 = q2 - x2
        /\ u1 = x1 - c1 /\ u2 = x2 - c2
  OBVIOUS
<1>6. Orientation(p, q, x) = (q1 - p1) * (x2 - q2) - (q2 - p2) * (x1 - q1)
  BY <1>1, <1>2, <1>3 DEF Orientation
<1>7. Orientation(p, q, c) = (q1 - p1) * (c2 - q2) - (q2 - p2) * (c1 - q1)
  BY <1>1, <1>2, <1>4 DEF Orientation
<1>8. /\ Orientation(c, x, p) = (x1 - c1) * (p2 - x2) - (x2 - c2) * (p1 - x1)
      /\ Orientation(c, x, q) = (x1 - c1) * (q2 - x2) - (x2 - c2) * (q1 - x1)
  BY <1>1, <1>2, <1>3, <1>4 DEF Orientation
<1>9. /\ Orientation(x, c, p) = (c1 - x1) * (p2 - c2) - (c2 - x2) * (p1 - c1)
      /\ Orientation(x, c, q) = (c1 - x1) * (q2 - c2) - (c2 - x2) * (q1 - c1)
  BY <1>1, <1>2, <1>3, <1>4 DEF Orientation
<1>10. /\ q1 - p1 = b1 - a1 /\ q2 - p2 = b2 - a2 /\ x1 - q1 = -b1 /\ x2 - q2 = -b2
       /\ c1 - q1 = -u1 - b1 /\ c2 - q2 = -u2 - b2
       /\ c1 - x1 = -u1 /\ c2 - x2 = -u2
       /\ p1 - c1 = a1 + u1 /\ p2 - c2 = a2 + u2 /\ q1 - c1 = b1 + u1 /\ q2 - c2 = b2 + u2
  BY <1>5
<1>11. Orientation(p, q, x) = a1 * b2 - a2 * b1
  <2>1. Orientation(p, q, x) = (b1 - a1) * (-b2) - (b2 - a2) * (-b1)
    BY <1>6, <1>10
  <2>2. (b1 - a1) * (-b2) - (b2 - a2) * (-b1) = a1 * b2 - a2 * b1
    OBVIOUS
  <2> QED BY <2>1, <2>2
<1>12. a1 * b2 = a2 * b1
  BY <1>11
<1>13. Orientation(p, q, c) = (u1 * b2 - u2 * b1) - (u1 * a2 - u2 * a1)
  <2>1. Orientation(p, q, c) = (b1 - a1) * (-u2 - b2) - (b2 - a2) * (-u1 - b1)
    BY <1>7, <1>10
  <2>2. (b1 - a1) * (-u2 - b2) = a1 * u2 + a1 * b2 - b1 * u2 - b1 * b2
    OBVIOUS
  <2>3. (b2 - a2) * (-u1 - b1) = a2 * u1 + a2 * b1 - b2 * u1 - b1 * b2
    OBVIOUS
  <2> QED BY <1>12, <2>1, <2>2, <2>3
<1>14. u1 * a2 - u2 * a1 # u1 * b2 - u2 * b1
  BY <1>13
<1>15. /\ a1 # 0 \/ a2 # 0
       /\ b1 # 0 \/ b2 # 0
  BY <1>1, <1>2, <1>3, <1>5
<1>16. /\ (a1 <= 0 /\ b1 >= 0) \/ (a1 >= 0 /\ b1 <= 0)
       /\ (a2 <= 0 /\ b2 >= 0) \/ (a2 >= 0 /\ b2 <= 0)
  <2>1. /\ Distance(p, q) = Abs(p1 - q1) + Abs(p2 - q2)
        /\ Distance(p, x) = Abs(p1 - x1) + Abs(p2 - x2)
        /\ Distance(x, q) = Abs(x1 - q1) + Abs(x2 - q2)
    BY <1>1, <1>2, <1>3 DEF Distance
  <2>2. Abs(a1 - b1) + Abs(a2 - b2) = Abs(a1) + Abs(a2) + (Abs(-b1) + Abs(-b2))
    BY <1>5, <2>1 DEF Abs
  <2> QED BY <2>2 DEF Abs
<1>17. \/ u1 * a2 - u2 * a1 > 0 /\ u1 * b2 - u2 * b1 < 0
       \/ u1 * a2 - u2 * a1 < 0 /\ u1 * b2 - u2 * b1 > 0
  BY <1>12, <1>14, <1>15, <1>16, OppositeSides
<1>18. Orientation(c, x, p) = u1 * a2 - u2 * a1 /\ Orientation(c, x, q) = u1 * b2 - u2 * b1
  BY <1>5, <1>8
<1>19. Orientation(x, c, p) = -(u1 * a2 - u2 * a1) /\ Orientation(x, c, q) = -(u1 * b2 - u2 * b1)
  <2>1. /\ Orientation(x, c, p) = (-u1) * (a2 + u2) - (-u2) * (a1 + u1)
        /\ Orientation(x, c, q) = (-u1) * (b2 + u2) - (-u2) * (b1 + u1)
    BY <1>9, <1>10
  <2>2. /\ (-u1) * (a2 + u2) - (-u2) * (a1 + u1) = -(u1 * a2 - u2 * a1)
        /\ (-u1) * (b2 + u2) - (-u2) * (b1 + u1) = -(u1 * b2 - u2 * b1)
    OBVIOUS
  <2> QED BY <2>1, <2>2
<1>20. PICK A \in Int, B \in Int : A = u1 * a2 - u2 * a1 /\ B = u1 * b2 - u2 * b1
  OBVIOUS
<1>21. /\ Orientation(c, x, p) = A /\ Orientation(c, x, q) = B
       /\ Orientation(x, c, p) = -A /\ Orientation(x, c, q) = -B
       /\ (A > 0 /\ B < 0) \/ (A < 0 /\ B > 0)
  BY <1>17, <1>18, <1>19, <1>20
<1> QED BY <1>21

\* On a straight runway, a step that crosses it is told.
LEMMA StepIsTold ==
  ASSUME Straight, NEW ps, Len(ps) \in Nat \ {0}, NEW exclude,
         NEW k \in DOMAIN Runway, ToSet(Runway[k].designators) \cap exclude = {},
         NEW i \in 1..Len(ps) - 1,
         SegmentsCross(Position[ps[i]], Position[ps[i + 1]],
                       Runway[k].polyline[1], Runway[k].polyline[2])
  PROVE  \E d \in ToSet(Runway[k].designators) : d \in ToSet(DetectCrossings(ps, exclude))
<1> DEFINE line == Runway[k].polyline
           a == Position[ps[i]]
           b == Position[ps[i + 1]]
           pieces == {j \in 1..Len(line) - 1 : SegmentsCross(a, b, line[j], line[j + 1])}
           j == Min(pieces)
           d == AnnouncedDesignator(Runway[k], Intersection(a, b, line[j], line[j + 1]), a)
<1>1. CrossingOn(ps, exclude, i, k) =
        IF ToSet(Runway[k].designators) \cap exclude # {} \/ pieces = {} THEN <<>> ELSE <<d>>
  BY DEF CrossingOn, Announced
<1>2. d \in ToSet(Runway[k].designators)
  BY AnnouncedFacts
<1> HIDE DEF j, d
<1>3. 1 \in pieces
  <2>1. Len(line) = 2
    BY DEF Straight
  <2>2. 1 \in 1..Len(line) - 1 /\ 1 + 1 = 2
    BY <2>1
  <2> HIDE DEF line, a, b
  <2>3. SegmentsCross(a, b, line[1], line[1 + 1])
    BY DEF line, a, b
  <2> QED BY <2>2, <2>3
<1> HIDE DEF pieces
<1>4. CrossingOn(ps, exclude, i, k) = <<d>>
  BY <1>1, <1>3
<1>5. d \in ToSet(CrossingOn(ps, exclude, i, k))
  BY <1>4 DEF ToSet
<1>6. d \in ToSet(DetectCrossings(ps, exclude))
  BY <1>5, DetectedFacts
<1> QED BY <1>2, <1>6

\* A path from one side of a straight runway to the other has such a step: the one that
\* leaves the left side, or the one that enters it.
LEMMA SomeStepCrosses ==
  ASSUME Straight, NEW G, G \subseteq DOMAIN Position, path \in Seq(G),
         NEW k \in DOMAIN Runway, Crosses(Runway[k])
  PROVE  \E i \in 1..Len(path) - 1 :
           SegmentsCross(Position[path[i]], Position[path[i + 1]],
                         Runway[k].polyline[1], Runway[k].polyline[2])
<1> DEFINE p == Runway[k].polyline[1]
           q == Runway[k].polyline[2]
           at(i) == Position[path[i]]
           S(i) == Orientation(p, q, at(i))
           OnIt(i) == S(i) = 0 /\ Distance(p, q) = Distance(p, at(i)) + Distance(at(i), q)
<1>1. DOMAIN path = 1..Len(path) /\ Len(path) \in Nat
  OBVIOUS
<1>2. /\ p \in Point /\ q \in Point
      /\ \A i \in 1..Len(path) : at(i) \in Point /\ at(i) # p /\ at(i) # q
  <2>1. /\ Runway[k].polyline \in Seq(Point) /\ Len(Runway[k].polyline) = 2
        /\ \A n \in DOMAIN Position : Position[n] \notin ToSet(Runway[k].polyline)
    BY RunwayFacts DEF Straight
  <2>2. p \in Point /\ q \in Point /\ {p, q} \subseteq ToSet(Runway[k].polyline)
    BY <2>1 DEF ToSet
  <2>3. \A i \in 1..Len(path) : path[i] \in DOMAIN Position
    BY <1>1
  <2> QED BY <2>1, <2>2, <2>3, PositionAssumption
<1>3. PICK i \in DOMAIN path, j \in DOMAIN path :
        /\ i < j
        /\ S(i) * S(j) < 0
        /\ \A h \in i + 1..j - 1 : OnIt(h)
        /\ j = i + 1 => Orientation(at(i), at(j), p) * Orientation(at(i), at(j), q) < 0
  <2>1. \A n \in DOMAIN path : Side(Runway[k], path[n]) = S(n)
    BY DEF Side
  <2>2. \A n : On(Runway[k], path[n]) = OnIt(n)
    BY DEF On, Side
  <2> HIDE DEF S, OnIt
  <2> QED BY <2>1, <2>2 DEF Crosses
<1>4. \A n \in 1..Len(path) : S(n) \in Int
  BY <1>2, OrientationIsInt
<1> HIDE DEF p, q, at
<1>5. i \in 1..Len(path) /\ j \in 1..Len(path)
  BY <1>1
<1>6. (S(i) > 0 /\ S(j) < 0) \/ (S(i) < 0 /\ S(j) > 0)
  <2>1. PICK A \in Int, B \in Int : A = S(i) /\ B = S(j)
    BY <1>4, <1>5
  <2>2. A * B < 0
    BY <1>3, <2>1
  <2>3. (A > 0 /\ B < 0) \/ (A < 0 /\ B > 0)
    BY <2>2
  <2> QED BY <2>1, <2>3
<1>7. CASE j = i + 1
  <2>1. Orientation(at(i), at(j), p) * Orientation(at(i), at(j), q) < 0
    BY <1>3, <1>7
  <2>2. PICK A \in Int, B \in Int : A = Orientation(at(i), at(j), p) /\ B = Orientation(at(i), at(j), q)
    BY <1>2, <1>5, OrientationIsInt
  <2>3. A * B < 0
    BY <2>1, <2>2
  <2>4. (A > 0 /\ B < 0) \/ (A < 0 /\ B > 0)
    BY <2>3
  <2>5. SegmentsCross(at(i), at(j), p, q)
    <3>1. (S(i) > 0) # (S(j) > 0)
      BY <1>4, <1>5, <1>6
    <3>2. (Orientation(at(i), at(j), p) > 0) # (Orientation(at(i), at(j), q) > 0)
      BY <2>2, <2>4
    <3> QED BY <3>1, <3>2 DEF SegmentsCross
  <2>6. i \in 1..Len(path) - 1
    BY <1>5, <1>7
  <2> QED BY <1>7, <2>5, <2>6 DEF at, p, q
<1>8. CASE j # i + 1 /\ S(i) > 0
  <2>1. i + 1 \in i + 1..j - 1 /\ i + 1 \in 1..Len(path) /\ i \in 1..Len(path) - 1
    BY <1>3, <1>5, <1>8
  <2>2. OnIt(i + 1)
    BY <1>3, <2>1
  <2>3. (Orientation(at(i), at(i + 1), p) > 0) # (Orientation(at(i), at(i + 1), q) > 0)
    <3>1. S(i) # 0
      BY <1>8
    <3> QED BY <1>2, <1>5, <2>1, <2>2, <3>1, BesideAndOn
  <2>4. SegmentsCross(at(i), at(i + 1), p, q)
    BY <1>8, <2>2, <2>3 DEF SegmentsCross
  <2> QED BY <2>1, <2>4 DEF at, p, q
<1>9. CASE j # i + 1 /\ S(i) < 0
  <2>1. j - 1 \in i + 1..j - 1 /\ j - 1 \in 1..Len(path) - 1 /\ j - 1 \in 1..Len(path) /\ (j - 1) + 1 = j
    BY <1>3, <1>5, <1>9
  <2>2. OnIt(j - 1) /\ S(j) > 0
    <3>1. OnIt(j - 1)
      BY <1>3, <2>1
    <3>2. S(j) > 0
      BY <1>4, <1>5, <1>6, <1>9
    <3> QED BY <3>1, <3>2
  <2>3. (Orientation(at(j - 1), at(j), p) > 0) # (Orientation(at(j - 1), at(j), q) > 0)
    <3>1. S(j) # 0
      BY <2>2
    <3> QED BY <1>2, <1>5, <2>1, <2>2, <3>1, BesideAndOn
  <2>4. SegmentsCross(at(j - 1), at(j), p, q)
    BY <2>2, <2>3 DEF SegmentsCross
  <2>5. SegmentsCross(at(j - 1), at((j - 1) + 1), p, q)
    BY <2>1, <2>4
  <2> QED BY <2>1, <2>5 DEF at, p, q
<1> QED BY <1>6, <1>7, <1>8, <1>9

\* detect_crossings: where the runways are straight and the network has no node exactly
\* at an end of one, a route from one side of a runway to the other is told so, in one
\* step or along the runway, unless the route ends at that runway.
THEOREM CrossingsAreAnnounced ==
  ASSUME Straight
  PROVE  Spec => []EveryCrossingAnnounced
<1>1. RoutingInv /\ Told => EveryCrossingAnnounced
  <2> SUFFICES ASSUME RoutingInv, Told, Routed, NEW k \in DOMAIN Runway, Crosses(Runway[k]),
                      ToSet(Runway[k].designators) \cap EndRunways = {}
               PROVE  ToSet(Runway[k].designators) \cap ToSet(answer.crossings) # {}
    BY DEF EveryCrossingAnnounced
  <2> DEFINE hits == DetectCrossings(path, EndRunways)
  <2>1. graph.nodes \subseteq DOMAIN Position /\ path \in Seq(graph.nodes) /\ path # <<>>
    BY DEF RoutingInv, Prepared, WellFormed, Tracing, Traced
  <2>2. PICK i \in 1..Len(path) - 1 :
          SegmentsCross(Position[path[i]], Position[path[i + 1]],
                        Runway[k].polyline[1], Runway[k].polyline[2])
    BY <2>1, SomeStepCrosses
  <2>3. Len(path) \in Nat \ {0}
    BY <2>1
  <2>4. PICK d \in ToSet(Runway[k].designators) : d \in ToSet(hits)
    BY <2>2, <2>3, StepIsTold
  <2>5. hits \in Seq(DOMAIN Heading)
    BY <2>3, DetectedFacts
  <2> HIDE DEF hits
  <2>6. ToSet(Distinct(hits)) = ToSet(hits)
    BY <2>5, DistinctFacts
  <2>7. answer.crossings = Distinct(hits)
    BY DEF Told, hits
  <2> QED BY <2>4, <2>6, <2>7
<1> QED BY <1>1, RoutingSoundness, AnswerIsTold, PTL

----------------------------------------------------------------------------
\* The nearer end of a runway

LEMMA AbsFacts ==
  ASSUME NEW m \in Int
  PROVE  Abs(m) \in Nat /\ (Abs(m) = 0 <=> m = 0)
BY DEF Abs

LEMMA AbsOfProduct ==
  ASSUME NEW m \in Int, NEW n \in Int
  PROVE  Abs(-(m * n)) = Abs(m) * Abs(n)
<1>1. m * n \in Int /\ (-m) * n = -(m * n) /\ m * (-n) = -(m * n) /\ (-m) * (-n) = m * n
  OBVIOUS
<1>2. /\ m >= 0 /\ n >= 0 => m * n >= 0
      /\ m < 0 /\ n >= 0 => m * n <= 0
      /\ m >= 0 /\ n < 0 => m * n <= 0
      /\ m < 0 /\ n < 0 => m * n >= 0
  OBVIOUS
<1>3. CASE m >= 0 /\ n >= 0
  BY <1>1, <1>2, <1>3 DEF Abs
<1>4. CASE m < 0 /\ n >= 0
  BY <1>1, <1>2, <1>4 DEF Abs
<1>5. CASE m >= 0 /\ n < 0
  BY <1>1, <1>2, <1>5 DEF Abs
<1>6. CASE m < 0 /\ n < 0
  BY <1>1, <1>2, <1>6 DEF Abs
<1> QED BY <1>3, <1>4, <1>5, <1>6

\* The intersection divides the runway from p to q as the line through a and b passes
\* its ends: how far it is from each tells how far that line passes.
LEMMA ScaledDistanceFacts ==
  ASSUME NEW a \in Point, NEW b \in Point, NEW p \in Point, NEW q \in Point
  PROVE  LET x == Intersection(a, b, p, q)
         IN  /\ ScaledDistance(x, a, p) = Abs(Orientation(a, b, p)) * Distance(p, q)
             /\ ScaledDistance(x, a, q) = Abs(Orientation(a, b, q)) * Distance(p, q)
<1>1. PICK a1 \in Int, a2 \in Int : a = <<a1, a2>>
  BY DEF Point
<1>2. PICK b1 \in Int, b2 \in Int : b = <<b1, b2>>
  BY DEF Point
<1>3. PICK p1 \in Int, p2 \in Int : p = <<p1, p2>>
  BY DEF Point
<1>4. PICK q1 \in Int, q2 \in Int : q = <<q1, q2>>
  BY DEF Point
<1>5. PICK r1 \in Int, r2 \in Int, s1 \in Int, s2 \in Int, w1 \in Int, w2 \in Int :
        /\ r1 = b1 - a1 /\ r2 = b2 - a2 /\ s1 = q1 - p1 /\ s2 = q2 - p2
        /\ w1 = p1 - a1 /\ w2 = p2 - a2
  OBVIOUS
<1>6. /\ q1 - a1 = w1 + s1 /\ q2 - a2 = w2 + s2
      /\ p1 - b1 = w1 - r1 /\ p2 - b2 = w2 - r2
      /\ q1 - b1 = w1 + s1 - r1 /\ q2 - b2 = w2 + s2 - r2
  BY <1>5
<1>7. PICK D \in Int, t \in Int, P \in Int, Q \in Int :
        /\ D = r1 * s2 - r2 * s1 /\ t = w1 * s2 - w2 * s1
        /\ P = r1 * (w2 - r2) - r2 * (w1 - r1)
        /\ Q = r1 * (w2 + s2 - r2) - r2 * (w1 + s1 - r1)
  OBVIOUS
<1>8. P = Orientation(a, b, p) /\ Q = Orientation(a, b, q)
  BY <1>1, <1>2, <1>3, <1>4, <1>5, <1>6, <1>7 DEF Orientation
<1>9. Intersection(a, b, p, q) = [times |-> D, at |-> <<t * r1, t * r2>>]
  <2>1. Vector(a, b) = <<r1, r2>> /\ Vector(p, q) = <<s1, s2>>
    BY <1>1, <1>2, <1>3, <1>4, <1>5 DEF Vector
  <2>2. p[1] - a[1] = w1 /\ p[2] - a[2] = w2
    BY <1>1, <1>3, <1>5
  <2>3. /\ <<r1, r2>>[1] = r1 /\ <<r1, r2>>[2] = r2
        /\ <<s1, s2>>[1] = s1 /\ <<s1, s2>>[2] = s2
    OBVIOUS
  <2> QED BY <1>7, <2>1, <2>2, <2>3 DEF Intersection
<1>10. /\ ScaledDistance(Intersection(a, b, p, q), a, p) = Abs(t * r1 - D * w1) + Abs(t * r2 - D * w2)
       /\ ScaledDistance(Intersection(a, b, p, q), a, q) =
            Abs(t * r1 - D * (w1 + s1)) + Abs(t * r2 - D * (w2 + s2))
  BY <1>1, <1>3, <1>4, <1>5, <1>6, <1>9 DEF ScaledDistance, Distance
<1>11. PICK h \in Int, k \in Int : h = r1 * w2 /\ k = r2 * w1
  OBVIOUS
<1>12. P = h - k /\ Q = P + D
  <2>1. /\ r1 * (w2 - r2) = h - r1 * r2 /\ r2 * (w1 - r1) = k - r1 * r2
        /\ r1 * (w2 + s2 - r2) = h + r1 * s2 - r1 * r2
        /\ r2 * (w1 + s1 - r1) = k + r2 * s1 - r1 * r2
    BY <1>11
  <2> QED BY <1>7, <2>1
<1>13. t * r1 - D * w1 = -(P * s1) /\ t * r2 - D * w2 = -(P * s2)
  <2>1. /\ (w1 * s2 - w2 * s1) * r1 = (r1 * s2) * w1 - h * s1
        /\ (r1 * s2 - r2 * s1) * w1 = (r1 * s2) * w1 - k * s1
        /\ (w1 * s2 - w2 * s1) * r2 = k * s2 - (r2 * s1) * w2
        /\ (r1 * s2 - r2 * s1) * w2 = h * s2 - (r2 * s1) * w2
    BY <1>11
  <2>2. (h - k) * s1 = h * s1 - k * s1 /\ (h - k) * s2 = h * s2 - k * s2
    OBVIOUS
  <2>3. \A m, n, o \in Int : (m - n) - (m - o) = -(n - o) /\ (o - m) - (n - m) = -(n - o)
    OBVIOUS
  <2>4. /\ t * r1 = (r1 * s2) * w1 - h * s1 /\ D * w1 = (r1 * s2) * w1 - k * s1
        /\ t * r2 = k * s2 - (r2 * s1) * w2 /\ D * w2 = h * s2 - (r2 * s1) * w2
    BY <1>7, <2>1
  <2> QED BY <1>12, <2>2, <2>4
<1>14. t * r1 - D * (w1 + s1) = -(Q * s1) /\ t * r2 - D * (w2 + s2) = -(Q * s2)
  <2>1. \A m, n, o \in Int : D * (n + o) = D * n + D * o /\ (P + D) * o = P * o + D * o
    OBVIOUS
  <2> QED BY <1>12, <1>13, <2>1
<1>15. Distance(p, q) = Abs(s1) + Abs(s2)
  BY <1>3, <1>4, <1>5 DEF Distance, Abs
<1>16. \A m, n, o \in Int : m * n + m * o = m * (n + o)
  OBVIOUS
<1>17. /\ Abs(-(P * s1)) + Abs(-(P * s2)) = Abs(P) * Distance(p, q)
       /\ Abs(-(Q * s1)) + Abs(-(Q * s2)) = Abs(Q) * Distance(p, q)
  <2>1. /\ Abs(-(P * s1)) = Abs(P) * Abs(s1) /\ Abs(-(P * s2)) = Abs(P) * Abs(s2)
        /\ Abs(-(Q * s1)) = Abs(Q) * Abs(s1) /\ Abs(-(Q * s2)) = Abs(Q) * Abs(s2)
    <3>1. \A m, n \in Int : Abs(-(m * n)) = Abs(m) * Abs(n)
      BY AbsOfProduct
    <3> QED BY <3>1
  <2>2. Abs(P) \in Int /\ Abs(Q) \in Int /\ Abs(s1) \in Int /\ Abs(s2) \in Int
    BY AbsFacts
  <2> QED BY <1>15, <1>16, <2>1, <2>2
<1> QED BY <1>8, <1>10, <1>13, <1>14, <1>17

\* A runway that is crossed has a length, which the comparison of its ends is free of.
LEMMA NearerEnd ==
  ASSUME NEW a \in Point, NEW b \in Point, NEW p \in Point, NEW q \in Point,
         SegmentsCross(a, b, p, q)
  PROVE  /\ \A c \in {p, q} : ScaledDistance(Intersection(a, b, p, q), a, c) \in Int
         /\ \A here, far \in {p, q} :
              ScaledDistance(Intersection(a, b, p, q), a, here)
                <= ScaledDistance(Intersection(a, b, p, q), a, far)
                => Abs(Orientation(a, b, here)) <= Abs(Orientation(a, b, far))
<1>1. PICK L \in Int : L = Distance(p, q) /\ L > 0
  <2>1. PICK m \in Int, n \in Int : m = p[1] - q[1] /\ n = p[2] - q[2]
    BY DEF Point
  <2>2. Distance(p, q) = Abs(m) + Abs(n) /\ Abs(m) \in Nat /\ Abs(n) \in Nat
    BY <2>1, AbsFacts DEF Distance
  <2>3. p # q
    BY DEF SegmentsCross
  <2>4. m # 0 \/ n # 0
    <3>1. PICK p1 \in Int, p2 \in Int, q1 \in Int, q2 \in Int : p = <<p1, p2>> /\ q = <<q1, q2>>
      BY DEF Point
    <3> QED BY <2>1, <2>3, <3>1
  <2>5. Abs(m) # 0 \/ Abs(n) # 0
    BY <2>4, AbsFacts
  <2>6. Abs(m) + Abs(n) \in Int /\ Abs(m) + Abs(n) > 0
    BY <2>2, <2>5
  <2> QED BY <2>2, <2>6
<1>2. PICK P \in Nat, Q \in Nat : P = Abs(Orientation(a, b, p)) /\ Q = Abs(Orientation(a, b, q))
  <2>1. Orientation(a, b, p) \in Int /\ Orientation(a, b, q) \in Int
    BY OrientationIsInt
  <2> QED BY <2>1, AbsFacts
<1>3. /\ ScaledDistance(Intersection(a, b, p, q), a, p) = P * L
      /\ ScaledDistance(Intersection(a, b, p, q), a, q) = Q * L
  BY <1>1, <1>2, ScaledDistanceFacts
<1>4. \A m, n \in Nat : m * L \in Int /\ (m * L <= n * L => m <= n)
  <2> SUFFICES ASSUME NEW m \in Nat, NEW n \in Nat PROVE m * L \in Int /\ (m * L <= n * L => m <= n)
    OBVIOUS
  <2>1. n * L + L <= m * L \/ m <= n
    <3>1. m > n => (m - n) * L >= L
      BY <1>1
    <3> QED BY <3>1
  <2> QED BY <1>1, <2>1
<1> QED BY <1>2, <1>3, <1>4

LEMMA DotCommutes ==
  ASSUME NEW p \in Point, NEW q \in Point
  PROVE  /\ Dot(p, q) = Dot(q, p)
         /\ Dot(Vector(p, <<0, 0>>), q) = -Dot(p, q)
         /\ Vector(p, <<0, 0>>) \in Point
<1>1. PICK a \in Int, b \in Int : p = <<a, b>>
  BY DEF Point
<1>2. PICK c \in Int, d \in Int : q = <<c, d>>
  BY DEF Point
<1>3. Vector(p, <<0, 0>>) = <<0 - a, 0 - b>>
  BY <1>1 DEF Vector
<1>4. (0 - a) * c = -(a * c) /\ (0 - b) * d = -(b * d) /\ a * c = c * a /\ b * d = d * b
  OBVIOUS
<1>5. /\ Dot(p, q) = a * c + b * d /\ Dot(q, p) = c * a + d * b
      /\ Dot(Vector(p, <<0, 0>>), q) = (0 - a) * c + (0 - b) * d
  BY <1>1, <1>2, <1>3 DEF Dot
<1> QED BY <1>3, <1>4, <1>5 DEF Point

\* The designator announced is that of the nearer end: from there its heading leads
\* down the runway.
LEMMA AnnouncedEnd ==
  ASSUME TwoEnded, NEW k \in DOMAIN Runway, NEW x, NEW c,
         ScaledDistance(x, c, Runway[k].polyline[1]) \in Int,
         ScaledDistance(x, c, Runway[k].polyline[2]) \in Int
  PROVE  \E here, far \in {Runway[k].polyline[1], Runway[k].polyline[2]} :
           /\ Dot(Vector(here, far), Heading[AnnouncedDesignator(Runway[k], x, c)]) > 0
           /\ ScaledDistance(x, c, here) <= ScaledDistance(x, c, far)
<1> DEFINE line == Runway[k].polyline
           names == Runway[k].designators
           p == line[1]
           q == line[2]
           along == Vector(p, Last(line))
           cost(i) == -Dot(Heading[names[i]], along)
           start == CHOOSE i \in Cheapest(DOMAIN names, cost) : TRUE
           others == DOMAIN names \ {start}
           near == ScaledDistance(x, c, p) <= ScaledDistance(x, c, Last(line))
<1>1. /\ names \in Seq(DOMAIN Heading) /\ Len(names) = 2
      /\ line \in Seq(Point) /\ Len(line) = 2
      /\ Heading[names[2]] = Vector(Heading[names[1]], <<0, 0>>)
      /\ Dot(Heading[names[1]], Vector(p, q)) # 0
  BY RunwayFacts DEF TwoEnded
<1>2. /\ DOMAIN names = {1, 2} /\ p \in Point /\ q \in Point /\ Last(line) = q
      /\ Heading[names[1]] \in Point
  <2>1. DOMAIN names = {1, 2}
    BY <1>1
  <2>2. p \in Point /\ q \in Point /\ Last(line) = q
    BY <1>1 DEF Last
  <2>3. names[1] \in DOMAIN Heading
    BY <1>1
  <2> QED BY <2>1, <2>2, <2>3, RunwayAssumption
<1>3. AnnouncedDesignator(Runway[k], x, c) =
        IF others = {} \/ near THEN names[start] ELSE names[CHOOSE i \in others : TRUE]
  BY DEF AnnouncedDesignator
<1> HIDE DEF line, names
<1>4. along = Vector(p, q) /\ along \in Point
  <2>1. along = Vector(p, q)
    BY <1>2
  <2> HIDE DEF along, p, q
  <2> QED BY <1>2, <2>1 DEF Vector, Point
<1> HIDE DEF along
<1>5. PICK D \in Int : D = Dot(Heading[names[1]], along)
  BY <1>2, <1>4, DotOfPoints
<1>6. D # 0 /\ cost(1) = -D /\ cost(2) = D
  <2>1. Dot(Heading[names[2]], along) = -D
    BY <1>1, <1>2, <1>4, <1>5, DotCommutes
  <2> QED BY <1>1, <1>4, <1>5, <2>1
<1>7. start \in DOMAIN names /\ \A i \in DOMAIN names : cost(start) <= cost(i)
  <2>1. \E i \in DOMAIN names : \A j \in DOMAIN names : cost(i) <= cost(j)
    BY <1>2, <1>6
  <2> HIDE DEF cost
  <2>2. \E i : i \in Cheapest(DOMAIN names, cost)
    BY <2>1 DEF Cheapest
  <2>3. start \in Cheapest(DOMAIN names, cost)
    BY <2>2
  <2> HIDE DEF start
  <2> QED BY <2>3 DEF Cheapest
<1> HIDE DEF start
<1>8. cost(start) < 0
  BY <1>2, <1>6, <1>7
<1>9. PICK other \in DOMAIN names : others = {other} /\ cost(other) > 0
  <2>1. CASE start = 1
    BY <1>2, <1>6, <1>8, <2>1
  <2>2. CASE start = 2
    BY <1>2, <1>6, <1>8, <2>2
  <2> QED BY <1>2, <1>7, <2>1, <2>2
<1>10. (CHOOSE i \in others : TRUE) = other /\ others # {}
  BY <1>9
<1> HIDE DEF others
<1>11. \A i \in DOMAIN names : Heading[names[i]] \in Point /\ cost(i) = -Dot(Vector(p, q), Heading[names[i]])
  <2>1. Heading[names[2]] \in Point
    BY <1>1, <1>2, DotCommutes
  <2> QED BY <1>2, <1>4, <2>1, DotCommutes
<1>12. \A i \in DOMAIN names : /\ Dot(Vector(p, q), Heading[names[i]]) \in Int
                               /\ Dot(Vector(q, p), Heading[names[i]]) = -Dot(Vector(p, q), Heading[names[i]])
  BY <1>2, <1>11, DotTurnsRound
<1> HIDE DEF cost, p, q
<1>13. CASE near
  <2>1. AnnouncedDesignator(Runway[k], x, c) = names[start]
    BY <1>3, <1>13
  <2>2. Dot(Vector(p, q), Heading[names[start]]) > 0
    BY <1>7, <1>8, <1>11, <1>12
  <2> QED BY <1>2, <1>13, <2>1, <2>2 DEF p, q, line
<1>14. CASE ~near
  <2>1. AnnouncedDesignator(Runway[k], x, c) = names[other]
    BY <1>3, <1>10, <1>14
  <2>2. Dot(Vector(q, p), Heading[names[other]]) > 0
    BY <1>9, <1>11, <1>12
  <2>3. ScaledDistance(x, c, q) <= ScaledDistance(x, c, p)
    BY <1>2, <1>14 DEF p, q, line
  <2> QED BY <2>1, <2>2, <2>3 DEF p, q, line
<1> QED BY <1>13, <1>14

\* What is told on a step is that the runway is crossed on it.
LEMMA ToldOfCrossing ==
  ASSUME TwoEnded, NEW ps, NEW exclude, NEW i, NEW k \in DOMAIN Runway,
         NEW d \in ToSet(CrossingOn(ps, exclude, i, k))
  PROVE  LET p == Runway[k].polyline[1]
             q == Runway[k].polyline[2]
             a == Position[ps[i]]
             b == Position[ps[i + 1]]
         IN  /\ SegmentsCross(a, b, p, q)
             /\ d = AnnouncedDesignator(Runway[k], Intersection(a, b, p, q), a)
<1> DEFINE line == Runway[k].polyline
           a == Position[ps[i]]
           b == Position[ps[i + 1]]
           pieces == {j \in 1..Len(line) - 1 : SegmentsCross(a, b, line[j], line[j + 1])}
           j == Min(pieces)
           e == AnnouncedDesignator(Runway[k], Intersection(a, b, line[j], line[j + 1]), a)
<1>1. CrossingOn(ps, exclude, i, k) =
        IF ToSet(Runway[k].designators) \cap exclude # {} \/ pieces = {} THEN <<>> ELSE <<e>>
  BY DEF CrossingOn, Announced
<1>2. pieces \subseteq {1}
  <2>1. Len(line) = 2
    BY DEF TwoEnded
  <2>2. \A h \in pieces : h \in 1..Len(line) - 1
    OBVIOUS
  <2> HIDE DEF line, pieces
  <2>3. 1..Len(line) - 1 = {1}
    BY <2>1
  <2> QED BY <2>2, <2>3
<1>3. pieces \in SUBSET Nat /\ \A h \in pieces : SegmentsCross(a, b, line[h], line[h + 1])
  OBVIOUS
<1> HIDE DEF pieces, a, b, line
<1>4. pieces # {} /\ d = e
  <2> HIDE DEF e, j
  <2>1. ToSet(<<>>) = {} /\ ToSet(<<e>>) = {e}
    BY DEF ToSet
  <2> QED BY <1>1, <2>1
<1>5. j = 1
  BY <1>2, <1>3, <1>4, MinIsLeast
<1> HIDE DEF j
<1>6. d = AnnouncedDesignator(Runway[k], Intersection(a, b, line[1], line[2]), a)
  BY <1>4, <1>5
<1>7. SegmentsCross(a, b, line[1], line[2])
  <2>1. 1 \in pieces
    <3>1. pieces # {}
      BY <1>4
    <3> QED BY <1>2, <3>1
  <2>2. SegmentsCross(a, b, line[1], line[1 + 1])
    BY <1>3, <2>1
  <2>3. 1 + 1 = 2
    OBVIOUS
  <2> QED BY <2>2, <2>3
<1> QED BY <1>6, <1>7 DEF line, a, b

\* _announced_designator: where every runway is straight and has two designators, it is
\* told by the end that is nearer to where a step of the route crosses it.
THEOREM NearerEndIsAnnounced ==
  ASSUME TwoEnded
  PROVE  Spec => []NearerEndAnnounced
<1>1. RoutingInv /\ Told => NearerEndAnnounced
  <2> SUFFICES ASSUME RoutingInv, Told, Routed, NEW d \in ToSet(answer.crossings)
               PROVE  \E i \in 1..Len(path) - 1, k \in DOMAIN Runway :
                        LET a == Position[path[i]]
                            b == Position[path[i + 1]]
                            p == Runway[k].polyline[1]
                            q == Runway[k].polyline[2]
                        IN  /\ d \in ToSet(Runway[k].designators)
                            /\ ToSet(Runway[k].designators) \cap EndRunways = {}
                            /\ SegmentsCross(a, b, p, q)
                            /\ \E here, far \in {p, q} :
                                 /\ Dot(Vector(here, far), Heading[d]) > 0
                                 /\ Abs(Orientation(a, b, here)) <= Abs(Orientation(a, b, far))
    BY DEF NearerEndAnnounced
  <2> DEFINE hits == DetectCrossings(path, EndRunways)
  <2>1. graph.nodes \subseteq DOMAIN Position /\ path \in Seq(graph.nodes) /\ path # <<>>
    BY DEF RoutingInv, Prepared, WellFormed, Tracing, Traced
  <2>2. Len(path) \in Nat \ {0}
    BY <2>1
  <2>3. /\ hits \in Seq(DOMAIN Heading)
        /\ \A h : h \in ToSet(hits) <=>
             \E i \in 1..Len(path) - 1, k \in DOMAIN Runway : h \in ToSet(CrossingOn(path, EndRunways, i, k))
    BY <2>2, DetectedFacts
  <2> HIDE DEF hits
  <2>4. d \in ToSet(hits)
    <3>1. answer.crossings = Distinct(hits)
      BY DEF Told, hits
    <3> QED BY <2>3, <3>1, DistinctFacts
  <2>5. PICK i \in 1..Len(path) - 1, k \in DOMAIN Runway : d \in ToSet(CrossingOn(path, EndRunways, i, k))
    BY <2>3, <2>4
  <2> DEFINE p == Runway[k].polyline[1]
             q == Runway[k].polyline[2]
             a == Position[path[i]]
             b == Position[path[i + 1]]
             x == Intersection(a, b, p, q)
  <2>6. SegmentsCross(a, b, p, q) /\ d = AnnouncedDesignator(Runway[k], x, a)
    BY <2>5, ToldOfCrossing
  <2>7. d \in ToSet(Runway[k].designators)
    BY <2>5, SaidFacts
  <2>8. ToSet(Runway[k].designators) \cap EndRunways = {}
    <3>1. ToSet(<<>>) = {}
      BY DEF ToSet
    <3> QED BY <2>5, <3>1 DEF CrossingOn
  <2>9. p \in Point /\ q \in Point
    BY RunwayFacts DEF TwoEnded
  <2>10. a \in Point /\ b \in Point
    <3>1. i \in DOMAIN path /\ i + 1 \in DOMAIN path
      BY <2>1
    <3>2. path[i] \in DOMAIN Position /\ path[i + 1] \in DOMAIN Position
      BY <2>1, <3>1
    <3> QED BY <3>2, PositionAssumption
  <2> HIDE DEF p, q, a, b
  <2>11. /\ \A c \in {p, q} : ScaledDistance(x, a, c) \in Int
         /\ \A here, far \in {p, q} :
              ScaledDistance(x, a, here) <= ScaledDistance(x, a, far)
                => Abs(Orientation(a, b, here)) <= Abs(Orientation(a, b, far))
    BY <2>6, <2>9, <2>10, NearerEnd
  <2> HIDE DEF x
  <2>12. PICK here \in {p, q}, far \in {p, q} :
           Dot(Vector(here, far), Heading[d]) > 0 /\ ScaledDistance(x, a, here) <= ScaledDistance(x, a, far)
    BY <2>6, <2>11, AnnouncedEnd DEF p, q
  <2>13. Abs(Orientation(a, b, here)) <= Abs(Orientation(a, b, far))
    BY <2>11, <2>12
  <2> QED BY <2>6, <2>7, <2>8, <2>12, <2>13 DEF p, q, a, b
<1> QED BY <1>1, RoutingSoundness, AnswerIsTold, PTL
=============================================================================
