---------------------------- MODULE TaxiRouting ----------------------------
(***************************************************************************)
(* calculate_taxi_route of app/taxi_routing.py: the checks on the request, *)
(* the two endpoints, one after the other, each with the query for the     *)
(* ends of its runway, the graph from the first of three queries that has  *)
(* one, the attachment of both ends and Dijkstra's search, one step per    *)
(* query and per element taken from the heap. Overpass answers any of      *)
(* Answer, and a runway's ends or not, or fails.                           *)
(***************************************************************************)
EXTENDS TaxiGraph

CONSTANTS
  Request,   \* [origin, dest, airport, connectors]
  Feature,   \* the named places of the airport
  Answer     \* the sets of ways Overpass may answer

\* Coordinates and names are given or not; a name that is normalised to nothing
\* counts as not given.
ASSUME PlacesAssumption ==
  /\ None \notin Point
  /\ \A q \in {r.origin : r \in Request} \cup {r.dest : r \in Request} : q.at \in Point \cup {None}
  /\ \A f \in Feature : /\ "at" \in DOMAIN f
                         /\ f.at \in Point
                         /\ DOMAIN f.aliases \subseteq Nat
                         /\ f.way \in (Point \X Point) \cup {None}

VARIABLES
  request, phase,
  features,                              \* the named places known to the request
  place,                                 \* the endpoints, once resolved
  graph, parts, ends,                    \* the graph, its components, the ends' nodes in it
  distance, previous, visited, queue,    \* of the search
  path,                                  \* traced back from the destination
  answer

search == <<distance, previous, visited, queue, path>>
vars == <<request, phase, features, place, graph, parts, ends, search, answer>>

NoGraph == [nodes |-> {}, edges |-> {}]

NoPlace == [origin |-> None, dest |-> None]

----------------------------------------------------------------------------
Init ==
  /\ request \in Request
  /\ phase = "validate"
  /\ features = {} /\ place = NoPlace /\ graph = NoGraph /\ parts = {} /\ ends = None
  /\ distance = <<>> /\ previous = <<>> /\ visited = {} /\ queue = {} /\ path = <<>>
  /\ answer = None

Fail(code) ==
  /\ phase' = "done"
  /\ answer' = [status |-> "error", code |-> code]
  /\ UNCHANGED <<request, features, place, graph, parts, ends, search>>

Goto(next) == phase' = next /\ UNCHANGED <<request, search, answer>>

Missing(q) == q.at = None /\ q.name = None

\* A name needs the airport's features; with an airport they are fetched even for
\* an endpoint whose coordinates are given.
RequiresGeocode(r) ==
  \E q \in {r.origin, r.dest} : q.name # None /\ (q.at = None \/ r.airport # None)

Validate ==
  /\ phase = "validate"
  /\ IF Missing(request.origin)                                    THEN Fail("missing_origin")
     ELSE IF Missing(request.dest)                                 THEN Fail("missing_destination")
     ELSE IF request.airport = "malformed"                         THEN Fail("invalid_airport")
     ELSE IF RequiresGeocode(request) /\ request.airport = None    THEN Fail("missing_airport")
     ELSE /\ Goto(IF RequiresGeocode(request) THEN "features" ELSE "origin")
          /\ UNCHANGED <<features, place, graph, parts, ends>>

\* The area query, then the one around the airport's reference point.
FetchAirportFeatures ==
  /\ phase = "features"
  /\ \/ /\ features' \in {{}, Feature}
        /\ Goto("origin")
        /\ UNCHANGED <<place, graph, parts, ends>>
     \/ Fail("overpass")

\* One endpoint: the match, and for a runway its ends.
Resolve(w, missing, next) ==
  /\ phase = w
  /\ LET found == ResolveEndpoint(features, request[w])
     IN  \/ found = {} /\ Fail(missing)
         \/ /\ \E endpoint \in found : place' = [place EXCEPT ![w] = endpoint]
            /\ Goto(next)
            /\ UNCHANGED <<features, graph, parts, ends>>
         \/ MayAskForEnds(features, request[w]) /\ Fail("overpass")

ResolveOrigin == Resolve("origin", "origin_not_found", "dest")
ResolveDest == Resolve("dest", "dest_not_found", IF request.airport = None THEN "radius" ELSE "area")

\* A tier without routable ways gives way to the next; the last one is taken as it is.
FetchTier(tier, next) ==
  /\ phase = tier
  /\ \/ \E ways \in Answer :
          /\ graph' = ParseTaxiwayGraph(ways, request.connectors)
          /\ Goto(IF graph'.nodes # {} THEN "attach" ELSE next)
          /\ UNCHANGED <<features, place, parts, ends>>
     \/ Fail("overpass")

FetchArea == FetchTier("area", IF request.airport = "unlocated" THEN "radius" ELSE "around")
FetchAround == FetchTier("around", "radius")

\* A slip: start again until something is found.
FetchRadiusAgain == FetchTier("radius", "area")

FetchRadius == FetchTier("radius", "attach")

FindComponents ==
  /\ phase = "attach" /\ parts = {}
  /\ IF graph.nodes = {} THEN Fail("no_nodes_in_area")
     ELSE /\ parts' = ConnectedComponents(graph)
          /\ Goto("attach")
          /\ UNCHANGED <<features, place, graph, ends>>

Attach ==
  /\ phase = "attach" /\ parts # {}
  /\ \E pair \in AttachEndpoints(graph, parts, place.origin.at, place.dest.at) :
       /\ ends' = pair
       /\ distance' = [n \in {pair[1]} |-> 0]
       /\ queue' = {<<0, pair[1]>>}
  /\ phase' = "search"
  /\ UNCHANGED <<request, features, place, graph, parts, previous, visited, path, answer>>

----------------------------------------------------------------------------
\* The search. The heap orders by distance, then by node.
Least(q) ==
  CHOOSE top \in q : \A x \in q : \/ top[1] < x[1]
                                  \/ top[1] = x[1] /\ top[2] <= x[2]

\* The weight of the best of parallel edges.
Weight(g, u, v) == Min({e.weight : e \in {f \in g.edges : f.from = u /\ f.to = v}})

Neighbours(g, u) == {e.to : e \in {f \in g.edges : f.from = u}}

\* A slip: the first distance found for a node stays.
ImprovedOnce(u, d) == {v \in Neighbours(graph, u) \ (visited \cup {u}) : v \notin DOMAIN distance}

\* Nodes not settled that are nearer by way of u, which is at distance d.
Improved(u, d) ==
  {v \in Neighbours(graph, u) \ (visited \cup {u}) :
     v \notin DOMAIN distance \/ d + Weight(graph, u, v) < distance[v]}

Relax(u, d) ==
  LET better == Improved(u, d)
  IN  /\ distance' = [v \in DOMAIN distance \cup better |->
                        IF v \in better THEN d + Weight(graph, u, v) ELSE distance[v]]
      /\ previous' = [v \in DOMAIN previous \cup better |->
                        IF v \in better THEN u ELSE previous[v]]
      /\ queue' = (queue \ {<<d, u>>}) \cup {<<d + Weight(graph, u, v), v>> : v \in better}

\* Taken again after it was settled, or settled and looked beyond.
Pop ==
  /\ phase = "search" /\ queue # {}
  /\ LET top == Least(queue)
         u == top[2]
     IN  /\ u \in visited \/ u # ends[2]
         /\ visited' = visited \cup {u}
         /\ IF u \in visited
            THEN queue' = queue \ {top} /\ UNCHANGED <<distance, previous>>
            ELSE Relax(u, top[1])
  /\ UNCHANGED <<request, phase, features, place, graph, parts, ends, path, answer>>

Arrive ==
  /\ phase = "search" /\ queue # {}
  /\ LET top == Least(queue)
     IN  /\ top[2] = ends[2] /\ top[2] \notin visited
         /\ queue' = queue \ {top}
  /\ visited' = visited \cup {ends[2]}
  /\ path' = <<ends[2]>>
  /\ phase' = "trace"
  /\ UNCHANGED <<request, features, place, graph, parts, ends, distance, previous, answer>>

TraceBack ==
  /\ phase = "trace" /\ path[1] # ends[1]
  /\ path' = <<previous[path[1]]>> \o path
  /\ UNCHANGED <<request, phase, features, place, graph, parts, ends,
                 distance, previous, visited, queue, answer>>

EndRunways == RunwayNames(place.origin) \cup RunwayNames(place.dest)

\* The names and the crossings are worked out from the route; each runway end is
\* told once.
Respond ==
  /\ phase = "trace" /\ path[1] = ends[1]
  /\ phase' = "done"
  /\ \E steps \in StepNames(graph, path), hits \in {DetectCrossings(path, EndRunways)} :
       answer' = [status |-> "route", steps |-> steps, crossings |-> Distinct(hits),
                  names |-> CollapseTaxiwayNames(PathNames(steps))]
  /\ UNCHANGED <<request, features, place, graph, parts, ends, search>>

NoRoute ==
  /\ phase = "search" /\ queue = {}
  /\ phase' = "done"
  /\ answer' = [status |-> "no_route", same_component |-> ends[2] \in Component(graph, ends[1])]
  /\ UNCHANGED <<request, features, place, graph, parts, ends, search>>

Next ==
  \/ Validate
  \/ FetchAirportFeatures
  \/ ResolveOrigin
  \/ ResolveDest
  \/ FetchArea
  \/ FetchAround
  \/ FetchRadius
  \/ FindComponents
  \/ Attach
  \/ Pop
  \/ Arrive
  \/ TraceBack
  \/ Respond
  \/ NoRoute

\* Every query has a timeout and nothing else waits: the request goes on.
Spec == Init /\ [][Next]_vars /\ WF_vars(Next)

----------------------------------------------------------------------------
Routed == phase = "done" /\ answer.status = "route"

IsWalk(g, p) ==
  \A i \in 1..Len(p) - 1 : p[i + 1] \in Neighbours(g, p[i])

\* What it costs to walk p, step by step.
Cost(g, p) ==
  LET upTo[i \in 0..Len(p) - 1] ==
        IF i = 0 THEN 0 ELSE upTo[i - 1] + Weight(g, p[i], p[i + 1])
  IN  upTo[Len(p) - 1]

\* The costs of the cheapest walks from a node, with one step more.
Extended(g, costs) ==
  LET before(n) == {m \in DOMAIN costs : n \in Neighbours(g, m)}
  IN  [n \in DOMAIN costs \cup UNION {Neighbours(g, m) : m \in DOMAIN costs} |->
         Min({costs[m] : m \in DOMAIN costs \cap {n}}
               \cup {costs[m] + Weight(g, m, n) : m \in before(n)})]

\* The costs of the cheapest walks of at most k steps from u, for every k.
Costs(g, u) ==
  LET best[k \in Nat] == IF k = 0 THEN [n \in {u} |-> 0] ELSE Extended(g, best[k - 1])
  IN  best

\* A cheapest walk needs no more steps than there are nodes.
LeastCost(g, u, v) == Costs(g, u)[Cardinality(g.nodes)][v]

\* shortest_path: the route is a walk in the graph from one attachment to the
\* other, and none costs less; the heap's stale elements do no harm.
ShortestRoute ==
  Routed => /\ path[1] = ends[1] /\ Last(path) = ends[2]
            /\ IsWalk(graph, path)
            /\ Cost(graph, path) = LeastCost(graph, ends[1], ends[2])

\* attach_endpoints with shortest_path: there is no route only where no part of
\* the network lies near both endpoints, and the diagnostics say so.
NoRouteOnlyWhereUnserved ==
  phase = "done" /\ answer.status = "no_route" =>
    /\ ~answer.same_component
    /\ \A c \in parts :
         \E p \in {place.origin.at, place.dest.at} :
           \A n \in c : Distance(p, Position[n]) > MAX_ATTACH_DISTANCE_M

----------------------------------------------------------------------------
\* The side of the runway's line a node is on, and whether it is on its surface.
Side(runway, n) == Orientation(runway.polyline[1], runway.polyline[2], Position[n])

On(runway, n) ==
  LET p == runway.polyline[1]
      q == runway.polyline[2]
  IN  /\ Side(runway, n) = 0
      /\ Distance(p, q) = Distance(p, Position[n]) + Distance(Position[n], q)

\* The path goes from one side of the runway to the other, in one step or along it.
Crosses(runway) ==
  \E i, j \in DOMAIN path :
    /\ i < j
    /\ Side(runway, path[i]) * Side(runway, path[j]) < 0
    /\ \A k \in i + 1..j - 1 : On(runway, path[k])
    /\ j = i + 1 =>
         LET a == Position[path[i]]
             b == Position[path[j]]
         IN  Orientation(a, b, runway.polyline[1]) * Orientation(a, b, runway.polyline[2]) < 0

\* detect_crossings on straight runways: a route that gets from one side of a
\* runway to the other is told so, by one of its designators, even when it meets
\* the runway in a node; only the runways the route ends at are left out.
EveryCrossingAnnounced ==
  Routed => \A k \in DOMAIN Runway :
    \/ ~Crosses(Runway[k])
    \/ ToSet(Runway[k].designators)
         \cap (ToSet(answer.crossings) \cup EndRunways) # {}

\* _announced_designator: a runway is told by the end that is nearer to where the
\* route crosses it: some step of the route crosses the runway, not one that the route
\* ends at, and its line passes no farther from that designator's threshold, from which
\* the heading leads down the runway, than from the other end.
NearerEndAnnounced ==
  Routed => \A d \in ToSet(answer.crossings) :
    \E i \in 1..Len(path) - 1, k \in DOMAIN Runway :
      LET a == Position[path[i]]
          b == Position[path[i + 1]]
          p == Runway[k].polyline[1]
          q == Runway[k].polyline[2]
      IN  /\ d \in ToSet(Runway[k].designators)
          /\ ToSet(Runway[k].designators) \cap EndRunways = {}
          /\ SegmentsCross(a, b, p, q)
          /\ \E here, far \in {p, q} :
               /\ Dot(Vector(here, far), Heading[d]) > 0
               /\ Abs(Orientation(a, b, here)) <= Abs(Orientation(a, b, far))

\* collapse_taxiway_names: every named taxiway of the route is spoken, or one with
\* the same letters that is numbered too; none is spoken twice in a row.
TaxiwaysSpoken ==
  Routed => /\ \A i \in DOMAIN answer.steps : answer.steps[i] # None =>
                 \E n \in ToSet(answer.names) :
                   n = answer.steps[i] \/ /\ n.letters = answer.steps[i].letters
                                           /\ None \notin {n.digits, answer.steps[i].digits}
            /\ \A i \in 1..Len(answer.names) - 1 : answer.names[i] # answer.names[i + 1]

ByName == {w \in {"origin", "dest"} : place[w] # None /\ request[w].at = None}

\* match_feature_by_name: an endpoint given by name alone is a feature of the same
\* name wherever one has it, whatever longer names contain it and whatever kind the
\* request prefers. The last word of a name of several is that name too.
ExactNameWins ==
  \A w \in ByName :
    (\E g \in Feature : \E i \in DOMAIN g.aliases : SameName(g.aliases[i], request[w].name))
      => SameName(place[w].match.alias, request[w].name)

\* apply_runway_point: a route to or from a runway named by a designator ends at that
\* designator's threshold, or at the end it leads to, however the runway was drawn;
\* at the runway's centre where Overpass did not tell the ends.
ThresholdOfDesignator ==
  \A w \in ByName, d \in DOMAIN Heading :
    LET m == place[w].match
        at == m.feature.at
    IN  request[w].name = <<d>> /\ m.feature.kind = "runway" =>
          IF m.ends = None THEN m.feature \in Feature
          ELSE /\ at \in ToSet(m.ends)
               /\ \E other \in ToSet(m.ends) :
                    Dot(IF request[w].point = "start" THEN Vector(at, other) ELSE Vector(other, at),
                        Heading[d]) > 0

\* A designator that a request names is that of a feature on the chart, the runways of
\* that name have it without further words, and lie in its direction.
Charted ==
  \A d \in DOMAIN Heading :
    /\ (\E r \in Request : <<d>> \in {r.origin.name, r.dest.name}) =>
         \E f \in Feature : \E i \in DOMAIN f.aliases : SameName(f.aliases[i], <<d>>)
    /\ \A f \in Feature : \A i \in DOMAIN f.aliases :
         f.kind = "runway" /\ SameName(f.aliases[i], <<d>>) =>
           /\ Joined(f.aliases[i]) = d
           /\ f.way # None => Dot(Vector(f.way[1], f.way[2]), Heading[d]) # 0

\* Every runway is drawn as one straight piece, and no node lies exactly at an end
\* of one, where the half-open test sees a crossing in one direction only.
Straight ==
  \A k \in DOMAIN Runway :
    /\ Len(Runway[k].polyline) = 2
    /\ \A n \in DOMAIN Position : Position[n] \notin ToSet(Runway[k].polyline)

\* Every runway is drawn as one straight piece and has two designators, of opposite
\* headings, that tell its ends.
TwoEnded ==
  \A k \in DOMAIN Runway :
    LET line == Runway[k].polyline
        names == Runway[k].designators
    IN  /\ Len(line) = 2 /\ Len(names) = 2
        /\ Heading[names[2]] = Vector(Heading[names[1]], <<0, 0>>)
        /\ Dot(Heading[names[1]], Vector(line[1], line[2])) # 0

\* Every request is answered: the search ends, with or without a route.
Answered == <>(phase = "done")
============================================================================
