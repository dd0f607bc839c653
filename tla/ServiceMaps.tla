----------------------------- MODULE ServiceMaps -----------------------------
(***************************************************************************)
(* The service maps of a system: for each route and each configuration of  *)
(* a map, the stations of the route in an order (internal/servicemaps and  *)
(* graph.SortBasic).  Static maps are built from scheduled trips, realtime *)
(* maps from the stops that realtime trips have yet to make.               *)
(*                                                                         *)
(* The routes and the stops stay; StaticUpdate has what their deletion     *)
(* takes with it.  Stops are their primary keys.  A comparison of the      *)
(* primary key of a stop with that of a stop time (realtime.go:298) never  *)
(* comes out equal by chance.  Updates do not overlap.                     *)
(***************************************************************************)
EXTENDS Integers, SequencesExt

CONSTANTS Routes,      \* routes of the system
          Stops,       \* primary keys of its stops
          Configs,     \* what UpdateConfig may be given: sets of map configurations
          Defaults,    \* the configurations used if there are none
          Files,       \* static data: scheduled trips, parents, and what is a station
          Timetables,  \* sets of realtime trips
          None         \* no direction, no parent, no static data

(***************************************************************************)
(* A configuration has an ID, a source, a threshold in percent, the days   *)
(* it is for ({}: all), and the range of the start times and that of the   *)
(* end times of its trips.  A scheduled trip has a route, a direction or   *)
(* None, the days of its service, a start, an end and a sequence of stops. *)
(* A realtime trip has a UID, which names its route, a direction or None,  *)
(* and the stops it has yet to make.                                       *)
(***************************************************************************)
ASSUME StopsAssumption == Stops \subseteq Nat /\ None \notin Stops /\ None \notin Files

\* UNIQUE(system_pk, id): an installation with others fails.
ASSUME ConfigsAssumption ==
  \A cs \in Configs \cup {Defaults} : \A c, d \in cs : c.id = d.id => c = d

\* Parents have no cycle: on one, the query for the stations would not end.
ASSUME FilesAssumption ==
  \A file \in Files :
    /\ IsFiniteSet(file.trips)
    /\ \A t \in file.trips : t.direction \in {TRUE, FALSE, None} /\ t.stops \in Seq(Stops)
    /\ file.parent \in [Stops -> Stops \cup {None}]
    /\ \A group \in (SUBSET Stops) \ {{}} : \E s \in group : file.parent[s] \notin group

ASSUME TimetablesAssumption ==
  /\ \A ts \in Timetables :
       /\ IsFiniteSet(ts)
       /\ \A t \in ts : /\ t.route \in Routes
                        /\ t.direction \in {TRUE, FALSE, None} /\ t.stops \in Seq(Stops)
  /\ \A ts, us \in Timetables : \A t \in ts, u \in us :
       t.id = u.id => t.route = u.route /\ (ts = us => t = u)

VARIABLES
  configs,  \* the stored configurations
  data,     \* the static data of the last static update
  trips,    \* the realtime trips
  maps,     \* rows: configuration ID, route, stations, and (history) the edges
            \* and the source they were built from
  built,    \* history: the configurations that are the same since the last
            \* static update
  behind    \* history: the routes whose realtime maps may be behind

vars == <<configs, data, trips, maps, built, behind>>

Init ==
  /\ configs = {}
  /\ data = None
  /\ trips = {}
  /\ maps = {}
  /\ built = {}
  /\ behind = Routes

IDs(cs) == {c.id : c \in cs}
Sourced(cs, source) == {c \in cs : c.source = source}
-----------------------------------------------------------------------------
(* graph.SortBasic.                                                        *)

NodesOf(edges) == {e[1] : e \in edges} \cup {e[2] : e \in edges}
InNodes(edges, n) == {e[1] : e \in {d \in edges : d[2] = n}}

\* The nodes that are pushed when next leaves the stack, after others: those it
\* is the last in-node of.
Ready(edges, next, left) ==
  {n \in NodesOf(edges) : next \in InNodes(edges, n) /\ InNodes(edges, n) \subseteq left \cup {next}}

\* One round of the loop.  Nodes that are ready at once are pushed in the order
\* of the edges, which is that of a map in Go: any.
Pop(edges, s) ==
  LET next == Last(s.stack)
  IN {[stack |-> Front(s.stack) \o pushed, order |-> Append(s.order, next)] :
        pushed \in SetToSeqs(Ready(edges, next, ToSet(s.order)))}

InOrder(numbers) ==
  CHOOSE s \in SetToSeqs(numbers) : \A i, j \in DOMAIN s : i < j => s[i] < s[j]

\* The stack and the order in which nodes have left it, after as many rounds as
\* there are nodes.
Loop(edges) ==
  LET starting == InOrder({n \in NodesOf(edges) : InNodes(edges, n) = {}})
      rounds == Cardinality(NodesOf(edges))
      after[k \in 0..rounds] ==
        IF k = 0 THEN {[stack |-> starting, order |-> <<>>]}
        ELSE UNION {IF s.stack = <<>> THEN {s} ELSE Pop(edges, s) : s \in after[k - 1]}
  IN after[rounds]

\* Mutant of SortBasic: a cycle is cut short.
SortPartly(edges) == {s.order : s \in {t \in Loop(edges) : t.stack = <<>>}}

\* The orders it may return: none (ErrGraphNotSortable) if a node is left.
SortBasic(edges) ==
  {s.order : s \in {t \in Loop(edges) : t.stack = <<>> /\ Len(t.order) = Cardinality(NodesOf(edges))}}
-----------------------------------------------------------------------------
(* The edges of the maps.  They are in the direction with ID true.         *)

\* MapStopIDAndPkToStationPk: the nearest station among a stop and its
\* ancestors, or else the root.
StationOf(file) ==
  LET station[s \in Stops] ==
        IF s \in file.stations \/ file.parent[s] = None THEN s ELSE station[file.parent[s]]
  IN station

\* The stations of a trip, in the direction with ID true.
Path(file, trip) ==
  LET stationOf == StationOf(file)
      stations == [i \in DOMAIN trip.stops |-> stationOf[trip.stops[i]]]
  IN IF trip.direction THEN stations ELSE Reverse(stations)

EdgesOf(path) == {<<path[i], path[i + 1]>> : i \in 1..(Len(path) - 1)}

\* isIncludedTrip and buildIncludedServiceIDs.
IsIncludedTrip(c, t) ==
  /\ t.direction # None
  /\ c.days # {} => t.days \cap c.days # {}
  /\ t.stops # <<>>
  /\ t.start \in c.starts /\ t.end \in c.ends

\* buildStaticMaps: paths that too few of the trips take are left out.
StaticEdges(c, file, route) ==
  LET included == {t \in file.trips : t.route = route /\ IsIncludedTrip(c, t)}
      taking(p) == {t \in included : Path(file, t) = p}
  IN UNION {EdgesOf(p) : p \in {q \in {Path(file, t) : t \in included} :
              Cardinality(taking(q)) * 100 >= Cardinality(included) * c.threshold}}

\* ListStopPksForRealtimeMap and buildRealtimeMapEdges.
RealtimeEdges(ts, file, route) ==
  UNION {EdgesOf(Path(file, t)) : t \in {u \in ts : u.route = route /\ u.direction # None}}
-----------------------------------------------------------------------------
\* persistMap: the map of a route and a configuration is replaced.
Others(ids, routes) == {m \in maps : m.config \notin ids \/ m.route \notin routes}
Map(c, route, edges, stops) ==
  [config |-> c.id, route |-> route, stops |-> stops, edges |-> edges, source |-> c.source]

\* The configurations UpdateConfig finds and updates; the others are deleted,
\* with their maps, or new.
KeptConfigs(cs) == IDs(configs) \cap IDs(cs)

\* UpdateConfig, when a system is installed or updated.  Maps are not rebuilt.  If
\* the stored configurations cannot be listed it returns nil and leaves them as
\* they are: a step that changes nothing.
UpdateConfig(given) ==
  LET cs == IF given = {} THEN Defaults ELSE given
  IN /\ configs' = cs
     /\ maps' = {m \in maps : m.config \in KeptConfigs(cs)}
     /\ built' = built \cap cs
     /\ behind' = IF Sourced(cs, "realtime") \subseteq configs THEN behind ELSE Routes
     /\ UNCHANGED <<data, trips>>

\* What may be stored: for a configuration and a route, a map that is empty if its
\* edges have a cycle; for all, one each.
StaticMaps(file, c, r) ==
  LET edges == StaticEdges(c, file, r)
      orders == SortBasic(edges)
  IN {Map(c, r, edges, o) : o \in IF orders = {} THEN {<<>>} ELSE orders}

AllStaticMaps(file) ==
  Choices({StaticMaps(file, c, r) : c \in Sourced(configs, "static"), r \in Routes})

\* UpdateStaticMaps, at the end of a static update: all static maps are rebuilt.
UpdateStaticMaps(file) ==
  /\ data' = file
  /\ \E rows \in AllStaticMaps(file) :
       maps' = Others(IDs(Sourced(configs, "static")), Routes) \cup rows
  /\ built' = configs
  /\ behind' = IF data # None /\ StationOf(file) = StationOf(data) THEN behind ELSE Routes
  /\ UNCHANGED <<configs, trips>>

\* Mutant of RoutesToRebuild: deleted trips are forgotten.
RoutesOfChanged(ts) == {t.route : t \in {u \in ts \ trips : u.stops # <<>>}}

\* updateTrips: the routes of the trips whose path may have changed, and of
\* those that are deleted.  A trip without stops changes no path, even if it
\* had some.
RoutesToRebuild(ts) ==
  {t.route : t \in {u \in ts \ trips : u.stops # <<>>}}
    \cup {t.route : t \in {u \in trips : u.id \notin IDs(ts)}}

\* What may be stored: the maps of a route, all in one order; those of some routes.
RealtimeMaps(ts, r) ==
  LET edges == RealtimeEdges(ts, data, r)
  IN {{Map(c, r, edges, o) : c \in Sourced(configs, "realtime")} : o \in SortBasic(edges)}

AllRealtimeMaps(ts, routes) ==
  {UNION rows : rows \in Choices({RealtimeMaps(ts, r) : r \in routes})}

\* updateTrips and UpdateRealtimeMaps.  Routes of trips whose times changed are
\* rebuilt as well.  A map whose edges have a cycle is left as it is.
UpdateRealtimeMaps(ts) ==
  /\ data # None
  /\ trips' = ts
  /\ \E others \in SUBSET {t.route : t \in ts} :
       LET routes == RoutesToRebuild(ts) \cup others
           sorted == {r \in routes : RealtimeMaps(ts, r) # {}}
       IN /\ \E rows \in AllRealtimeMaps(ts, sorted) :
               maps' = Others(IDs(Sourced(configs, "realtime")), sorted) \cup rows
          /\ behind' = (behind \ routes)
               \cup ({t.route : t \in {u \in ts : u.stops = <<>> /\ u \notin trips}} \ routes)
  /\ UNCHANGED <<configs, data, built>>

\* DeleteFeed of the realtime feed: its trips go, and the maps stay.
DeleteRealtimeFeed ==
  /\ trips # {}
  /\ trips' = {}
  /\ behind' = Routes
  /\ UNCHANGED <<configs, data, maps, built>>

Next ==
  \/ \E given \in Configs : UpdateConfig(given)
  \/ \E file \in Files : UpdateStaticMaps(file)
  \/ \E ts \in Timetables : UpdateRealtimeMaps(ts)
  \/ DeleteRealtimeFeed

Spec == Init /\ [][Next]_vars
-----------------------------------------------------------------------------
(* Properties. *)

\* Of any of the nodes, some have no edge from another of them.
HasNoCycle(edges) ==
  \A ns \in (SUBSET NodesOf(edges)) \ {{}} : \E n \in ns : InNodes(edges, n) \cap ns = {}

\* A map is the only one of its route and of a stored configuration.  It lists
\* the stations of its edges, each once and after those with an edge to it; if
\* that is impossible, which is so only for a cycle, a static map is empty and a
\* realtime one is not stored.
MapsAreSorted ==
  /\ \A m, n \in maps : m.config = n.config /\ m.route = n.route => m = n
  /\ \A m \in maps :
       /\ m.config \in IDs(configs)
       /\ IF HasNoCycle(m.edges)
          THEN /\ ToSet(m.stops) = NodesOf(m.edges) /\ IsInjective(m.stops)
               /\ \A i, j \in DOMAIN m.stops : <<m.stops[i], m.stops[j]>> \in m.edges => i < j
          ELSE m.stops = <<>> /\ m.source = "static"

\* Maps are of the latest data.  A static map is that of the static data and of its
\* configuration, unless the configuration has changed since.  The realtime map
\* of a route is that of its trips, unless they have a cycle; it may be behind
\* after what does not rebuild it: a new configuration, a change of the stations,
\* a trip that loses its stops, a deleted feed.
MapsAreCurrent ==
  /\ \A c \in Sourced(built, "static") : \A r \in Routes :
       \E m \in maps : m.config = c.id /\ m.route = r /\ m.edges = StaticEdges(c, data, r)
  /\ \A c \in Sourced(configs, "realtime") : \A r \in Routes \ behind :
       LET edges == RealtimeEdges(trips, data, r)
       IN \/ \E m \in maps : m.config = c.id /\ m.route = r /\ m.edges = edges
          \/ SortBasic(edges) = {}
=============================================================================
