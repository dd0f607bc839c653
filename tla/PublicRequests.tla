--------------------------- MODULE PublicRequests ----------------------------
(***************************************************************************)
(* Requests to the public API for routes, trips, agencies, alerts,         *)
(* transfers, vehicles and systems (internal/public/endpoints; requests    *)
(* for stops are in StopRequests).  A request first lists what it is       *)
(* about, all of it or one by its ID, and then makes further queries, some *)
(* of them one for each row.  Updates commit, and time passes, in between. *)
(*                                                                         *)
(* An ID stands for a primary key, since an answer tells its rows apart by *)
(* the ID.  Trips also have the ID they share with scheduled trips.  Texts *)
(* and the pages of vehicles, which are those of stops, are left out.      *)
(***************************************************************************)
EXTENDS Integers, SequencesExt

CONSTANTS Databases,   \* what may be committed
          Skips,       \* what a request for routes may leave out
          MaxTime,     \* bound: the last moment
          None         \* no agency, stop, trip, shape, vehicle, time or request

(***************************************************************************)
(* A route has an agency, a trip a route, a transfer two stops.  A stop    *)
(* time has a trip, a stop and an arrival; it may be past.  A map is a     *)
(* route, a configuration and the stops in order.  A link is an alert and  *)
(* what it informs of; a period of an alert may be open.  A vehicle may    *)
(* have a trip, and keeps its key when the trip goes.  A scheduled trip    *)
(* has a route, the ID of a trip and a shape.                              *)
(***************************************************************************)
Keys(rows) == {x.pk : x \in rows}
Pks(d) == d.agencies \cup Keys(d.routes) \cup Keys(d.trips) \cup d.stops \cup d.alerts

\* The schema's keys: the database refuses other tables.
WellFormed(d) ==
  /\ IsFiniteSet(d.times) /\ None \notin Pks(d)
  /\ \A x \in d.routes : x.agency \in d.agencies
  /\ \A x \in d.trips : x.route \in Keys(d.routes)
  /\ \A x, y \in d.trips : x.pk = y.pk \/ <<x.route, x.id>> = <<y.route, y.id>> => x = y
  /\ \A x \in d.transfers : {x.from, x.to} \subseteq d.stops
  /\ \A x, y \in d.times :
       /\ x.trip \in Keys(d.trips) /\ x.stop \in d.stops /\ x.arrival \in Nat \cup {None}
       /\ x.trip = y.trip /\ x.seq = y.seq => x = y
  /\ \A x, y \in d.maps : x.config \in d.configs /\ (<<x.route, x.config>> = <<y.route, y.config>> => x = y)
  /\ d.links \subseteq d.alerts \X Pks(d)
  /\ \A x \in d.periods : x.alert \in d.alerts /\ {x.starts, x.ends} \subseteq Nat \cup {None}
  /\ \A x, y \in d.vehicles : x.id # None /\ (x.id = y.id \/ (x.trip = y.trip /\ x.trip # None) => x = y)
  /\ \A x, y \in d.scheduled : <<x.route, x.id>> = <<y.route, y.id>> => x = y

VARIABLES
  db,       \* the committed tables
  gone,     \* primary keys of what was deleted: they do not come back
  now,      \* the time
  request,  \* the request in progress, or None
  during    \* history: the tables and times since the request began

vars == <<db, gone, now, request, during>>

Init ==
  /\ db \in {d \in Databases : WellFormed(d)}
  /\ gone = {}
  /\ now = 0
  /\ request = None
  /\ during = {}
-----------------------------------------------------------------------------
(* The queries that list what a request is about. *)

\* A trip comes with its vehicle, and once for each shape that a scheduled trip
\* with its ID has, whatever the route of that one.
ShapesOf(d, id) == {x.shape : x \in {y \in d.scheduled : y.id = id}} \ {None}
VehicleOf(d, trip) ==
  IF \E v \in d.vehicles : v.trip = trip THEN (CHOOSE v \in d.vehicles : v.trip = trip).id ELSE None
ListTrips(d, route) ==
  {[pk |-> x[1].pk, shape |-> x[2], vehicle |-> VehicleOf(d, x[1].pk)] :
     x \in UNION {{t} \X (IF ShapesOf(d, t.id) = {} THEN {None} ELSE ShapesOf(d, t.id)) :
                    t \in {u \in d.trips : u.route = route}}}

\* A vehicle comes with its trip and the route of it, if the trip is there.
ListVehicles(d) ==
  {[pk |-> v.id,
    trip |-> IF v.trip \in Keys(d.trips) THEN v.trip ELSE None,
    route |-> IF v.trip \in Keys(d.trips)
              THEN (CHOOSE t \in d.trips : t.pk = v.trip).route ELSE None] : v \in d.vehicles}

Rows(pks) == {[pk |-> x] : x \in pks}

\* What a request of a kind lists.  Trips are those of a route, which may go just
\* before.  A request for one that is not there fails, or has no answer.
Lists(kind, d) ==
  CASE kind = "routes"    -> {d.routes}
    [] kind = "trips"     -> {ListTrips(d, x.pk) : x \in d.routes} \cup {{}}
    [] kind = "agencies"  -> {Rows(d.agencies)}
    [] kind = "alerts"    -> {Rows(d.alerts)}
    [] kind = "transfers" -> {d.transfers}
    [] kind = "vehicles"  -> {ListVehicles(d)}
    [] kind = "systems"   -> {Rows({"system"})}
Kinds == {"routes", "trips", "agencies", "alerts", "transfers", "vehicles", "systems"}
-----------------------------------------------------------------------------
(* The other queries: what they ask for, and of which rows.                *)

Ask(what, pks) == [what |-> what, of |-> pks]

\* Some queries for each of the rows.
AskEach(whats, pks) == UNION {{Ask(what, {pk}) : what \in whats} : pk \in pks}

Counts(d) ==
  [numAgencies |-> Cardinality(d.agencies), numFeeds |-> Cardinality(d.feeds),
   numRoutes |-> Cardinality(d.routes), numStops |-> Cardinality(d.stops),
   numTransfers |-> Cardinality(d.transfers)]

PlanRoutes(rows, skip) ==
  {Ask(what, Keys(rows)) : what \in {"maps", "headways", "alerts"} \ skip}
    \cup {Ask("agencies", {x.agency : x \in rows})}
PlanTrips(rows) == {Ask("alerts", Keys(rows))} \cup AskEach({"times"}, Keys(rows))
PlanAgencies(rows) == AskEach({"routes", "agencyAlerts"}, Keys(rows))
PlanAlerts(rows) == {Ask("periods", Keys(rows))}
PlanTransfers(rows) == {Ask("stops", UNION {{x.from, x.to} : x \in rows})}
PlanSystems(rows) ==
  AskEach({"numAgencies", "numFeeds", "numRoutes", "numStops", "numTransfers"}, Keys(rows))

Plan(kind, rows, skip) ==
  CASE kind = "routes"    -> PlanRoutes(rows, skip)
    [] kind = "trips"     -> PlanTrips(rows)
    [] kind = "agencies"  -> PlanAgencies(rows)
    [] kind = "alerts"    -> PlanAlerts(rows)
    [] kind = "transfers" -> PlanTransfers(rows)
    [] kind = "vehicles"  -> {}
    [] kind = "systems"   -> PlanSystems(rows)

\* The queries of a request are made in this order, and those for an agency
\* before those for the next one.
Order ==
  <<"maps", "headways", "alerts", "agencies", "times", "routes", "agencyAlerts", "periods",
    "stops", "numAgencies", "numFeeds", "numRoutes", "numStops", "numTransfers">>
Place(what) == CHOOSE i \in DOMAIN Order : Order[i] = what

Precedes(p, q, todo) ==
  \/ Place(p.what) < Place(q.what) /\ (p.what = "routes" => p.of = q.of)
  \/ p.what = "agencyAlerts" /\ p.of # q.of /\ Ask("routes", p.of) \notin todo

\* Mutant of Active: a period that has not started counts.
NotOver(p, t) == p.ends = None \/ p.ends > t

\* A period that the queries for active alerts take to be active.
Active(p, t) == (p.starts = None \/ p.starts < t) /\ (p.ends = None \/ p.ends > t)

\* A route or a trip has an alert once for each of its periods that is active,
\* an agency only once.
ActiveAlerts(d, t, pks) ==
  UNION {{<<x[2], <<x[1], p>>>> : p \in {q \in d.periods : q.alert = x[1] /\ Active(q, t)}} :
           x \in {y \in d.links : y[2] \in pks}}
ActiveAlertsForAgencies(d, t, pks) == {<<x[1], <<x[2][1]>>>> : x \in ActiveAlerts(d, t, pks)}

\* EstimateHeadwaysForRoutes: the time between the first and the last arrival
\* ahead, at the stops with several, per arrival but the first; rounded.  A
\* moment of a stop is one from its first arrival up to the last.
Ahead(d, t, route) ==
  {x \in d.times : /\ x.trip \in Keys({y \in d.trips : y.route = route})
                   /\ ~x.past /\ x.arrival # None /\ x.arrival >= t}
At(times, s) == {x \in times : x.stop = s}
Busy(times) == {s \in {x.stop : x \in times} : Cardinality(At(times, s)) > 1}
Moments(times) ==
  LET arrivals(s) == {x.arrival : x \in At(times, s)}
  IN UNION {{s} \X (Min(arrivals(s))..(Max(arrivals(s)) - 1)) : s \in Busy(times)}
Headway(times) ==
  LET total == Cardinality(Moments(times))
      diffs == Cardinality({x \in times : x.stop \in Busy(times)}) - Cardinality(Busy(times))
  IN (2 * total + diffs) \div (2 * diffs)

\* ListServiceMapsForRoutes: every configuration, with the stops of the map if
\* there is one.
StopsOf(d, route, config) ==
  IF \E m \in d.maps : m.route = route /\ m.config = config
  THEN (CHOOSE m \in d.maps : m.route = route /\ m.config = config).stops ELSE <<>>

\* The active periods of an alert that contain the present (buildActivePeriods).
IsCurrent(p, t) == (p.starts = None \/ p.starts <= t) /\ (p.ends = None \/ t <= p.ends)

\* The rows of the queries: the key of what a row is about, and the rest.
ServiceMaps(d, pks) ==
  {<<x[1], <<x[2], StopsOf(d, x[1], x[2])>>>> : x \in (pks \cap Keys(d.routes)) \X d.configs}
Headways(d, t, pks) ==
  {<<x, Headway(Ahead(d, t, x))>> : x \in {y \in pks : Busy(Ahead(d, t, y)) # {}}}
AgenciesByPk(d, pks) == {<<x, x>> : x \in pks \cap d.agencies}
StopsByPk(d, pks) == {<<x, x>> : x \in pks \cap d.stops}
StopTimes(d, pks) == {<<x.trip, <<x.seq, x.stop>>>> : x \in {y \in d.times : y.trip \in pks}}
RoutesInAgency(d, pks) == {<<x.agency, x.pk>> : x \in {y \in d.routes : y.agency \in pks}}
ActivePeriods(d, t, pks) ==
  {<<p.alert, <<p, IsCurrent(p, t)>>>> : p \in {x \in d.periods : x.alert \in pks}}

Result(q, d, t) ==
  CASE q.what = "maps"         -> ServiceMaps(d, q.of)
    [] q.what = "headways"     -> Headways(d, t, q.of)
    [] q.what = "alerts"       -> ActiveAlerts(d, t, q.of)
    [] q.what = "agencyAlerts" -> ActiveAlertsForAgencies(d, t, q.of)
    [] q.what = "agencies"     -> AgenciesByPk(d, q.of)
    [] q.what = "stops"        -> StopsByPk(d, q.of)
    [] q.what = "times"        -> StopTimes(d, q.of)
    [] q.what = "routes"       -> RoutesInAgency(d, q.of)
    [] q.what = "periods"      -> ActivePeriods(d, t, q.of)
    [] OTHER                   -> {<<x, Counts(d)[q.what]>> : x \in q.of}
-----------------------------------------------------------------------------
\* The queries for what the request is about: all of it, or one.
Request(kind, skip) ==
  /\ request = None /\ (kind = "routes" \/ skip = {})
  /\ \E all \in Lists(kind, db) : \E rows \in {all} \cup {{x} : x \in all} :
       request' = [kind |-> kind, rows |-> rows, skip |-> skip,
                   todo |-> Plan(kind, rows, skip), got |-> {}]
  /\ during' = {<<db, now>>}
  /\ UNCHANGED <<db, gone, now>>

\* Each of the others.
Query ==
  /\ request # None
  /\ \E q \in request.todo :
       /\ ~\E p \in request.todo : Precedes(p, q, request.todo)
       /\ request' = [request EXCEPT !.todo = @ \ {q},
                        !.got = @ \cup {<<q.what, x[1], x[2]>> : x \in Result(q, db, now)}]
  /\ UNCHANGED <<db, gone, now, during>>

\* The answer is built, or a query fails.
Finish ==
  /\ request # None
  /\ request' = None
  /\ during' = {}
  /\ UNCHANGED <<db, gone, now>>

Since(d, t) == IF request = None THEN {} ELSE during \cup {<<d, t>>}

\* An update commits.
Commit(d) ==
  /\ d # db /\ WellFormed(d) /\ Pks(d) \cap gone = {}
  /\ db' = d
  /\ gone' = gone \cup (Pks(db) \ Pks(d))
  /\ during' = Since(d, now)
  /\ UNCHANGED <<now, request>>

\* Time passes.
Tick ==
  /\ now < MaxTime
  /\ now' = now + 1
  /\ during' = Since(db, now + 1)
  /\ UNCHANGED <<db, gone, request>>

Next ==
  \/ \E kind \in Kinds, skip \in Skips : Request(kind, skip)
  \/ Query \/ Finish
  \/ \E d \in Databases : Commit(d)
  \/ Tick

Spec == Init /\ [][Next]_vars
-----------------------------------------------------------------------------
(* The answer: its parts, from the rows of the queries. *)

\* Mutant of Part: the rows of a query are those of all.
PartOfAll(r, what, pk) == {x[3] : x \in {y \in r.got : y[1] = what}}

\* What the answer has of something: the rows of a query, by key.
Part(r, what, pk) == {x[3] : x \in {y \in r.got : y[1] = what /\ y[2] = pk}}

\* The reference to a row of a later query; nil if it was not found.
Reference(r, what, pk) == IF Part(r, what, pk) # {} THEN pk ELSE None
-----------------------------------------------------------------------------
(* Properties. *)

Answering == request # None /\ request.todo = {}
Asked(what) == what \notin request.skip

\* The gaps between an arrival at a stop and the next one there.
Gaps(times) ==
  {x[2].arrival - x[1].arrival :
     x \in {y \in times \X times :
       /\ y[1] # y[2] /\ y[1].stop = y[2].stop /\ y[1].arrival <= y[2].arrival
       /\ \A z \in times : z.stop = y[1].stop => z.arrival <= y[1].arrival \/ z.arrival >= y[2].arrival}}

\* What is true of a route, a trip, an agency or an alert.
MapsTrue(maps, pk, d) ==
  IF pk \notin Keys(d.routes) THEN maps = {}
  ELSE /\ {x[1] : x \in maps} = d.configs
       /\ {x \in maps : x[2] # <<>>} =
            {<<m.config, m.stops>> : m \in {n \in d.maps : n.route = pk /\ n.stops # <<>>}}
HeadwayTrue(headway, pk, d, t) ==
  LET gaps == Gaps(Ahead(d, t, pk))
  IN IF gaps = {} THEN headway = {}
     ELSE \E h \in Min(gaps)..Max(gaps) : headway = {h}
AlertsTrue(alerts, pk, d, t) ==
  {x[1] : x \in alerts} =
    {a \in d.alerts : <<a, pk>> \in d.links /\ \E p \in d.periods : p.alert = a /\ Active(p, t)}

\* Whatever commits between its queries, an answer is made of parts each of
\* which was true at some moment since the request began.  The agency of a route
\* or a stop of a transfer is missing only if it was deleted since.
AnswersWereTrue ==
  Answering =>
    LET part(what, x) == Part(request, what, x.pk)
    IN \A x \in request.rows :
      CASE request.kind = "routes" ->
             /\ Asked("maps") => \E m \in during : MapsTrue(part("maps", x), x.pk, m[1])
             /\ Asked("headways") => \E m \in during : HeadwayTrue(part("headways", x), x.pk, m[1], m[2])
             /\ Asked("alerts") => \E m \in during : AlertsTrue(part("alerts", x), x.pk, m[1], m[2])
             /\ Reference(request, "agencies", x.agency) = None =>
                  \E m \in during : x.agency \notin m[1].agencies
        [] request.kind = "trips" ->
             /\ \E m \in during : AlertsTrue(part("alerts", x), x.pk, m[1], m[2])
             /\ \E m \in during :
                  part("times", x) = {<<y.seq, y.stop>> : y \in {z \in m[1].times : z.trip = x.pk}}
        [] request.kind = "agencies" ->
             /\ \E m \in during : AlertsTrue(part("agencyAlerts", x), x.pk, m[1], m[2])
             /\ \E m \in during :
                  part("routes", x) = {y.pk : y \in {z \in m[1].routes : z.agency = x.pk}}
        [] request.kind = "alerts" ->
             \E m \in during :
               {y[1] : y \in part("periods", x)} = {p \in m[1].periods : p.alert = x.pk}
        [] request.kind = "transfers" ->
             \A s \in {x.from, x.to} :
               Reference(request, "stops", s) = None => \E m \in during : s \notin m[1].stops
        [] request.kind = "systems" ->
             \A what \in DOMAIN Counts(db) : \E m \in during : part(what, x) = {Counts(m[1])[what]}
        [] OTHER -> TRUE

\* Two endpoints that tell of the same thing at the same moment agree.  The
\* alerts that routes, trips and agencies have are those with a period that
\* contains the present, but for the moments when a period starts and ends.  A
\* trip has a vehicle if the vehicle has the trip.  A list has each trip of the
\* route, and only once unless scheduled trips with its ID have different shapes.
EndpointsAgree ==
  /\ \A x \in db.links :
       LET preview == {y[2][2] : y \in {z \in ActiveAlerts(db, now, {x[2]}) : z[2][1] = x[1]}}
           current == {y[2][1] : y \in {z \in ActivePeriods(db, now, {x[1]}) : z[2][2]}}
       IN /\ preview \subseteq current
          /\ \A p \in current \ preview : now \in {p.starts, p.ends}
  /\ \A route \in Keys(db.routes) :
       /\ {<<t.pk, t.vehicle>> : t \in {u \in ListTrips(db, route) : u.vehicle # None}}
            = {<<v.trip, v.pk>> : v \in {u \in ListVehicles(db) : u.route = route}}
       /\ Keys(ListTrips(db, route)) = Keys({t \in db.trips : t.route = route})
       /\ \A x, y \in ListTrips(db, route) :
            x.pk = y.pk /\ x # y =>
              \E a, b \in db.scheduled :
                /\ a.id = b.id /\ None # a.shape /\ a.shape # b.shape /\ b.shape # None
                /\ \E t \in db.trips : t.pk = x.pk /\ t.id = a.id
=============================================================================
