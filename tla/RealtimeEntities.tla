-------------------------- MODULE RealtimeEntities ---------------------------
(***************************************************************************)
(* The alerts and the vehicles of a system, and the trips they refer to,   *)
(* as the GTFS realtime feeds of the system leave them (updateAlerts and   *)
(* updateVehicles in internal/update/realtime/realtime.go; RealtimeTrips   *)
(* has the stop times of the trips).                                       *)
(*                                                                         *)
(* Alert and vehicle IDs are unique in the system, not in a feed.  A trip  *)
(* that goes and comes back is another row: born tells the rows of a trip  *)
(* apart, as their primary keys do.  Trip IDs are taken to be those of one *)
(* route; of two trips with one ID the code takes either.  Positions,      *)
(* current stops and texts are left out, and so are what an alert informs  *)
(* of besides trips, which is found in the same way.                       *)
(***************************************************************************)
EXTENDS Naturals, Sequences

CONSTANTS Feeds,     \* realtime feeds of the system
          Trips,     \* trip IDs
          Alerts,    \* alert IDs
          Contents,  \* what an alert says
          Informs,   \* per content, the trips the alert informs of
          Vehicles,  \* vehicle IDs
          Messages,  \* per feed, the messages it may serve
          None,      \* no vehicle ID, no trip
          MaxBorn    \* bound: how often trips are inserted

\* A message has trips, alerts and vehicles; the entities of a trip and a
\* vehicle that only another entity mentions are not in it, nor are trips of a
\* route that is not there.
Message == [trips : SUBSET Trips,
            alerts : Seq([id : Alerts, content : Contents]),
            vehicles : Seq([id : Vehicles \cup {None}, trip : Trips \cup {None}])]

ASSUME MessagesAssumption == \A f \in Feeds : Messages[f] \subseteq Message
ASSUME InformsAssumption == Informs \in [Contents -> SUBSET Trips]
ASSUME NoneAssumption == None \notin Trips \cup Vehicles \cup (Trips \X Nat)
ASSUME MaxBornAssumption == MaxBorn \in Nat

VARIABLES
  trips,     \* rows of trips
  alerts,    \* rows of alerts, with the keys of the trips they are linked to
  vehicles,  \* rows of vehicles, with the key of their trip or None
  born,      \* how often trips have been inserted
  seen,      \* history: per feed, its latest message
  placed,    \* history: per feed, its latest message with a vehicle
  gone       \* history: the trips of vehicles that were deleted with their route

vars == <<trips, alerts, vehicles, born, seen, placed, gone>>

Nothing == [trips |-> {}, alerts |-> <<>>, vehicles |-> <<>>]

Init ==
  /\ trips = {} /\ alerts = {} /\ vehicles = {}
  /\ born = 0
  /\ seen = [f \in Feeds |-> Nothing]
  /\ placed = [f \in Feeds |-> Nothing]
  /\ gone = {}

IDs(rows) == {r.id : r \in rows}
Elements(s) == {s[i] : i \in DOMAIN s}
Key(t) == <<t.id, t.born>>
Keys(rows) == {Key(t) : t \in rows}
-----------------------------------------------------------------------------
\* updateTrips: trips of the message are updated, and change owner, or
\* inserted; the other trips of the feed are deleted.
NewTrips(msg) == msg.trips \ IDs(trips)
TripsAfter(f, msg) ==
  {t \in trips : t.feed # f /\ t.id \notin msg.trips}
    \cup {[t EXCEPT !.feed = f] : t \in {s \in trips : s.id \in msg.trips}}
    \cup {[id |-> t, feed |-> f, born |-> born + 1] : t \in NewTrips(msg)}

\* The deletion of a trip clears the links of the alerts to it.
Linked(rows, ts) == {[a EXCEPT !.links = @ \cap Keys(ts)] : a \in rows}

\* Of alerts with the same ID the first one counts.
FirstAlerts(msg) ==
  {msg.alerts[i] : i \in {j \in DOMAIN msg.alerts :
     \A k \in 1..(j - 1) : msg.alerts[k].id # msg.alerts[j].id}}

Unchanged(rows, msg) ==
  {r \in rows : [id |-> r.id, content |-> r.content] \in FirstAlerts(msg)}

\* Mutant of AlertsAfter: the stale alerts stay.
AlertsStay(f, msg, rows, ts) ==
  {r \in rows : r.id \notin IDs(FirstAlerts(msg))} \cup Unchanged(rows, msg)
    \cup {[id |-> a.id, content |-> a.content, feed |-> f,
           links |-> {Key(t) : t \in {s \in ts : s.id \in Informs[a.content]}}] :
             a \in {b \in FirstAlerts(msg) : b.id \notin IDs(Unchanged(rows, msg))}}

\* updateAlerts: an alert whose hash is that of its row is left alone, and so is
\* the owner of the row.  One that has changed is deleted, and inserted again
\* with links to the trips that are there.  Then the stale ones are deleted.
AlertsAfter(f, msg, rows, ts) ==
  {r \in rows : r.feed # f /\ r.id \notin IDs(FirstAlerts(msg))} \cup Unchanged(rows, msg)
    \cup {[id |-> a.id, content |-> a.content, feed |-> f,
           links |-> {Key(t) : t \in {s \in ts : s.id \in Informs[a.content]}}] :
             a \in {b \in FirstAlerts(msg) : b.id \notin IDs(Unchanged(rows, msg))}}
-----------------------------------------------------------------------------
\* The positions in a message of vehicles that have an ID, and their IDs.
Valid(msg) == {i \in DOMAIN msg.vehicles : msg.vehicles[i].id # None}
ValidIDs(msg) == {msg.vehicles[i].id : i \in Valid(msg)}

\* The keys of the trips the vehicles of a message name, if they are there.
Named(msg, ts) ==
  Keys({t \in ts : \E i \in Valid(msg) : msg.vehicles[i].trip = t.id})

\* The vehicle at i is the first one with its ID, and it has no trip, or one
\* that is there and that no other vehicle of the message had.
Candidate(i, msg, rows, ts) ==
  LET v == msg.vehicles[i]
  IN /\ \A j \in Valid(msg) : j < i => msg.vehicles[j].id # v.id
     /\ \/ v.trip = None
        \/ \E t \in ts :
             /\ t.id = v.trip
             /\ \A r \in rows : r.trip = Key(t) /\ r.id \in ValidIDs(msg) => r.id = v.id

\* The first candidate for a trip gets it.
Accepted(msg, rows, ts) ==
  {i \in Valid(msg) :
     /\ Candidate(i, msg, rows, ts)
     /\ \A j \in Valid(msg) :
          j < i /\ Candidate(j, msg, rows, ts) /\ msg.vehicles[j].trip # None
            => msg.vehicles[j].trip # msg.vehicles[i].trip}

Row(v, f, ts) ==
  [id |-> v.id, feed |-> f,
   trip |-> IF v.trip = None THEN None ELSE Key(CHOOSE t \in ts : t.id = v.trip)]

\* Mutants of VehiclesAfter: the other vehicles of the feed stay, or a vehicle
\* that is not accepted keeps its row.
VehiclesStay(f, msg, rows, ts) ==
  IF Valid(msg) = {}
  THEN rows
  ELSE {r \in rows : r.id \notin ValidIDs(msg) /\ r.trip \notin Named(msg, ts)}
         \cup {Row(msg.vehicles[i], f, ts) : i \in Accepted(msg, rows, ts)}

SkippedVehiclesStay(f, msg, rows, ts) ==
  LET accepted == {Row(msg.vehicles[i], f, ts) : i \in Accepted(msg, rows, ts)}
  IN IF Valid(msg) = {}
     THEN rows
     ELSE {r \in rows : /\ r.feed # f \/ r.id \in ValidIDs(msg)
                        /\ \A a \in accepted : r.id # a.id /\ (r.trip # a.trip \/ r.trip = None)}
            \cup accepted

\* updateVehicles: the vehicles of the feed, and others with an ID or a trip of
\* the message, are replaced by those of the message that are accepted.  If no
\* vehicle of the message has an ID nothing is deleted: the parameters of
\* DeleteVehicles leave out the system.
VehiclesAfter(f, msg, rows, ts) ==
  IF Valid(msg) = {}
  THEN rows
  ELSE {r \in rows : r.feed # f /\ r.id \notin ValidIDs(msg) /\ r.trip \notin Named(msg, ts)}
         \cup {Row(msg.vehicles[i], f, ts) : i \in Accepted(msg, rows, ts)}
-----------------------------------------------------------------------------
\* realtime.Update, in one transaction: trips, then alerts, then vehicles.
Update(f, msg) ==
  LET ts == TripsAfter(f, msg)
  IN /\ NewTrips(msg) # {} => born < MaxBorn
     /\ born' = IF NewTrips(msg) = {} THEN born ELSE born + 1
     /\ trips' = ts
     /\ alerts' = AlertsAfter(f, msg, Linked(alerts, ts), ts)
     /\ vehicles' = VehiclesAfter(f, msg, vehicles, ts)
     /\ seen' = [seen EXCEPT ![f] = msg]
     /\ placed' = IF Valid(msg) = {} THEN placed ELSE [placed EXCEPT ![f] = msg]
     /\ gone' = gone \cap {v.trip : v \in vehicles'}

\* DeleteFeed: every row of the feed goes with it.  A vehicle of another feed
\* keeps the key of a trip that is gone.
DeleteFeed(f) ==
  LET ts == {t \in trips : t.feed # f}
  IN /\ trips' = ts
     /\ alerts' = Linked({a \in alerts : a.feed # f}, ts)
     /\ vehicles' = {v \in vehicles : v.feed # f}
     /\ seen' = [seen EXCEPT ![f] = Nothing]
     /\ placed' = [placed EXCEPT ![f] = Nothing]
     /\ gone' = gone \cap {v.trip : v \in vehicles'}
     /\ UNCHANGED born

\* A static update deletes routes, and their trips go with them (ON DELETE
\* CASCADE).
DeleteRoutes(ids) ==
  LET ts == {t \in trips : t.id \notin ids}
  IN /\ trips' = ts
     /\ alerts' = Linked(alerts, ts)
     /\ gone' = gone \cup ((Keys(trips) \ Keys(ts)) \cap {v.trip : v \in vehicles})
     /\ UNCHANGED <<vehicles, born, seen, placed>>

Next ==
  \/ \E f \in Feeds :
       \/ \E msg \in Messages[f] : Update(f, msg)
       \/ DeleteFeed(f)
  \/ \E ids \in SUBSET Trips : DeleteRoutes(ids)

Spec == Init /\ [][Next]_vars
-----------------------------------------------------------------------------
(* Properties. *)

UniqueIDs(rows) == \A r, s \in rows : r.id = s.id => r = s

\* The rows have the types and the unique keys of the schema, and an alert is
\* linked to trips that are there and that it informs of.
TypeOK ==
  /\ trips \subseteq [id : Trips, feed : Feeds, born : 1..MaxBorn] /\ UniqueIDs(trips)
  /\ UniqueIDs(alerts) /\ UniqueIDs(vehicles)
  /\ \A a \in alerts :
       /\ a.id \in Alerts /\ a.content \in Contents /\ a.feed \in Feeds
       /\ a.links \subseteq {k \in Keys(trips) : k[1] \in Informs[a.content]}
  /\ \A v \in vehicles : /\ v.id \in Vehicles /\ v.feed \in Feeds
                         /\ v.trip \in (Trips \X (1..MaxBorn)) \cup {None}
  /\ \A v, w \in vehicles : v.trip = w.trip /\ v.trip # None => v = w
  /\ born \in 0..MaxBorn
  /\ \A f \in Feeds : seen[f] \in Message /\ placed[f] \in Message
  /\ gone \subseteq Trips \X (1..MaxBorn)

\* An alert says what the latest message of its feed says, and one of that
\* message is missing, or says something else, only if it is in the messages of
\* another feed too.
AlertsAreTheFeeds ==
  /\ \A r \in alerts : [id |-> r.id, content |-> r.content] \in FirstAlerts(seen[r.feed])
  /\ \A f \in Feeds : \A a \in FirstAlerts(seen[f]) :
       \/ \E r \in alerts : r.id = a.id /\ r.content = a.content
       \/ \E g \in Feeds \ {f} : \E msg \in Messages[g] : a.id \in IDs(Elements(msg.alerts))

\* A vehicle is one of the latest message of its feed that had any.  Its trip
\* is there, unless it was deleted with its route, the message after that one had
\* no vehicles, or another feed has the trip too.
VehiclesAreTheFeeds ==
  \A r \in vehicles :
    /\ \E i \in Valid(placed[r.feed]) :
         LET v == placed[r.feed].vehicles[i]
         IN v.id = r.id /\ (IF v.trip = None THEN r.trip = None
                                             ELSE r.trip # None /\ r.trip[1] = v.trip)
    /\ r.trip \notin Keys(trips) \cup {None} =>
         \/ r.trip \in gone \/ Valid(seen[r.feed]) = {}
         \/ \E g \in Feeds \ {r.feed} : \E msg \in Messages[g] : r.trip[1] \in msg.trips

\* The vehicle at i of a message has an ID and a trip of its own.
Distinct(i, msg) ==
  \A j \in Valid(msg) \ {i} :
    /\ msg.vehicles[j].id # msg.vehicles[i].id
    /\ msg.vehicles[j].trip # msg.vehicles[i].trip \/ msg.vehicles[i].trip = None

\* Vehicles that exchange their trips are lost for one update, no longer: the
\* next update with the same vehicles has all of those with an ID and a known
\* trip of their own, and further ones change nothing.
UpdatesSettle ==
  \A f \in Feeds : \A msg \in Messages[f] :
    LET once == VehiclesAfter(f, msg, vehicles, trips)
        twice == VehiclesAfter(f, msg, once, trips)
    IN /\ VehiclesAfter(f, msg, twice, trips) = twice
       /\ \A i \in Valid(msg) :
            Distinct(i, msg) /\ msg.vehicles[i].trip \in IDs(trips) \cup {None}
              => Row(msg.vehicles[i], f, trips) \in twice
=============================================================================
