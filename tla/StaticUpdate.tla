---------------------------- MODULE StaticUpdate -----------------------------
(***************************************************************************)
(* The static data of a system, as its GTFS static feeds and its NYCT      *)
(* subway CSV feed leave it (Update in internal/update/static/static.go    *)
(* and in internal/update/nyctsubwaycsv/nyctsubwaycsv.go).                 *)
(*                                                                         *)
(* An ID is unique in the system, not in a feed, and a row belongs to the  *)
(* feed that wrote it last.  An update is one transaction; FeedUpdate is   *)
(* about overlapping ones.  A statement fails, and the transaction rolls   *)
(* back, if its result breaks a constraint of the schema (db/schema).      *)
(*                                                                         *)
(* The rows are without their texts, dates and coordinates.  Frequencies   *)
(* are left out: they go where the stop times of their trip go.            *)
(***************************************************************************)
EXTENDS FiniteSets, Naturals

CONSTANTS Feeds,          \* static feeds and CSV feeds of the system
          Csv,            \* the CSV feeds
          Accessibility,  \* the feeds whose accessibility data is used
          Files,          \* per feed, the files it may serve
          None            \* no file, no reference, no accessibility data

StaticFeeds == Feeds \ Csv

ASSUME FeedsAssumption == Csv \subseteq Feeds /\ Accessibility \subseteq Feeds

(***************************************************************************)
(* A file has rows of the form [id, ref]: the agency of a route, the       *)
(* parent of a stop, None for the other tables.  Its trips have a route, a *)
(* service, a shape or None, and times: pairs of a sequence and a stop.    *)
(* Its transfers are pairs of stops.                                       *)
(* The parser resolves the references and drops what has a broken one.     *)
(***************************************************************************)
IDs(rows) == {r.id : r \in rows}
UniqueIDs(rows) == \A r, s \in rows : r.id = s.id => r = s

WellFormed(file) ==
  /\ \A t \in {"agencies", "routes", "stops", "services", "shapes", "trips"} :
       UniqueIDs(file[t])
  /\ \A r \in file.routes : r.ref \in IDs(file.agencies)
  /\ \A s \in file.stops : s.ref \in IDs(file.stops) \cup {None}
  /\ \A t \in file.trips :
       /\ t.route \in IDs(file.routes) /\ t.service \in IDs(file.services)
       /\ t.shape \in IDs(file.shapes) \cup {None}
       /\ \A x, y \in t.times : x[2] \in IDs(file.stops) /\ (x[1] = y[1] => x = y)
  /\ \A x \in file.transfers : x = <<x[1], x[2]>>

ASSUME FilesAssumption == \A f \in StaticFeeds : \A file \in Files[f] : WellFormed(file)
ASSUME NoneAssumption == \A f \in Feeds : None \notin Files[f]

VARIABLES
  db,      \* the tables
  served,  \* per feed, the file it serves
  stored,  \* per feed, the file of its last successful update, or None
  kept     \* history: per CSV feed, the stops that are there since its update

vars == <<db, served, stored, kept>>

Empty == [agencies |-> {}, routes |-> {}, stops |-> {}, services |-> {}, shapes |-> {},
          transfers |-> {}, trips |-> {}, maps |-> {}, rules |-> {}, boarding |-> {}]

Init ==
  /\ db = Empty
  /\ served \in [Feeds -> UNION {Files[f] : f \in Feeds}]
  /\ \A f \in Feeds : served[f] \in Files[f]
  /\ stored = [f \in Feeds |-> None]
  /\ kept = [f \in Csv |-> {}]
-----------------------------------------------------------------------------
(* The schema. *)

\* What the deletion of a row takes with it: rows that refer to it with ON
\* DELETE CASCADE are deleted, and ON DELETE SET NULL clears a reference.
Cascade(d) ==
  LET stopIDs == IDs(d.stops)
      trips == {t \in d.trips : t.route \in IDs(d.routes) /\ t.service \in IDs(d.services)}
  IN [d EXCEPT
        !.transfers = {x \in @ : {x.from, x.to} \subseteq stopIDs},
        !.trips = {[t EXCEPT !.shape = IF @ \in IDs(d.shapes) THEN @ ELSE None,
                             !.times = {x \in @ : x[2] \in stopIDs}] : t \in trips},
        !.maps = {m \in @ : m.route \in IDs(d.routes)},
        !.rules = {r \in @ : r.stop \in stopIDs},
        !.boarding = {b \in @ : b.stop \in stopIDs}]

\* The constraints a statement can break: references without ON DELETE, the
\* IDs of what is inserted without a look at what is there, and the key of a
\* scheduled trip, UNIQUE(route_pk, id).
Valid(d) ==
  /\ UniqueIDs(d.services) /\ UniqueIDs(d.shapes)
  /\ \A r \in d.routes : r.ref \in IDs(d.agencies)
  /\ \A s \in d.stops : s.ref \in IDs(d.stops) \cup {None}
  /\ \A x, y \in d.transfers : x.from = y.from /\ x.to = y.to => x = y
  /\ \A t, s \in d.trips : t.route = s.route /\ t.id = s.id => t = s

\* The rows of feed f's file, and the rows that neither are of feed f nor have
\* an ID of the file.
RowsOf(f, rows) == {[id |-> r.id, feed |-> f, ref |-> r.ref] : r \in rows}
Others(table, f, rows) == {r \in table : r.feed # f /\ r.id \notin IDs(rows)}

\* Mutant of Upsert: stale rows stay.
UpsertKeepsStale(table, f, rows) ==
  {r \in table : r.id \notin IDs(rows)} \cup RowsOf(f, rows)

\* Rows with an ID of the file are updated and change owner, the others are
\* inserted, and then the rows of the feed that are stale are deleted.
Upsert(table, f, rows) == Others(table, f, rows) \cup RowsOf(f, rows)
-----------------------------------------------------------------------------
(* The steps of a static update of feed f, in the order of the code.  Each *)
(* is a function of the tables; a primary key is kept as long as its row.  *)

UpdateAgencies(d, f, file) ==
  [d EXCEPT !.agencies = Upsert(@, f, file.agencies)]

UpdateRoutes(d, f, file) ==
  Cascade([d EXCEPT !.routes = Upsert(@, f, file.routes)])

\* Mutants of UpdateStops: the parents are not cleared, or accessibility data is
\* always that of the file.
UpdateStopsWithParents(d, f, file) ==
  LET rows == {[id |-> s.id,
                ref |-> IF s.id \in IDs(d.stops)
                        THEN (CHOOSE r \in d.stops : r.id = s.id).ref ELSE None] : s \in file.stops}
      written == {s \in IDs(rows) : s \notin IDs(d.stops) \/ f \in Accessibility}
  IN Cascade([d EXCEPT
       !.stops = Upsert(@, f, rows),
       !.boarding = {b \in @ : b.stop \notin written}
                      \cup {[stop |-> s, by |-> f] : s \in written}])

UpdateStopsAccessibility(d, f, file) ==
  LET rows == {[id |-> s.id, ref |-> None] : s \in file.stops}
  IN Cascade([d EXCEPT
       !.stops = Upsert(@, f, rows),
       !.boarding = {b \in @ : b.stop \notin IDs(rows)}
                      \cup {[stop |-> s, by |-> f] : s \in IDs(rows)}])

\* UpdateStop clears the parents, and they are set after the stale stops are
\* gone.  Accessibility data is that of the file for a new stop, and for the
\* others if the feed's is used.
UpdateStops(d, f, file) ==
  LET rows == {[id |-> s.id, ref |-> None] : s \in file.stops}
      written == {s \in IDs(rows) : s \notin IDs(d.stops) \/ f \in Accessibility}
  IN Cascade([d EXCEPT
       !.stops = Upsert(@, f, rows),
       !.boarding = {b \in @ : b.stop \notin written}
                      \cup {[stop |-> s, by |-> f] : s \in written}])

SetParents(d, f, file) ==
  [d EXCEPT !.stops = Others(@, f, file.stops) \cup RowsOf(f, file.stops)]

\* The transfers of the feed are deleted, and those of the file are inserted if
\* the file has both stops.
UpdateTransfers(d, f, file) ==
  LET resolved == {x \in file.transfers : {x[1], x[2]} \subseteq IDs(file.stops)}
  IN [d EXCEPT !.transfers = {x \in @ : x.feed # f}
                 \cup {[from |-> x[1], to |-> x[2], feed |-> f] : x \in resolved}]

\* Services and shapes of the feed, and those with an ID of the file, are
\* deleted, with their trips, before those of the file are inserted.
DeleteServices(d, f, file) ==
  Cascade([d EXCEPT !.services = Others(@, f, file.services)])
UpdateServices(d, f, file) ==
  LET e == DeleteServices(d, f, file)
  IN [e EXCEPT !.services = @ \cup RowsOf(f, file.services)]

DeleteShapes(d, f, file) ==
  Cascade([d EXCEPT !.shapes = Others(@, f, file.shapes)])
UpdateShapes(d, f, file) ==
  LET e == DeleteShapes(d, f, file)
  IN [e EXCEPT !.shapes = @ \cup RowsOf(f, file.shapes)]

InsertTrips(d, f, file) ==
  [d EXCEPT !.trips = @ \cup
     {[id |-> t.id, route |-> t.route, service |-> t.service, shape |-> t.shape,
       times |-> {}] : t \in file.trips}]

\* MapScheduledTripIDToPkInSystem: for each trip of the file, a trip of the
\* system with its ID, whichever the database lists last.
TripIDToPk(d, file) ==
  {g \in [file.trips -> d.trips] : \A t \in file.trips : g[t].id = t.id}

\* Mutant of TimesFit: stop times have no key.
TimesAlwaysFit(g, file) == TRUE

\* UNIQUE(trip_pk, stop_sequence).
TimesFit(g, file) ==
  \A t \in file.trips : \A x \in t.times, y \in g[t].times : x[1] # y[1]

InsertTimes(d, g, file) ==
  [d EXCEPT !.trips =
     {IF \E t \in file.trips : g[t] = r
      THEN [r EXCEPT !.times = @ \cup UNION {t.times : t \in {s \in file.trips : g[s] = r}}]
      ELSE r : r \in @}]

\* servicemaps.UpdateStaticMaps: the static maps of the routes in the file are
\* built from its trips.  The map stands for the trips it was built from.
UpdateStaticMaps(d, f, file) ==
  [d EXCEPT !.maps = {m \in @ : m.route \notin IDs(file.routes)}
     \cup {[route |-> r, trips |-> {t.id : t \in {s \in file.trips : s.route = r}}] :
             r \in IDs(file.routes)}]

\* Mutant of UpToTrips: the shapes come after the trips.
UpToTripsBeforeShapes(d, f, file) ==
  UpdateShapes(InsertTrips(UpdateServices(UpdateTransfers(SetParents(UpdateStops(
    UpdateRoutes(UpdateAgencies(d, f, file), f, file), f, file), f, file), f, file),
    f, file), f, file), f, file)

\* The tables before the stop times are inserted, and whether every statement
\* up to there succeeds: what is broken by a later one than those of the
\* agencies and the stops stays broken.
UpToTrips(d, f, file) ==
  InsertTrips(UpdateShapes(UpdateServices(UpdateTransfers(SetParents(UpdateStops(
    UpdateRoutes(UpdateAgencies(d, f, file), f, file), f, file), f, file), f, file),
    f, file), f, file), f, file)

Succeeds(d, f, file) ==
  LET agencies == UpdateAgencies(d, f, file)
      stops == UpdateStops(UpdateRoutes(agencies, f, file), f, file)
  IN Valid(agencies) /\ Valid(stops) /\ Valid(UpToTrips(d, f, file))
-----------------------------------------------------------------------------
\* The feed serves another file.
Serve(f, file) ==
  /\ file # served[f]
  /\ served' = [served EXCEPT ![f] = file]
  /\ UNCHANGED <<db, stored, kept>>

\* static.Update.  When it fails nothing changes.  An update with the file of
\* the last successful one is skipped, unless it is forced.
Update(f) ==
  LET file == served[f]
      d == UpToTrips(db, f, file)
  IN /\ f \in StaticFeeds
     /\ Succeeds(db, f, file)
     /\ \E g \in TripIDToPk(d, file) :
          /\ TimesFit(g, file)
          /\ db' = UpdateStaticMaps(InsertTimes(d, g, file), f, file)
     /\ stored' = [stored EXCEPT ![f] = file]
     /\ kept' = [c \in Csv |-> kept[c] \cap IDs(d.stops)]
     /\ UNCHANGED served

\* nyctsubwaycsv.Update: headsign rules and accessibility data, for the stops
\* that are there.  The latter replaces that of every stop of the system.
UpdateCsv(f) ==
  LET file == served[f]
      stopIDs == IDs(db.stops)
  IN /\ f \in Csv
     /\ db' = [db EXCEPT
          !.rules = {r \in @ : r.feed # f}
                      \cup {[stop |-> s, feed |-> f] : s \in file.rules \cap stopIDs},
          !.boarding = IF f \in Accessibility
                       THEN {[stop |-> s, by |-> f] : s \in file.boarding \cap stopIDs}
                       ELSE @]
     /\ stored' = [stored EXCEPT ![f] = file]
     /\ kept' = [kept EXCEPT ![f] = stopIDs]
     /\ UNCHANGED served

\* The tables without feed f.
WithoutFeed(d, f) ==
  Cascade([d EXCEPT !.agencies = {r \in @ : r.feed # f}, !.routes = {r \in @ : r.feed # f},
                    !.stops = {r \in @ : r.feed # f}, !.services = {r \in @ : r.feed # f},
                    !.shapes = {r \in @ : r.feed # f}, !.transfers = {r \in @ : r.feed # f},
                    !.rules = {r \in @ : r.feed # f}])

\* DeleteFeed, when the feed is no longer in the system's configuration: every
\* row of the feed goes with it.  The feed may come back.
DeleteFeed(f) ==
  /\ Valid(WithoutFeed(db, f))
  /\ db' = WithoutFeed(db, f)
  /\ stored' = [stored EXCEPT ![f] = None]
  /\ kept' = [c \in Csv |-> IF c = f THEN {} ELSE kept[c] \cap IDs(db'.stops)]
  /\ UNCHANGED served

Next ==
  \E f \in Feeds :
    \/ \E file \in Files[f] : Serve(f, file)
    \/ Update(f) \/ UpdateCsv(f)
    \/ DeleteFeed(f)

Spec == Init /\ [][Next]_vars
-----------------------------------------------------------------------------
(* Properties. *)

References(d) ==
  /\ Cascade(d) = d /\ Valid(d)
  /\ \A t \in {"agencies", "routes", "stops", "services", "shapes"} : UniqueIDs(d[t])

\* The tables satisfy the schema: their keys are unique, their references are
\* to rows that are there, and a trip has one stop time per sequence.
TypeOK ==
  /\ \A f \in Feeds : served[f] \in Files[f] /\ stored[f] \in Files[f] \cup {None}
  /\ kept \in [Csv -> SUBSET IDs(db.stops)]
  /\ References(db)
  /\ \A t \in db.trips : \A x, y \in t.times : x[1] = y[1] => x = y

Stored(f) == stored[f] # None

\* What no other feed ever has an ID of.
Unshared(f, t) ==
  {r \in stored[f][t] : \A g \in StaticFeeds \ {f} : \A file \in Files[g] :
                          r.id \notin IDs(file[t])}

\* The rows of a feed are the rows of its latest file: none is left over from
\* an earlier file, deleted by the update of another feed, or changed by it,
\* and one is missing only if another feed has a row with its ID.
RowsAreTheFiles ==
  \A f \in StaticFeeds : \A t \in {"agencies", "routes", "stops", "services", "shapes"} :
    LET mine == {r \in db[t] : r.feed = f}
    IN IF Stored(f)
       THEN mine \subseteq RowsOf(f, stored[f][t]) /\ RowsOf(f, Unshared(f, t)) \subseteq mine
       ELSE mine = {}

\* The trips of a feed's latest file are there, with their shapes and stop times,
\* except what goes with a route, a service, a shape or a stop that another
\* feed has too: no update of a feed deletes what hangs on rows of another.
TripsAreTheFiles ==
  \A f \in StaticFeeds : Stored(f) =>
    \A t \in Unshared(f, "trips") :
      t.route \in IDs(Unshared(f, "routes")) /\ t.service \in IDs(Unshared(f, "services"))
        => \E r \in db.trips :
             /\ r.id = t.id /\ r.route = t.route /\ r.service = t.service
             /\ r.times \subseteq t.times
             /\ t.shape \in IDs(Unshared(f, "shapes")) => r.shape = t.shape
             /\ \A x \in t.times : x[2] \in IDs(Unshared(f, "stops")) => x \in r.times

\* Feed f and the others have no transfer, trip, service or parent of a stop
\* in common.
Independent(f, file) ==
  /\ \A x \in db.transfers : x.feed # f => <<x.from, x.to>> \notin file.transfers
  /\ \A t \in db.trips, v \in db.services :
       t.service = v.id /\ v.feed # f => t.id \notin IDs(file.trips)
  /\ \A s, p \in db.stops : s.ref = p.id /\ p.feed = f => s.feed = f

\* No stored route refers to an agency that the file no longer has.
AgenciesStay(f, file) ==
  \A r \in db.routes, a \in db.agencies :
    r.ref = a.id /\ a.feed = f => a.id \in IDs(file.agencies)

\* An update fails only for one of these reasons: whatever was stored, its
\* statements are in an order that no constraint of the schema stops.  The
\* exception are the agencies, deleted before the routes are updated
\* (static.go:102): an update that drops the agency of a stored route fails,
\* even if its file has another one for the route.
IndependentUpdatesSucceed ==
  \A f \in StaticFeeds : \A file \in Files[f] :
    /\ Independent(f, file) /\ AgenciesStay(f, file) =>
         /\ Succeeds(db, f, file)
         /\ \A g \in TripIDToPk(UpToTrips(db, f, file), file) : TimesFit(g, file)
    /\ Succeeds(db, f, file) => AgenciesStay(f, file)

\* The headsign rules of a CSV feed are those of its file for the stops that
\* are there since its update, and so is the accessibility data if it is used
\* of no other feed: static updates leave both alone.
CsvIsKept ==
  \A f \in Csv : Stored(f) =>
    /\ {r \in db.rules : r.feed = f}
         = {[stop |-> s, feed |-> f] : s \in stored[f].rules \cap kept[f]}
    /\ Accessibility = {f} =>
         {b \in db.boarding : b.stop \in kept[f]}
           = {[stop |-> s, by |-> f] : s \in stored[f].boarding \cap kept[f]}
=============================================================================
