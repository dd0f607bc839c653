------------------------- MODULE StaticUpdateProofs --------------------------
(***************************************************************************)
(* Theorems about StaticUpdate, for every set of feeds and files: the      *)
(* steps of an update, each on some of the tables, taken together.         *)
(***************************************************************************)
EXTENDS StaticUpdate, TLAPS

Tables == {"agencies", "routes", "stops", "services", "shapes",
           "transfers", "trips", "maps", "rules", "boarding"}
Owned == {"agencies", "routes", "stops", "services", "shapes"}

\* The headsign rules, or the boarding data, of stops with an ID in a set.
Of(rows, ids) == {r \in rows : r.stop \in ids}
-----------------------------------------------------------------------------
(* What each step of an update does to the tables with owners, to the rules *)
(* and to the boarding data.                                                *)

\* A cascade leaves the tables with owners.
LEMMA CascadeTables ==
  ASSUME NEW d, DOMAIN d = Tables
  PROVE  /\ DOMAIN Cascade(d) = Tables
         /\ \A t \in Owned : Cascade(d)[t] = d[t]
         /\ Cascade(d).rules = Of(d.rules, IDs(d.stops))
         /\ Cascade(d).boarding = Of(d.boarding, IDs(d.stops))
BY DEF Cascade, Tables, Owned, Of

\* The agencies are upserted.
LEMMA AgenciesTables ==
  ASSUME NEW d, DOMAIN d = Tables, NEW f, NEW file
  PROVE  LET e == UpdateAgencies(d, f, file)
         IN /\ DOMAIN e = Tables
            /\ e.agencies = Upsert(d.agencies, f, file.agencies)
            /\ \A t \in Tables \ {"agencies"} : e[t] = d[t]
BY DEF UpdateAgencies, Tables

\* The routes are upserted.
LEMMA RoutesTables ==
  ASSUME NEW d, DOMAIN d = Tables, NEW f, NEW file
  PROVE  LET e == UpdateRoutes(d, f, file)
         IN /\ DOMAIN e = Tables
            /\ e.routes = Upsert(d.routes, f, file.routes)
            /\ \A t \in Owned \ {"routes"} : e[t] = d[t]
            /\ e.rules = Of(d.rules, IDs(d.stops))
            /\ e.boarding = Of(d.boarding, IDs(d.stops))
<1> DEFINE c == [d EXCEPT !.routes = Upsert(@, f, file.routes)]
<1>1. /\ DOMAIN c = Tables /\ c.routes = Upsert(d.routes, f, file.routes)
      /\ \A t \in Tables \ {"routes"} : c[t] = d[t]
  BY DEF Tables
<1>2. UpdateRoutes(d, f, file) = Cascade(c)
  BY DEF UpdateRoutes
<1> HIDE DEF c
<1>3. QED
  BY <1>1, <1>2, CascadeTables DEF Tables, Owned

\* The rows of stops that UpdateStops writes, and the stops whose boarding data
\* it writes.
Cleared(file) == {[id |-> s.id, ref |-> None] : s \in file.stops}
Written(d, f, file) == {s \in IDs(Cleared(file)) : s \notin IDs(d.stops) \/ f \in Accessibility}

\* The stops are upserted without their parents, with their boarding data.
LEMMA StopsTables ==
  ASSUME NEW d, DOMAIN d = Tables, NEW f, NEW file
  PROVE  LET e == UpdateStops(d, f, file)
         IN /\ DOMAIN e = Tables
            /\ e.stops = Upsert(d.stops, f, Cleared(file))
            /\ \A t \in Owned \ {"stops"} : e[t] = d[t]
            /\ e.rules = Of(d.rules, IDs(e.stops))
            /\ \A b : b.stop \notin Written(d, f, file) =>
                 (b \in e.boarding <=> b \in Of(d.boarding, IDs(e.stops)))
<1> DEFINE stops == Upsert(d.stops, f, Cleared(file))
           boarding == {b \in d.boarding : b.stop \notin Written(d, f, file)}
                         \cup {[stop |-> s, by |-> f] : s \in Written(d, f, file)}
           c == [d EXCEPT !.stops = stops, !.boarding = boarding]
<1>1. /\ DOMAIN c = Tables /\ c.stops = stops /\ c.boarding = boarding
      /\ \A t \in Tables \ {"stops", "boarding"} : c[t] = d[t]
  BY DEF Tables
<1>2. UpdateStops(d, f, file) = Cascade(c)
  BY DEF UpdateStops, Cleared, Written
<1>3. \A b : b.stop \notin Written(d, f, file) => (b \in boarding <=> b \in d.boarding)
  OBVIOUS
<1> HIDE DEF c, stops, boarding
<1>4. /\ DOMAIN Cascade(c) = Tables /\ Cascade(c).stops = stops
      /\ \A t \in Owned \ {"stops"} : Cascade(c)[t] = d[t]
      /\ Cascade(c).rules = Of(d.rules, IDs(stops)) /\ Cascade(c).boarding = Of(boarding, IDs(stops))
  BY <1>1, CascadeTables DEF Tables, Owned
<1>5. QED
  BY <1>2, <1>3, <1>4 DEF Of, stops

\* Clearing parents, and setting them again, leaves the IDs.
LEMMA RowsAndIDs ==
  ASSUME NEW table, NEW f, NEW file
  PROVE  /\ IDs(Cleared(file)) = IDs(file.stops)
         /\ \A rows : IDs(RowsOf(f, rows)) = IDs(rows)
         /\ LET before == Upsert(table, f, Cleared(file))
                after == Others(before, f, file.stops) \cup RowsOf(f, file.stops)
            IN after = Upsert(table, f, file.stops) /\ IDs(after) = IDs(before)
<1> DEFINE before == Upsert(table, f, Cleared(file))
           after == Others(before, f, file.stops) \cup RowsOf(f, file.stops)
<1>1. IDs(Cleared(file)) = IDs(file.stops)
  <2>1. \A s \in file.stops : [id |-> s.id, ref |-> None].id = s.id
    OBVIOUS
  <2>2. QED
    BY <2>1 DEF IDs, Cleared
<1>2. ASSUME NEW rows PROVE IDs(RowsOf(f, rows)) = IDs(rows)
  <2>1. \A r \in rows : [id |-> r.id, feed |-> f, ref |-> r.ref].id = r.id
    OBVIOUS
  <2>2. QED
    BY <2>1 DEF IDs, RowsOf
<1>3. \A rows : \A r \in RowsOf(f, rows) : r.feed = f
  BY DEF RowsOf
<1>4. Others(before, f, file.stops) = Others(table, f, file.stops)
  BY <1>1, <1>3 DEF Others, Upsert
<1>5. after = Upsert(table, f, file.stops)
  BY <1>4 DEF Upsert
<1>6. IDs(after) = IDs(before)
  <2>1. Others(table, f, Cleared(file)) = Others(table, f, file.stops)
    BY <1>1 DEF Others
  <2>2. \A xs, ys : IDs(xs \cup ys) = IDs(xs) \cup IDs(ys)
    BY DEF IDs
  <2>3. IDs(before) = IDs(Others(table, f, file.stops)) \cup IDs(file.stops)
    <3>1. before = Others(table, f, file.stops) \cup RowsOf(f, Cleared(file))
      BY <2>1 DEF Upsert
    <3>2. QED
      BY <1>1, <1>2, <2>2, <3>1
  <2>4. IDs(after) = IDs(Others(table, f, file.stops)) \cup IDs(file.stops)
    <3>1. after = Others(table, f, file.stops) \cup RowsOf(f, file.stops)
      BY <1>5 DEF Upsert
    <3>2. QED
      BY <1>2, <2>2, <3>1
  <2>5. QED
    BY <2>3, <2>4
<1>7. QED
  BY <1>1, <1>2, <1>5, <1>6

\* The parents are those of the file.
LEMMA ParentsTables ==
  ASSUME NEW d, DOMAIN d = Tables, NEW f, NEW file
  PROVE  LET e == SetParents(d, f, file)
         IN /\ DOMAIN e = Tables
            /\ e.stops = Others(d.stops, f, file.stops) \cup RowsOf(f, file.stops)
            /\ \A t \in Tables \ {"stops"} : e[t] = d[t]
BY DEF SetParents, Tables

\* Transfers change no other table.
LEMMA TransfersTables ==
  ASSUME NEW d, DOMAIN d = Tables, NEW f, NEW file
  PROVE  LET e == UpdateTransfers(d, f, file)
         IN DOMAIN e = Tables /\ \A t \in Tables \ {"transfers"} : e[t] = d[t]
BY DEF UpdateTransfers, Tables

\* The services are upserted.
LEMMA ServicesTables ==
  ASSUME NEW d, DOMAIN d = Tables, NEW f, NEW file
  PROVE  LET e == UpdateServices(d, f, file)
         IN /\ DOMAIN e = Tables
            /\ e.services = Upsert(d.services, f, file.services)
            /\ \A t \in Owned \ {"services"} : e[t] = d[t]
            /\ e.rules = Of(d.rules, IDs(d.stops))
            /\ e.boarding = Of(d.boarding, IDs(d.stops))
<1> DEFINE c == [d EXCEPT !.services = Others(@, f, file.services)]
           e == DeleteServices(d, f, file)
<1>1. /\ DOMAIN c = Tables /\ c.services = Others(d.services, f, file.services)
      /\ \A t \in Tables \ {"services"} : c[t] = d[t]
  BY DEF Tables
<1>2. e = Cascade(c)
  BY DEF DeleteServices
<1>3. UpdateServices(d, f, file) = [e EXCEPT !.services = @ \cup RowsOf(f, file.services)]
  BY DEF UpdateServices
<1> HIDE DEF c, e
<1>4. /\ DOMAIN e = Tables /\ e.services = Others(d.services, f, file.services)
      /\ \A t \in Owned \ {"services"} : e[t] = d[t]
      /\ e.rules = Of(d.rules, IDs(d.stops))
      /\ e.boarding = Of(d.boarding, IDs(d.stops))
  BY <1>1, <1>2, CascadeTables DEF Tables, Owned
<1>5. QED
  BY <1>3, <1>4 DEF Tables, Owned, Upsert

\* The shapes are upserted.
LEMMA ShapesTables ==
  ASSUME NEW d, DOMAIN d = Tables, NEW f, NEW file
  PROVE  LET e == UpdateShapes(d, f, file)
         IN /\ DOMAIN e = Tables
            /\ e.shapes = Upsert(d.shapes, f, file.shapes)
            /\ \A t \in Owned \ {"shapes"} : e[t] = d[t]
            /\ e.rules = Of(d.rules, IDs(d.stops))
            /\ e.boarding = Of(d.boarding, IDs(d.stops))
<1> DEFINE c == [d EXCEPT !.shapes = Others(@, f, file.shapes)]
           e == DeleteShapes(d, f, file)
<1>1. /\ DOMAIN c = Tables /\ c.shapes = Others(d.shapes, f, file.shapes)
      /\ \A t \in Tables \ {"shapes"} : c[t] = d[t]
  BY DEF Tables
<1>2. e = Cascade(c)
  BY DEF DeleteShapes
<1>3. UpdateShapes(d, f, file) = [e EXCEPT !.shapes = @ \cup RowsOf(f, file.shapes)]
  BY DEF UpdateShapes
<1> HIDE DEF c, e
<1>4. /\ DOMAIN e = Tables /\ e.shapes = Others(d.shapes, f, file.shapes)
      /\ \A t \in Owned \ {"shapes"} : e[t] = d[t]
      /\ e.rules = Of(d.rules, IDs(d.stops))
      /\ e.boarding = Of(d.boarding, IDs(d.stops))
  BY <1>1, <1>2, CascadeTables DEF Tables, Owned
<1>5. QED
  BY <1>3, <1>4 DEF Tables, Owned, Upsert

\* Trips change no other table.
LEMMA TripsTables ==
  ASSUME NEW d, DOMAIN d = Tables, NEW f, NEW file
  PROVE  LET e == InsertTrips(d, f, file)
         IN DOMAIN e = Tables /\ \A t \in Tables \ {"trips"} : e[t] = d[t]
BY DEF InsertTrips, Tables

\* Stop times and static maps change no other tables than trips and maps.
LEMMA TimesTables ==
  ASSUME NEW d, DOMAIN d = Tables, NEW g, NEW f, NEW file
  PROVE  LET e == UpdateStaticMaps(InsertTimes(d, g, file), f, file)
         IN DOMAIN e = Tables /\ \A t \in Tables \ {"trips", "maps"} : e[t] = d[t]
BY DEF InsertTimes, UpdateStaticMaps, Tables

\* An update: each table with owners is upserted, and rules and boarding data
\* stay if their stop does.
LEMMA UpdateTables ==
  ASSUME NEW d, DOMAIN d = Tables, NEW f, NEW file
  PROVE  LET e == UpToTrips(d, f, file)
         IN /\ DOMAIN e = Tables
            /\ \A t \in Owned : e[t] = Upsert(d[t], f, file[t])
            /\ e.rules = Of(d.rules, IDs(d.stops) \cap IDs(e.stops))
            /\ \A b : b.stop \notin Written(d, f, file) =>
                 (b \in e.boarding <=> b \in Of(d.boarding, IDs(d.stops) \cap IDs(e.stops)))
<1> DEFINE d1 == UpdateAgencies(d, f, file)
           d2 == UpdateRoutes(d1, f, file)
           d3 == UpdateStops(d2, f, file)
           d4 == SetParents(d3, f, file)
           d5 == UpdateTransfers(d4, f, file)
           d6 == UpdateServices(d5, f, file)
           d7 == UpdateShapes(d6, f, file)
           d8 == InsertTrips(d7, f, file)
<1>1. /\ DOMAIN d1 = Tables /\ d1.agencies = Upsert(d.agencies, f, file.agencies)
      /\ \A t \in Tables \ {"agencies"} : d1[t] = d[t]
  BY AgenciesTables
<1> HIDE DEF d1
<1>2. /\ DOMAIN d2 = Tables /\ d2.routes = Upsert(d1.routes, f, file.routes)
      /\ \A t \in Owned \ {"routes"} : d2[t] = d1[t]
      /\ d2.rules = Of(d1.rules, IDs(d1.stops)) /\ d2.boarding = Of(d1.boarding, IDs(d1.stops))
  BY <1>1, RoutesTables
<1> HIDE DEF d2
<1>3. /\ DOMAIN d3 = Tables /\ d3.stops = Upsert(d2.stops, f, Cleared(file))
      /\ \A t \in Owned \ {"stops"} : d3[t] = d2[t]
      /\ d3.rules = Of(d2.rules, IDs(d3.stops))
      /\ \A b : b.stop \notin Written(d2, f, file) =>
           (b \in d3.boarding <=> b \in Of(d2.boarding, IDs(d3.stops)))
  BY <1>2, StopsTables
<1> HIDE DEF d3
<1>4. /\ DOMAIN d4 = Tables
      /\ d4.stops = Others(d3.stops, f, file.stops) \cup RowsOf(f, file.stops)
      /\ \A t \in Tables \ {"stops"} : d4[t] = d3[t]
  BY <1>3, ParentsTables
<1> HIDE DEF d4
<1>5. DOMAIN d5 = Tables /\ \A t \in Tables \ {"transfers"} : d5[t] = d4[t]
  BY <1>4, TransfersTables
<1> HIDE DEF d5
<1>6. /\ DOMAIN d6 = Tables /\ d6.services = Upsert(d5.services, f, file.services)
      /\ \A t \in Owned \ {"services"} : d6[t] = d5[t]
      /\ d6.rules = Of(d5.rules, IDs(d5.stops)) /\ d6.boarding = Of(d5.boarding, IDs(d5.stops))
  BY <1>5, ServicesTables
<1> HIDE DEF d6
<1>7. /\ DOMAIN d7 = Tables /\ d7.shapes = Upsert(d6.shapes, f, file.shapes)
      /\ \A t \in Owned \ {"shapes"} : d7[t] = d6[t]
      /\ d7.rules = Of(d6.rules, IDs(d6.stops)) /\ d7.boarding = Of(d6.boarding, IDs(d6.stops))
  BY <1>6, ShapesTables
<1> HIDE DEF d7
<1>8. DOMAIN d8 = Tables /\ \A t \in Tables \ {"trips"} : d8[t] = d7[t]
  BY <1>7, TripsTables
<1>9. UpToTrips(d, f, file) = d8
  BY DEF UpToTrips, d1, d2, d3, d4, d5, d6, d7
<1> HIDE DEF d8
<1>10. /\ d2.stops = d.stops /\ d2.rules = Of(d.rules, IDs(d.stops))
       /\ d2.boarding = Of(d.boarding, IDs(d.stops))
  BY <1>1, <1>2 DEF Tables, Owned
<1>11. d4.stops = Upsert(d.stops, f, file.stops) /\ IDs(d4.stops) = IDs(d3.stops)
  BY <1>3, <1>4, <1>10, RowsAndIDs
<1>12. d5.stops = d4.stops /\ d6.stops = d4.stops /\ d7.stops = d4.stops /\ d8.stops = d4.stops
  BY <1>5, <1>6, <1>7, <1>8 DEF Tables, Owned
<1>13. \A t \in Owned : d8[t] = Upsert(d[t], f, file[t])
  <2>1. d8.agencies = Upsert(d.agencies, f, file.agencies)
    BY <1>1, <1>2, <1>3, <1>4, <1>5, <1>6, <1>7, <1>8 DEF Tables, Owned
  <2>2. d8.routes = Upsert(d.routes, f, file.routes)
    BY <1>1, <1>2, <1>3, <1>4, <1>5, <1>6, <1>7, <1>8 DEF Tables, Owned
  <2>3. d8.services = Upsert(d.services, f, file.services)
    BY <1>1, <1>2, <1>3, <1>4, <1>5, <1>6, <1>7, <1>8 DEF Tables, Owned
  <2>4. d8.shapes = Upsert(d.shapes, f, file.shapes)
    BY <1>1, <1>2, <1>3, <1>4, <1>5, <1>6, <1>7, <1>8 DEF Tables, Owned
  <2>5. QED
    BY <1>11, <1>12, <2>1, <2>2, <2>3, <2>4 DEF Owned
<1>14. /\ d4.rules = d3.rules /\ d5.rules = d4.rules /\ d8.rules = d7.rules
       /\ d4.boarding = d3.boarding /\ d5.boarding = d4.boarding /\ d8.boarding = d7.boarding
  BY <1>4, <1>5, <1>8 DEF Tables
<1>15. d8.rules = Of(d.rules, IDs(d.stops) \cap IDs(d8.stops))
  BY <1>3, <1>6, <1>7, <1>10, <1>11, <1>12, <1>14 DEF Of
<1>16. Written(d2, f, file) = Written(d, f, file)
  BY <1>10 DEF Written
<1>17. ASSUME NEW b, b.stop \notin Written(d, f, file)
       PROVE  b \in d8.boarding <=> b \in Of(d.boarding, IDs(d.stops) \cap IDs(d8.stops))
  BY <1>3, <1>6, <1>7, <1>10, <1>11, <1>12, <1>14, <1>16, <1>17 DEF Of
<1>18. QED
  BY <1>8, <1>9, <1>13, <1>15, <1>17
-----------------------------------------------------------------------------
(* The steps of the system. *)

\* An update of the system, in which feed f is updated.
LEMMA UpdateEffect ==
  ASSUME NEW f, DOMAIN db = Tables, Update(f)
  PROVE  LET e == UpToTrips(db, f, served[f])
         IN /\ DOMAIN db' = Tables
            /\ \A t \in Owned : db'[t] = Upsert(db[t], f, served[f][t])
            /\ db'.stops = e.stops
            /\ db'.rules = Of(db.rules, IDs(db.stops) \cap IDs(e.stops))
            /\ \A b : b.stop \notin Written(db, f, served[f]) =>
                 (b \in db'.boarding <=> b \in Of(db.boarding, IDs(db.stops) \cap IDs(e.stops)))
<1> DEFINE e == UpToTrips(db, f, served[f])
<1>1. PICK g : db' = UpdateStaticMaps(InsertTimes(e, g, served[f]), f, served[f])
  BY DEF Update
<1>2. /\ DOMAIN e = Tables
      /\ \A t \in Owned : e[t] = Upsert(db[t], f, served[f][t])
      /\ e.rules = Of(db.rules, IDs(db.stops) \cap IDs(e.stops))
      /\ \A b : b.stop \notin Written(db, f, served[f]) =>
           (b \in e.boarding <=> b \in Of(db.boarding, IDs(db.stops) \cap IDs(e.stops)))
  BY UpdateTables
<1> HIDE DEF e
<1>3. DOMAIN db' = Tables /\ \A t \in Tables \ {"trips", "maps"} : db'[t] = e[t]
  BY <1>1, <1>2, TimesTables
<1>4. QED
  BY <1>2, <1>3 DEF e, Tables, Owned

\* The rows that are not of a feed.
NotOf(rows, f) == {r \in rows : r.feed # f}

\* What is left without a feed.
LEMMA WithoutFeedTables ==
  ASSUME NEW d, DOMAIN d = Tables, NEW f
  PROVE  LET e == WithoutFeed(d, f)
         IN /\ DOMAIN e = Tables
            /\ \A t \in Owned : e[t] = NotOf(d[t], f)
            /\ e.rules = Of(NotOf(d.rules, f), IDs(e.stops))
            /\ e.boarding = Of(d.boarding, IDs(e.stops))
<1> DEFINE c == [d EXCEPT !.agencies = {r \in @ : r.feed # f}, !.routes = {r \in @ : r.feed # f},
                    !.stops = {r \in @ : r.feed # f}, !.services = {r \in @ : r.feed # f},
                    !.shapes = {r \in @ : r.feed # f}, !.transfers = {r \in @ : r.feed # f},
                    !.rules = {r \in @ : r.feed # f}]
<1>1. /\ DOMAIN c = Tables /\ \A t \in Owned : c[t] = NotOf(d[t], f)
      /\ c.rules = NotOf(d.rules, f) /\ c.boarding = d.boarding
  BY DEF Tables, Owned, NotOf
<1>2. WithoutFeed(d, f) = Cascade(c)
  BY DEF WithoutFeed
<1> HIDE DEF c
<1>3. /\ DOMAIN Cascade(c) = Tables /\ \A t \in Owned : Cascade(c)[t] = c[t]
      /\ Cascade(c).rules = Of(c.rules, IDs(c.stops))
      /\ Cascade(c).boarding = Of(c.boarding, IDs(c.stops))
  BY <1>1, CascadeTables
<1>4. "stops" \in Owned
  BY DEF Owned
<1>5. QED
  BY <1>1, <1>2, <1>3, <1>4

\* An update of a CSV feed leaves the tables with owners.
LEMMA CsvEffect ==
  ASSUME NEW f, DOMAIN db = Tables, UpdateCsv(f)
  PROVE  /\ DOMAIN db' = Tables
         /\ \A t \in Owned : db'[t] = db[t]
         /\ db'.rules = {r \in db.rules : r.feed # f}
              \cup {[stop |-> s, feed |-> f] : s \in served[f].rules \cap IDs(db.stops)}
         /\ db'.boarding = IF f \in Accessibility
                           THEN {[stop |-> s, by |-> f] : s \in served[f].boarding \cap IDs(db.stops)}
                           ELSE db.boarding
BY DEF UpdateCsv, Tables, Owned
-----------------------------------------------------------------------------
(* The inductive invariant. *)

\* The tables, and per feed the file it serves and the one it stored last.
FilesAreServed ==
  /\ DOMAIN db = Tables
  /\ DOMAIN served = Feeds /\ DOMAIN stored = Feeds
  /\ \A f \in Feeds : served[f] \in Files[f] /\ stored[f] \in Files[f] \cup {None}

\* The stops that are there since the update of a CSV feed are there.
KeptAreThere == kept \in [Csv -> SUBSET IDs(db.stops)]

\* At first each feed serves a file and has stored none.
LEMMA InitFiles ==
  Init => FilesAreServed /\ KeptAreThere
BY DEF Init, FilesAreServed, KeptAreThere, Empty, Tables

\* Each step keeps the files served and stored.
LEMMA FilesStep ==
  ASSUME FilesAreServed, [Next]_vars
  PROVE  FilesAreServed'
<1>1. CASE UNCHANGED vars
  BY <1>1 DEF FilesAreServed, vars
<1>2. ASSUME NEW f \in Feeds, NEW file \in Files[f], Serve(f, file)
      PROVE  FilesAreServed'
  BY <1>2 DEF Serve, FilesAreServed
<1>3. ASSUME NEW f \in Feeds, Update(f)
      PROVE  FilesAreServed'
  <2>1. DOMAIN db' = Tables
    BY <1>3, UpdateEffect DEF FilesAreServed
  <2>2. QED
    BY <1>3, <2>1 DEF Update, FilesAreServed
<1>4. ASSUME NEW f \in Feeds, UpdateCsv(f)
      PROVE  FilesAreServed'
  <2>1. DOMAIN db' = Tables
    BY <1>4, CsvEffect DEF FilesAreServed
  <2>2. QED
    BY <1>4, <2>1 DEF UpdateCsv, FilesAreServed
<1>5. ASSUME NEW f \in Feeds, DeleteFeed(f)
      PROVE  FilesAreServed'
  <2>1. DOMAIN db' = Tables
    BY <1>5, WithoutFeedTables DEF FilesAreServed, DeleteFeed
  <2>2. QED
    BY <1>5, <2>1 DEF DeleteFeed, FilesAreServed
<1>6. QED
  BY <1>1, <1>2, <1>3, <1>4, <1>5 DEF Next

\* Each step keeps the rows of the files.
LEMMA RowsStep ==
  ASSUME FilesAreServed, RowsAreTheFiles, [Next]_vars
  PROVE  RowsAreTheFiles'
<1>1. CASE UNCHANGED vars
  BY <1>1 DEF RowsAreTheFiles, Stored, Unshared, vars
<1>2. ASSUME NEW g \in Feeds, NEW file \in Files[g], Serve(g, file)
      PROVE  RowsAreTheFiles'
  BY <1>2 DEF Serve, RowsAreTheFiles, Stored, Unshared
<1> DEFINE Mine(t, f) == {r \in db[t] : r.feed = f}
           Good(t, f) ==
             IF Stored(f)
             THEN Mine(t, f) \subseteq RowsOf(f, stored[f][t]) /\ RowsOf(f, Unshared(f, t)) \subseteq Mine(t, f)
             ELSE Mine(t, f) = {}
<1>g. RowsAreTheFiles <=> \A f \in StaticFeeds : \A t \in Owned : Good(t, f)
  BY DEF RowsAreTheFiles, Owned
<1>h. RowsAreTheFiles' <=> \A f \in StaticFeeds : \A t \in Owned : Good(t, f)'
  BY DEF RowsAreTheFiles, Owned
<1>3. ASSUME NEW g \in Feeds, Update(g)
      PROVE  RowsAreTheFiles'
  <2>1. \A t \in Owned : db'[t] = Upsert(db[t], g, served[g][t])
    BY <1>3, UpdateEffect DEF FilesAreServed
  <2>2. /\ g \in StaticFeeds /\ stored' = [stored EXCEPT ![g] = served[g]]
        /\ served[g] \in Files[g] /\ served[g] # None
    BY <1>3, NoneAssumption DEF Update, FilesAreServed
  <2>3. ASSUME NEW f \in StaticFeeds, NEW t \in Owned
        PROVE  Good(t, f)'
    <3>1. CASE f = g
      <4>1. Mine(t, f)' = RowsOf(f, served[g][t])
        BY <2>1, <3>1 DEF Upsert, Others, RowsOf
      <4>2. stored'[f] = served[g] /\ Stored(f)'
        BY <2>2, <3>1 DEF FilesAreServed, Stored
      <4>3. RowsOf(f, Unshared(f, t)') \subseteq RowsOf(f, served[g][t])
        BY <4>2 DEF RowsOf, Unshared
      <4>4. QED
        BY <4>1, <4>2, <4>3 DEF RowsOf
    <3>2. CASE f # g
      <4>1. Mine(t, f)' = {r \in Mine(t, f) : r.id \notin IDs(served[g][t])}
        BY <2>1, <3>2 DEF Upsert, Others, RowsOf
      <4>2. stored'[f] = stored[f]
        BY <2>2, <3>2 DEF FilesAreServed
      <4>3. Unshared(f, t)' = Unshared(f, t) /\ (Stored(f)' <=> Stored(f))
        BY <4>2 DEF Unshared, Stored
      <4>4. \A r \in RowsOf(f, Unshared(f, t)) : r.id \notin IDs(served[g][t])
        BY <2>2, <3>2 DEF RowsOf, Unshared
      <4>5. Good(t, f)
        BY <1>g
      <4>6. RowsOf(f, Unshared(f, t))' = RowsOf(f, Unshared(f, t))
        BY <4>3 DEF RowsOf
      <4>7. CASE Stored(f)
        <5>1. Mine(t, f)' \subseteq RowsOf(f, stored[f][t])
          BY <4>1, <4>5, <4>7
        <5>2. RowsOf(f, Unshared(f, t)) \subseteq Mine(t, f)'
          BY <4>1, <4>4, <4>5, <4>7
        <5>3. RowsOf(f, stored[f][t])' = RowsOf(f, stored[f][t])
          BY <4>2 DEF RowsOf
        <5>4. QED
          BY <4>3, <4>6, <4>7, <5>1, <5>2, <5>3
      <4>8. CASE ~Stored(f)
        BY <4>1, <4>3, <4>5, <4>8
      <4>9. QED
        BY <4>7, <4>8
    <3>3. QED
      BY <3>1, <3>2
  <2>4. QED
    BY <1>h, <2>3
<1>4. ASSUME NEW g \in Feeds, UpdateCsv(g)
      PROVE  RowsAreTheFiles'
  <2>1. \A t \in Owned : db'[t] = db[t]
    BY <1>4, CsvEffect DEF FilesAreServed
  <2>2. \A f \in StaticFeeds : stored'[f] = stored[f]
    BY <1>4 DEF UpdateCsv, StaticFeeds, FilesAreServed
  <2>3. QED
    BY <2>1, <2>2 DEF RowsAreTheFiles, Owned, Stored, Unshared
<1>5. ASSUME NEW g \in Feeds, DeleteFeed(g)
      PROVE  RowsAreTheFiles'
  <2>1. \A t \in Owned : db'[t] = NotOf(db[t], g)
    BY <1>5, WithoutFeedTables DEF DeleteFeed, FilesAreServed
  <2>2. stored' = [stored EXCEPT ![g] = None]
    BY <1>5 DEF DeleteFeed
  <2>3. ASSUME NEW f \in StaticFeeds, NEW t \in Owned
        PROVE  Good(t, f)'
    <3>1. CASE f = g
      <4>1. Mine(t, f)' = {} /\ ~Stored(f)'
        BY <2>1, <2>2, <3>1 DEF NotOf, Stored, FilesAreServed
      <4>2. QED
        BY <4>1
    <3>2. CASE f # g
      <4>1. Mine(t, f)' = Mine(t, f)
        BY <2>1, <3>2 DEF NotOf
      <4>2. stored'[f] = stored[f]
        BY <2>2, <3>2 DEF FilesAreServed
      <4>3. Good(t, f)
        BY <1>g
      <4>4. QED
        BY <4>1, <4>2, <4>3 DEF Stored, Unshared
    <3>3. QED
      BY <3>1, <3>2
  <2>4. QED
    BY <1>h, <2>3
<1>6. QED
  BY <1>1, <1>2, <1>3, <1>4, <1>5 DEF Next

\* The rows of a feed are those of its latest file, up to the rows with an ID
\* that another feed has too: RowsAreTheFiles, for all feeds and files.
THEOREM RowsFollowTheFiles == Spec => []RowsAreTheFiles
<1>1. Init => RowsAreTheFiles
  BY DEF Init, Empty, RowsAreTheFiles, Stored, StaticFeeds
<1>2. QED
  BY <1>1, InitFiles, FilesStep, RowsStep, PTL DEF Spec

\* Each step keeps the data of the CSV feeds.
LEMMA KeptStep ==
  ASSUME FilesAreServed, KeptAreThere, CsvIsKept, [Next]_vars
  PROVE  KeptAreThere' /\ CsvIsKept'
<1> DEFINE Rules(c) == {r \in db.rules : r.feed = c}
           RulesOf(c) == {[stop |-> s, feed |-> c] : s \in stored[c].rules \cap kept[c]}
           Boarding(c) == {b \in db.boarding : b.stop \in kept[c]}
           BoardingOf(c) == {[stop |-> s, by |-> c] : s \in stored[c].boarding \cap kept[c]}
           Kept(c) == Stored(c) => /\ Rules(c) = RulesOf(c)
                                   /\ Accessibility = {c} => Boarding(c) = BoardingOf(c)
<1>g. CsvIsKept <=> \A c \in Csv : Kept(c)
  BY DEF CsvIsKept
<1>h. CsvIsKept' <=> \A c \in Csv : Kept(c)'
  BY DEF CsvIsKept
<1>1. CASE UNCHANGED vars
  BY <1>1 DEF CsvIsKept, KeptAreThere, Stored, vars
<1>2. ASSUME NEW g \in Feeds, NEW file \in Files[g], Serve(g, file)
      PROVE  KeptAreThere' /\ CsvIsKept'
  BY <1>2 DEF Serve, CsvIsKept, KeptAreThere, Stored
<1>3. ASSUME NEW g \in Feeds, Update(g)
      PROVE  KeptAreThere' /\ CsvIsKept'
  <2> DEFINE there == IDs(UpToTrips(db, g, served[g]).stops)
  <2>1. /\ IDs(db'.stops) = there
        /\ db'.rules = Of(db.rules, IDs(db.stops) \cap there)
        /\ \A b : b.stop \notin Written(db, g, served[g]) =>
             (b \in db'.boarding <=> b \in Of(db.boarding, IDs(db.stops) \cap there))
    BY <1>3, UpdateEffect DEF FilesAreServed
  <2>2. /\ g \in StaticFeeds /\ kept' = [c \in Csv |-> kept[c] \cap there]
        /\ stored' = [stored EXCEPT ![g] = served[g]]
    BY <1>3 DEF Update
  <2> HIDE DEF there
  <2>3. KeptAreThere'
    BY <2>1, <2>2 DEF KeptAreThere
  <2>4. ASSUME NEW c \in Csv
        PROVE  Kept(c)'
    <3>1. /\ kept'[c] = kept[c] \cap there /\ kept[c] \subseteq IDs(db.stops)
          /\ stored'[c] = stored[c] /\ (Stored(c)' <=> Stored(c))
      BY <2>2, FeedsAssumption DEF KeptAreThere, FilesAreServed, StaticFeeds, Stored
    <3>2. ASSUME Stored(c)
          PROVE  Rules(c)' = RulesOf(c)'
      <4>1. Rules(c) = RulesOf(c)
        BY <1>g, <3>2
      <4>2. \A r \in Rules(c) : r.stop \in kept[c]
        BY <4>1
      <4>3. Rules(c)' = {r \in Rules(c) : r.stop \in there}
        BY <2>1, <3>1, <4>2 DEF Of
      <4>4. RulesOf(c)' = {r \in RulesOf(c) : r.stop \in there}
        BY <3>1
      <4>5. QED
        BY <4>1, <4>3, <4>4
    <3>3. ASSUME Stored(c), Accessibility = {c}
          PROVE  Boarding(c)' = BoardingOf(c)'
      <4>1. Boarding(c) = BoardingOf(c)
        BY <1>g, <3>3
      <4>2. \A s \in kept[c] : s \notin Written(db, g, served[g])
        BY <2>2, <3>1, <3>3 DEF Written, StaticFeeds
      <4>3. Boarding(c)' = {b \in Boarding(c) : b.stop \in there}
        BY <2>1, <3>1, <4>2 DEF Of
      <4>4. BoardingOf(c)' = {b \in BoardingOf(c) : b.stop \in there}
        BY <3>1
      <4>5. QED
        BY <4>1, <4>3, <4>4
    <3>4. QED
      BY <3>1, <3>2, <3>3
  <2>5. QED
    BY <1>h, <2>3, <2>4
<1>4. ASSUME NEW g \in Feeds, UpdateCsv(g)
      PROVE  KeptAreThere' /\ CsvIsKept'
  <2>1. /\ db'.stops = db.stops
        /\ db'.rules = {r \in db.rules : r.feed # g}
             \cup {[stop |-> s, feed |-> g] : s \in served[g].rules \cap IDs(db.stops)}
        /\ db'.boarding = IF g \in Accessibility
                          THEN {[stop |-> s, by |-> g] : s \in served[g].boarding \cap IDs(db.stops)}
                          ELSE db.boarding
    BY <1>4, CsvEffect DEF FilesAreServed, Owned
  <2>2. /\ g \in Csv /\ kept' = [kept EXCEPT ![g] = IDs(db.stops)]
        /\ stored' = [stored EXCEPT ![g] = served[g]]
    BY <1>4 DEF UpdateCsv
  <2>3. KeptAreThere'
    BY <2>1, <2>2 DEF KeptAreThere
  <2>4. ASSUME NEW c \in Csv
        PROVE  Kept(c)'
    <3>1. CASE c = g
      <4>1. kept'[c] = IDs(db.stops) /\ stored'[c] = served[c]
        BY <2>2, <3>1, FeedsAssumption DEF KeptAreThere, FilesAreServed
      <4>2. Rules(c)' = RulesOf(c)'
        BY <2>1, <3>1, <4>1
      <4>3. Accessibility = {c} => Boarding(c)' = BoardingOf(c)'
        BY <2>1, <3>1, <4>1
      <4>4. QED
        BY <4>2, <4>3
    <3>2. CASE c # g
      <4>1. kept'[c] = kept[c] /\ stored'[c] = stored[c]
        BY <2>2, <3>2, FeedsAssumption DEF KeptAreThere, FilesAreServed
      <4>2. Rules(c)' = Rules(c)
        BY <2>1, <3>2
      <4>3. Accessibility = {c} => db'.boarding = db.boarding
        BY <2>1, <3>2
      <4>4. Kept(c)
        BY <1>g
      <4>5. QED
        BY <4>1, <4>2, <4>3, <4>4 DEF Stored
    <3>3. QED
      BY <3>1, <3>2
  <2>5. QED
    BY <1>h, <2>3, <2>4
<1>5. ASSUME NEW g \in Feeds, DeleteFeed(g)
      PROVE  KeptAreThere' /\ CsvIsKept'
  <2> DEFINE there == IDs(db'.stops)
  <2>1. /\ db' = WithoutFeed(db, g)
        /\ kept' = [c \in Csv |-> IF c = g THEN {} ELSE kept[c] \cap there]
        /\ stored' = [stored EXCEPT ![g] = None]
    BY <1>5 DEF DeleteFeed
  <2>2. /\ db'.rules = Of(NotOf(db.rules, g), there)
        /\ db'.boarding = Of(db.boarding, there)
    BY <2>1, WithoutFeedTables DEF FilesAreServed
  <2> HIDE DEF there
  <2>3. KeptAreThere'
    BY <2>1 DEF KeptAreThere, there
  <2>4. ASSUME NEW c \in Csv
        PROVE  Kept(c)'
    <3>1. CASE c = g
      BY <2>1, <3>1, FeedsAssumption DEF Stored, FilesAreServed
    <3>2. CASE c # g
      <4>1. kept'[c] = kept[c] \cap there /\ stored'[c] = stored[c] /\ (Stored(c)' <=> Stored(c))
        BY <2>1, <3>2, FeedsAssumption DEF FilesAreServed, Stored
      <4>2. Kept(c)
        BY <1>g
      <4>3. Rules(c)' = {r \in Rules(c) : r.stop \in there}
        BY <2>2, <3>2 DEF Of, NotOf
      <4>4. RulesOf(c)' = {r \in RulesOf(c) : r.stop \in there}
        BY <4>1
      <4>5. Boarding(c)' = {b \in Boarding(c) : b.stop \in there}
        BY <2>2, <4>1 DEF Of
      <4>6. BoardingOf(c)' = {b \in BoardingOf(c) : b.stop \in there}
        BY <4>1
      <4>7. QED
        BY <4>1, <4>2, <4>3, <4>4, <4>5, <4>6
    <3>3. QED
      BY <3>1, <3>2
  <2>5. QED
    BY <1>h, <2>3, <2>4
<1>6. QED
  BY <1>1, <1>2, <1>3, <1>4, <1>5 DEF Next

\* Static updates leave the headsign rules and the accessibility data of a CSV
\* feed alone: CsvIsKept, for all feeds and files.
THEOREM CsvSurvivesStaticUpdates == Spec => []CsvIsKept
<1>1. Init => CsvIsKept
  BY FeedsAssumption DEF Init, CsvIsKept, Stored
<1>2. QED
  BY <1>1, InitFiles, FilesStep, KeptStep, PTL DEF Spec
-----------------------------------------------------------------------------
(***************************************************************************)
(* The references of the tables.                                           *)
(***************************************************************************)

\* A scheduled trip, with one stop time per sequence.
TripRecord(t) ==
  /\ t = [id |-> t.id, route |-> t.route, service |-> t.service, shape |-> t.shape,
          times |-> t.times]
  /\ \A x, y \in t.times : x[1] = y[1] => x = y

\* What a scheduled trip refers to is there.
TripIn(t, d) ==
  /\ t.route \in IDs(d.routes) /\ t.service \in IDs(d.services)
  /\ t.shape \in IDs(d.shapes) \cup {None}
  /\ \A x \in t.times : x[2] \in IDs(d.stops)

\* The references with ON DELETE are to rows that are there.
Closed(d) ==
  /\ \A x \in d.transfers : x.from \in IDs(d.stops) /\ x.to \in IDs(d.stops)
  /\ \A t \in d.trips : TripRecord(t) /\ TripIn(t, d)
  /\ \A m \in d.maps : m.route \in IDs(d.routes)
  /\ \A r \in d.rules : r.stop \in IDs(d.stops)
  /\ \A b \in d.boarding : b.stop \in IDs(d.stops)

\* A trip that stays when other rows are deleted.
Cut(t, d) == [t EXCEPT !.shape = IF @ \in IDs(d.shapes) THEN @ ELSE None,
                       !.times = {x \in @ : x[2] \in IDs(d.stops)}]
CutTrips(trips, d) ==
  {Cut(t, d) : t \in {t \in trips : t.route \in IDs(d.routes) /\ t.service \in IDs(d.services)}}

\* A trip that stays has its shape and its stop times only if they are there.
LEMMA CutIs ==
  ASSUME NEW t, NEW d, TripRecord(t)
  PROVE  /\ TripRecord(Cut(t, d))
         /\ Cut(t, d).id = t.id /\ Cut(t, d).route = t.route /\ Cut(t, d).service = t.service
         /\ Cut(t, d).shape = IF t.shape \in IDs(d.shapes) THEN t.shape ELSE None
         /\ Cut(t, d).times = {x \in t.times : x[2] \in IDs(d.stops)}
<1> DEFINE shape == IF t.shape \in IDs(d.shapes) THEN t.shape ELSE None
           times == {x \in t.times : x[2] \in IDs(d.stops)}
<1>1. Cut(t, d) = [t EXCEPT !.shape = shape, !.times = times]
  BY DEF Cut
<1>2. \A x, y \in times : x[1] = y[1] => x = y
  BY DEF TripRecord
<1> HIDE DEF shape, times
<1>3. Cut(t, d) = [id |-> t.id, route |-> t.route, service |-> t.service, shape |-> shape,
                   times |-> times]
  BY <1>1 DEF TripRecord
<1>4. QED
  BY <1>2, <1>3 DEF TripRecord, shape, times

\* What a cascade leaves of the rows that refer to others.
LEMMA CascadeRows ==
  ASSUME NEW d, DOMAIN d = Tables
  PROVE  LET e == Cascade(d)
         IN /\ e.transfers = {x \in d.transfers : {x.from, x.to} \subseteq IDs(d.stops)}
            /\ e.trips = CutTrips(d.trips, d)
            /\ e.maps = {m \in d.maps : m.route \in IDs(d.routes)}
BY DEF Cascade, Tables, CutTrips, Cut

\* After a cascade all references are to rows that are there.
LEMMA CascadeCloses ==
  ASSUME NEW d, DOMAIN d = Tables, \A t \in d.trips : TripRecord(t)
  PROVE  Closed(Cascade(d))
<1> DEFINE e == Cascade(d)
<1>1. /\ DOMAIN e = Tables /\ \A t \in Owned : e[t] = d[t]
      /\ e.rules = Of(d.rules, IDs(d.stops)) /\ e.boarding = Of(d.boarding, IDs(d.stops))
  BY CascadeTables
<1>2. /\ e.transfers = {x \in d.transfers : {x.from, x.to} \subseteq IDs(d.stops)}
      /\ e.trips = CutTrips(d.trips, d)
      /\ e.maps = {m \in d.maps : m.route \in IDs(d.routes)}
  BY CascadeRows
<1> HIDE DEF e
<1>3. e.routes = d.routes /\ e.services = d.services /\ e.shapes = d.shapes /\ e.stops = d.stops
  BY <1>1 DEF Owned
<1>4. ASSUME NEW r \in e.trips PROVE TripRecord(r) /\ TripIn(r, e)
  <2>1. PICK t \in d.trips : /\ r = Cut(t, d)
                             /\ t.route \in IDs(d.routes) /\ t.service \in IDs(d.services)
    BY <1>2 DEF CutTrips
  <2>2. /\ TripRecord(r) /\ r.route = t.route /\ r.service = t.service
        /\ r.shape = IF t.shape \in IDs(d.shapes) THEN t.shape ELSE None
        /\ r.times = {x \in t.times : x[2] \in IDs(d.stops)}
    BY <2>1, CutIs
  <2>3. QED
    BY <1>3, <2>1, <2>2 DEF TripIn
<1>5. QED
  BY <1>1, <1>2, <1>3, <1>4 DEF Closed, Of, e

\* A cascade changes nothing if all references are to rows that are there.
LEMMA ClosedIsFixed ==
  ASSUME NEW d, d = [t \in Tables |-> d[t]], Closed(d)
  PROVE  Cascade(d) = d
<1> DEFINE e == Cascade(d)
<1>1. DOMAIN d = Tables
  OBVIOUS
<1>2. /\ DOMAIN e = Tables /\ \A t \in Owned : e[t] = d[t]
      /\ e.rules = Of(d.rules, IDs(d.stops)) /\ e.boarding = Of(d.boarding, IDs(d.stops))
  BY <1>1, CascadeTables
<1>3. /\ e.transfers = {x \in d.transfers : {x.from, x.to} \subseteq IDs(d.stops)}
      /\ e.trips = CutTrips(d.trips, d)
      /\ e.maps = {m \in d.maps : m.route \in IDs(d.routes)}
  BY <1>1, CascadeRows
<1>4. e = [t \in DOMAIN e |-> e[t]]
  BY DEF Cascade
<1> HIDE DEF e
<1>5. e.rules = d.rules /\ e.boarding = d.boarding /\ e.transfers = d.transfers /\ e.maps = d.maps
  BY <1>2, <1>3 DEF Closed, Of
<1>6. ASSUME NEW t \in d.trips
      PROVE  Cut(t, d) = t /\ t.route \in IDs(d.routes) /\ t.service \in IDs(d.services)
  <2>1. TripRecord(t) /\ TripIn(t, d)
    BY DEF Closed
  <2>2. (IF t.shape \in IDs(d.shapes) THEN t.shape ELSE None) = t.shape
    BY <2>1 DEF TripIn
  <2>3. {x \in t.times : x[2] \in IDs(d.stops)} = t.times
    BY <2>1 DEF TripIn
  <2>4. TripRecord(Cut(t, d)) /\ Cut(t, d).shape = t.shape /\ Cut(t, d).times = t.times
    BY <2>1, <2>2, <2>3, CutIs
  <2>5. Cut(t, d).id = t.id /\ Cut(t, d).route = t.route /\ Cut(t, d).service = t.service
    BY <2>1, CutIs
  <2>6. Cut(t, d) = t
    BY <2>1, <2>4, <2>5 DEF TripRecord
  <2>7. QED
    BY <2>1, <2>6 DEF TripIn
<1>7. e.trips = d.trips
  BY <1>3, <1>6 DEF CutTrips
<1>8. \A t \in Tables : e[t] = d[t]
  BY <1>2, <1>5, <1>7 DEF Tables, Owned
<1>9. e = [t \in Tables |-> e[t]]
  BY <1>2, <1>4
<1>10. QED
  BY <1>8, <1>9 DEF e

\* References stay right if rows are added to the tables referred to.
LEMMA ClosedGrows ==
  ASSUME NEW d, NEW e, Closed(d),
         \A t \in {"routes", "services", "shapes", "stops"} : IDs(d[t]) \subseteq IDs(e[t]),
         \A t \in {"transfers", "trips", "maps", "rules", "boarding"} : e[t] = d[t]
  PROVE  Closed(e)
<1>1. /\ IDs(d.routes) \subseteq IDs(e.routes) /\ IDs(d.services) \subseteq IDs(e.services)
      /\ IDs(d.shapes) \subseteq IDs(e.shapes) /\ IDs(d.stops) \subseteq IDs(e.stops)
  OBVIOUS
<1>2. /\ e.transfers = d.transfers /\ e.trips = d.trips /\ e.maps = d.maps
      /\ e.rules = d.rules /\ e.boarding = d.boarding
  OBVIOUS
<1>3. \A t \in e.trips : TripRecord(t) /\ TripIn(t, e)
  BY <1>1, <1>2 DEF Closed, TripIn
<1>4. QED
  BY <1>1, <1>2, <1>3 DEF Closed

\* A step that changes tables and lets the database follow the references.
LEMMA CascadeStep ==
  ASSUME NEW d, DOMAIN d = Tables, NEW c, DOMAIN c = Tables, NEW e, e = Cascade(c),
         \A t \in Tables \ (Owned \cup {"boarding"}) : c[t] = d[t]
  PROVE  /\ DOMAIN e = Tables /\ \A t \in Owned : e[t] = c[t]
         /\ e.trips = CutTrips(d.trips, e)
         /\ e.transfers \subseteq d.transfers
         /\ (\A t \in d.trips : TripRecord(t)) => Closed(e)
<1>1. c.trips = d.trips /\ c.transfers = d.transfers
  BY DEF Tables, Owned
<1>2. DOMAIN e = Tables /\ \A t \in Owned : e[t] = c[t]
  BY CascadeTables
<1>3. e.routes = c.routes /\ e.services = c.services /\ e.shapes = c.shapes /\ e.stops = c.stops
  BY <1>2 DEF Owned
<1>4. e.trips = CutTrips(c.trips, c) /\ e.transfers \subseteq c.transfers
  BY CascadeRows
<1>5. CutTrips(c.trips, c) = CutTrips(c.trips, e)
  BY <1>3 DEF CutTrips, Cut
<1>6. (\A t \in c.trips : TripRecord(t)) => Closed(e)
  BY CascadeCloses
<1>7. QED
  BY <1>1, <1>2, <1>4, <1>5, <1>6

\* The trips of a file as they are inserted.
Inserted(file) ==
  {[id |-> t.id, route |-> t.route, service |-> t.service, shape |-> t.shape,
    times |-> {}] : t \in file.trips}

\* The transfers of a file as they are inserted.
Resolved(f, file) ==
  {[from |-> x[1], to |-> x[2], feed |-> f] :
     x \in {x \in file.transfers : {x[1], x[2]} \subseteq IDs(file.stops)}}

\* The tables in the course of an update at the deletions of routes, stops,
\* services and shapes.
Course(d, f, file, d2, d3, d6, d7) ==
  /\ d2.routes = Upsert(d.routes, f, file.routes)
  /\ d3.routes = d2.routes /\ d6.routes = d2.routes /\ d7.routes = d2.routes
  /\ IDs(d2.stops) = IDs(d.stops) /\ IDs(d3.stops) = IDs(Upsert(d.stops, f, file.stops))
  /\ IDs(d6.stops) = IDs(d3.stops) /\ IDs(d7.stops) = IDs(d3.stops)
  /\ d2.services = d.services /\ d3.services = d.services
  /\ d6.services = Others(d.services, f, file.services)
  /\ d7.services = Upsert(d.services, f, file.services)
  /\ d2.shapes = d.shapes /\ d3.shapes = d.shapes /\ d6.shapes = d.shapes
  /\ d7.shapes = Others(d.shapes, f, file.shapes)
  /\ d2.trips = CutTrips(d.trips, d2) /\ d3.trips = CutTrips(d2.trips, d3)
  /\ d6.trips = CutTrips(d3.trips, d6) /\ d7.trips = CutTrips(d6.trips, d7)

\* What an update does to the trips and transfers, and that it leaves no
\* reference to a row that is gone.
LEMMA UpdateRows ==
  ASSUME NEW d, DOMAIN d = Tables, Closed(d), NEW f, NEW file, WellFormed(file)
  PROVE  LET e == UpToTrips(d, f, file)
             stops == UpdateStops(UpdateRoutes(UpdateAgencies(d, f, file), f, file), f, file)
         IN /\ Closed(e)
            /\ \E d2, d3, d6, d7 : /\ Course(d, f, file, d2, d3, d6, d7)
                                   /\ stops.trips = d3.trips
                                   /\ e.trips = d7.trips \cup Inserted(file)
            /\ stops.transfers \subseteq d.transfers
            /\ e.transfers \subseteq {x \in d.transfers : x.feed # f} \cup Resolved(f, file)
<1> DEFINE d1 == UpdateAgencies(d, f, file)
           d2 == UpdateRoutes(d1, f, file)
           d3 == UpdateStops(d2, f, file)
           d4 == SetParents(d3, f, file)
           d5 == UpdateTransfers(d4, f, file)
           e6 == DeleteServices(d5, f, file)
           d6 == UpdateServices(d5, f, file)
           e7 == DeleteShapes(d6, f, file)
           d7 == UpdateShapes(d6, f, file)
           d8 == InsertTrips(d7, f, file)
<1>0. UpToTrips(d, f, file) = d8 /\ UpdateStops(UpdateRoutes(UpdateAgencies(d, f, file), f, file), f, file) = d3
  BY DEF UpToTrips
<1>1. /\ DOMAIN d1 = Tables /\ d1.agencies = Upsert(d.agencies, f, file.agencies)
      /\ \A t \in Tables \ {"agencies"} : d1[t] = d[t]
      /\ Closed(d1)
  <2>1. /\ DOMAIN d1 = Tables /\ d1.agencies = Upsert(d.agencies, f, file.agencies)
        /\ \A t \in Tables \ {"agencies"} : d1[t] = d[t]
    BY AgenciesTables
  <2> HIDE DEF d1
  <2>2. Closed(d1)
    BY <2>1, ClosedGrows DEF Tables
  <2>3. QED
    BY <2>1, <2>2
<1>2. /\ DOMAIN d2 = Tables /\ Closed(d2)
      /\ d2.routes = Upsert(d.routes, f, file.routes)
      /\ \A t \in {"stops", "services", "shapes"} : d2[t] = d[t]
      /\ d2.trips = CutTrips(d.trips, d2) /\ d2.transfers \subseteq d.transfers
  <2> DEFINE c == [d1 EXCEPT !.routes = Upsert(@, f, file.routes)]
  <2> HIDE DEF d1
  <2>1. /\ DOMAIN c = Tables /\ c.routes = Upsert(d1.routes, f, file.routes)
        /\ \A t \in Tables \ {"routes"} : c[t] = d1[t]
    BY <1>1 DEF Tables
  <2>2. d2 = Cascade(c)
    BY DEF UpdateRoutes
  <2>3. \A t \in d1.trips : TripRecord(t)
    BY <1>1 DEF Closed
  <2> HIDE DEF c, d2
  <2>4. /\ DOMAIN d2 = Tables /\ \A t \in Owned : d2[t] = c[t]
        /\ d2.trips = CutTrips(d1.trips, d2)
        /\ d2.transfers \subseteq d1.transfers /\ Closed(d2)
    BY <1>1, <2>1, <2>2, <2>3, CascadeStep DEF Owned
  <2>5. d1.routes = d.routes /\ d1.trips = d.trips /\ d1.transfers = d.transfers
    BY <1>1 DEF Tables
  <2>6. d2.routes = Upsert(d.routes, f, file.routes)
    BY <2>1, <2>4, <2>5 DEF Owned
  <2>7. \A t \in {"stops", "services", "shapes"} : d2[t] = d[t]
    BY <1>1, <2>1, <2>4 DEF Tables, Owned
  <2>8. QED
    BY <2>4, <2>5, <2>6, <2>7
<1> HIDE DEF d1
<1>3. /\ DOMAIN d3 = Tables /\ Closed(d3)
      /\ d3.stops = Upsert(d.stops, f, Cleared(file))
      /\ \A t \in {"routes", "services", "shapes"} : d3[t] = d2[t]
      /\ d3.trips = CutTrips(d2.trips, d3) /\ d3.transfers \subseteq d2.transfers
  <2> DEFINE stops == Upsert(d2.stops, f, Cleared(file))
             boarding == {b \in d2.boarding : b.stop \notin Written(d2, f, file)}
                           \cup {[stop |-> s, by |-> f] : s \in Written(d2, f, file)}
             c == [d2 EXCEPT !.stops = stops, !.boarding = boarding]
  <2> HIDE DEF d2
  <2>1. /\ DOMAIN c = Tables /\ c.stops = stops
        /\ \A t \in Tables \ {"stops", "boarding"} : c[t] = d2[t]
    BY <1>2 DEF Tables
  <2>2. d3 = Cascade(c)
    BY DEF UpdateStops, Cleared, Written
  <2>3. \A t \in d2.trips : TripRecord(t)
    BY <1>2 DEF Closed
  <2> HIDE DEF c, d3, stops, boarding
  <2>4. /\ DOMAIN d3 = Tables /\ \A t \in Owned : d3[t] = c[t]
        /\ d3.trips = CutTrips(d2.trips, d3)
        /\ d3.transfers \subseteq d2.transfers /\ Closed(d3)
    BY <1>2, <2>1, <2>2, <2>3, CascadeStep DEF Owned
  <2>5. d3.stops = Upsert(d.stops, f, Cleared(file))
    BY <1>2, <2>1, <2>4 DEF Owned, stops
  <2>6. \A t \in {"routes", "services", "shapes"} : d3[t] = d2[t]
    BY <2>1, <2>4 DEF Tables, Owned
  <2>7. QED
    BY <2>4, <2>5, <2>6
<1> HIDE DEF d2
<1>4. /\ DOMAIN d4 = Tables /\ Closed(d4) /\ IDs(d4.stops) = IDs(d3.stops)
      /\ d4.stops = Upsert(d.stops, f, file.stops)
      /\ \A t \in Tables \ {"stops"} : d4[t] = d3[t]
  <2> HIDE DEF d3
  <2>1. /\ DOMAIN d4 = Tables
        /\ d4.stops = Others(d3.stops, f, file.stops) \cup RowsOf(f, file.stops)
        /\ \A t \in Tables \ {"stops"} : d4[t] = d3[t]
    BY <1>3, ParentsTables
  <2> HIDE DEF d4
  <2>2. d4.stops = Upsert(d.stops, f, file.stops) /\ IDs(d4.stops) = IDs(d3.stops)
    BY <1>3, <2>1, RowsAndIDs
  <2>3. Closed(d4)
    BY <1>3, <2>1, <2>2, ClosedGrows DEF Tables
  <2>4. QED
    BY <2>1, <2>2, <2>3
<1> HIDE DEF d3
<1>5. /\ DOMAIN d5 = Tables /\ Closed(d5)
      /\ \A t \in Tables \ {"transfers"} : d5[t] = d4[t]
      /\ d5.transfers \subseteq {x \in d4.transfers : x.feed # f} \cup Resolved(f, file)
  <2> HIDE DEF d4
  <2>1. /\ DOMAIN d5 = Tables /\ \A t \in Tables \ {"transfers"} : d5[t] = d4[t]
        /\ d5.transfers = {x \in d4.transfers : x.feed # f} \cup Resolved(f, file)
    BY <1>4 DEF UpdateTransfers, Tables, Resolved
  <2> HIDE DEF d5
  <2>2. IDs(file.stops) \subseteq IDs(d4.stops)
    <3>1. IDs(RowsOf(f, file.stops)) = IDs(file.stops)
      BY RowsAndIDs
    <3>2. QED
      BY <1>4, <3>1 DEF Upsert, IDs
  <2>3. \A x \in Resolved(f, file) : x.from \in IDs(file.stops) /\ x.to \in IDs(file.stops)
    BY DEF Resolved
  <2>4. Closed(d5)
    <3>1. /\ d5.routes = d4.routes /\ d5.services = d4.services /\ d5.shapes = d4.shapes
          /\ d5.stops = d4.stops /\ d5.trips = d4.trips /\ d5.maps = d4.maps
          /\ d5.rules = d4.rules /\ d5.boarding = d4.boarding
      BY <2>1 DEF Tables
    <3>2. \A x \in d5.transfers : x.from \in IDs(d5.stops) /\ x.to \in IDs(d5.stops)
      BY <1>4, <2>1, <2>2, <2>3, <3>1 DEF Closed
    <3>3. \A t \in d5.trips : TripRecord(t) /\ TripIn(t, d5)
      BY <1>4, <3>1 DEF Closed, TripIn
    <3>4. QED
      BY <1>4, <3>1, <3>2, <3>3 DEF Closed
  <2>5. QED
    BY <2>1, <2>4
<1> HIDE DEF d4
<1>6. /\ DOMAIN e6 = Tables /\ Closed(e6)
      /\ e6.services = Others(d5.services, f, file.services)
      /\ \A t \in {"routes", "stops", "shapes"} : e6[t] = d5[t]
      /\ e6.trips = CutTrips(d5.trips, e6) /\ e6.transfers \subseteq d5.transfers
  <2> DEFINE c == [d5 EXCEPT !.services = Others(@, f, file.services)]
  <2> HIDE DEF d5
  <2>1. /\ DOMAIN c = Tables /\ c.services = Others(d5.services, f, file.services)
        /\ \A t \in Tables \ {"services"} : c[t] = d5[t]
    BY <1>5 DEF Tables
  <2>2. e6 = Cascade(c)
    BY DEF DeleteServices
  <2>3. \A t \in d5.trips : TripRecord(t)
    BY <1>5 DEF Closed
  <2> HIDE DEF c, e6
  <2>4. /\ DOMAIN e6 = Tables /\ \A t \in Owned : e6[t] = c[t]
        /\ e6.trips = CutTrips(d5.trips, e6)
        /\ e6.transfers \subseteq d5.transfers /\ Closed(e6)
    BY <1>5, <2>1, <2>2, <2>3, CascadeStep DEF Owned
  <2>5. QED
    BY <2>1, <2>4 DEF Tables, Owned
<1> HIDE DEF d5
<1>7. /\ DOMAIN d6 = Tables /\ Closed(d6)
      /\ d6.services = Upsert(d5.services, f, file.services)
      /\ \A t \in Tables \ {"services"} : d6[t] = e6[t]
  <2>1. d6 = [e6 EXCEPT !.services = @ \cup RowsOf(f, file.services)]
    BY DEF UpdateServices
  <2> HIDE DEF e6, d6
  <2>2. /\ DOMAIN d6 = Tables /\ d6.services = e6.services \cup RowsOf(f, file.services)
        /\ \A t \in Tables \ {"services"} : d6[t] = e6[t]
    BY <1>6, <2>1 DEF Tables
  <2>3. IDs(e6.services) \subseteq IDs(d6.services)
    BY <2>2 DEF IDs
  <2>4. Closed(d6)
    BY <1>6, <2>2, <2>3, ClosedGrows DEF Tables
  <2>5. QED
    BY <1>6, <2>2, <2>4 DEF Upsert
<1> HIDE DEF e6
<1>8. /\ DOMAIN e7 = Tables /\ Closed(e7)
      /\ e7.shapes = Others(d6.shapes, f, file.shapes)
      /\ \A t \in {"routes", "stops", "services"} : e7[t] = d6[t]
      /\ e7.trips = CutTrips(d6.trips, e7) /\ e7.transfers \subseteq d6.transfers
  <2> DEFINE c == [d6 EXCEPT !.shapes = Others(@, f, file.shapes)]
  <2> HIDE DEF d6
  <2>1. /\ DOMAIN c = Tables /\ c.shapes = Others(d6.shapes, f, file.shapes)
        /\ \A t \in Tables \ {"shapes"} : c[t] = d6[t]
    BY <1>7 DEF Tables
  <2>2. e7 = Cascade(c)
    BY DEF DeleteShapes
  <2>3. \A t \in d6.trips : TripRecord(t)
    BY <1>7 DEF Closed
  <2> HIDE DEF c, e7
  <2>4. /\ DOMAIN e7 = Tables /\ \A t \in Owned : e7[t] = c[t]
        /\ e7.trips = CutTrips(d6.trips, e7)
        /\ e7.transfers \subseteq d6.transfers /\ Closed(e7)
    BY <1>7, <2>1, <2>2, <2>3, CascadeStep DEF Owned
  <2>5. QED
    BY <2>1, <2>4 DEF Tables, Owned
<1> HIDE DEF d6
<1>9. /\ DOMAIN d7 = Tables /\ Closed(d7)
      /\ d7.shapes = Upsert(d6.shapes, f, file.shapes)
      /\ \A t \in Tables \ {"shapes"} : d7[t] = e7[t]
  <2>1. d7 = [e7 EXCEPT !.shapes = @ \cup RowsOf(f, file.shapes)]
    BY DEF UpdateShapes
  <2> HIDE DEF e7, d7
  <2>2. /\ DOMAIN d7 = Tables /\ d7.shapes = e7.shapes \cup RowsOf(f, file.shapes)
        /\ \A t \in Tables \ {"shapes"} : d7[t] = e7[t]
    BY <1>8, <2>1 DEF Tables
  <2>3. IDs(e7.shapes) \subseteq IDs(d7.shapes)
    BY <2>2 DEF IDs
  <2>4. Closed(d7)
    BY <1>8, <2>2, <2>3, ClosedGrows DEF Tables
  <2>5. QED
    BY <1>8, <2>2, <2>4 DEF Upsert
<1> HIDE DEF e7
<1>10. /\ DOMAIN d8 = Tables /\ d8.trips = d7.trips \cup Inserted(file)
       /\ \A t \in Tables \ {"trips"} : d8[t] = d7[t]
  <2> HIDE DEF d7
  <2>1. QED
    BY <1>9 DEF InsertTrips, Tables, Inserted
<1> HIDE DEF d7, d8
<1>11. /\ e7.routes = d2.routes /\ e6.routes = d2.routes /\ d3.routes = d2.routes
       /\ e7.stops = d4.stops /\ e6.stops = d4.stops
       /\ d6.services = Upsert(d.services, f, file.services) /\ e7.services = d6.services
       /\ e6.services = Others(d.services, f, file.services) /\ d3.services = d.services
       /\ e6.shapes = d.shapes /\ d3.shapes = d.shapes /\ e7.shapes = Others(d.shapes, f, file.shapes)
       /\ d7.shapes = Upsert(d.shapes, f, file.shapes)
       /\ d5.trips = d3.trips /\ d6.trips = e6.trips /\ d7.trips = e7.trips
  BY <1>2, <1>3, <1>4, <1>5, <1>6, <1>7, <1>8, <1>9 DEF Tables
<1>12. Course(d, f, file, d2, d3, e6, e7)
  BY <1>2, <1>3, <1>4, <1>6, <1>8, <1>11, RowsAndIDs DEF Course
<1>13. d8.transfers \subseteq {x \in d.transfers : x.feed # f} \cup Resolved(f, file)
  <2>1. d3.transfers \subseteq d.transfers /\ d4.transfers = d3.transfers
    BY <1>2, <1>3, <1>4 DEF Tables
  <2>2. d8.transfers \subseteq d5.transfers
    BY <1>6, <1>7, <1>8, <1>9, <1>10 DEF Tables
  <2>3. QED
    BY <1>5, <2>1, <2>2
<1>14. Closed(d8)
  <2>1. /\ IDs(file.routes) \subseteq IDs(d8.routes) /\ IDs(file.services) \subseteq IDs(d8.services)
        /\ IDs(file.shapes) \subseteq IDs(d8.shapes)
    <3>1. \A rows : IDs(RowsOf(f, rows)) = IDs(rows)
      BY RowsAndIDs
    <3>2. ASSUME NEW table, NEW rows PROVE IDs(rows) \subseteq IDs(Upsert(table, f, rows))
      <4>1. IDs(RowsOf(f, rows)) \subseteq IDs(Upsert(table, f, rows))
        BY DEF Upsert, IDs
      <4>2. QED
        BY <3>1, <4>1
    <3>3. /\ d8.routes = Upsert(d.routes, f, file.routes)
          /\ d8.services = Upsert(d.services, f, file.services)
          /\ d8.shapes = Upsert(d.shapes, f, file.shapes)
      BY <1>2, <1>9, <1>10, <1>11 DEF Tables
    <3>4. QED
      BY <3>2, <3>3
  <2>2. ASSUME NEW r \in Inserted(file) PROVE TripRecord(r) /\ TripIn(r, d8)
    <3>1. PICK t \in file.trips :
            r = [id |-> t.id, route |-> t.route, service |-> t.service, shape |-> t.shape,
                 times |-> {}]
      BY DEF Inserted
    <3>2. /\ t.route \in IDs(file.routes) /\ t.service \in IDs(file.services)
          /\ t.shape \in IDs(file.shapes) \cup {None}
      BY DEF WellFormed
    <3>3. QED
      BY <2>1, <3>1, <3>2 DEF TripRecord, TripIn
  <2>3. /\ d8.routes = d7.routes /\ d8.services = d7.services /\ d8.shapes = d7.shapes
        /\ d8.stops = d7.stops /\ d8.transfers = d7.transfers /\ d8.maps = d7.maps
        /\ d8.rules = d7.rules /\ d8.boarding = d7.boarding
    BY <1>10 DEF Tables
  <2>4. \A t \in d8.trips : TripRecord(t) /\ TripIn(t, d8)
    BY <1>9, <1>10, <2>2, <2>3 DEF Closed, TripIn
  <2>5. QED
    BY <1>9, <2>3, <2>4 DEF Closed
<1>15. d3.transfers \subseteq d.transfers
  BY <1>2, <1>3
<1>16. d8.trips = e7.trips \cup Inserted(file)
  BY <1>10, <1>11
<1>17. QED
  BY <1>0, <1>12, <1>13, <1>14, <1>15, <1>16
-----------------------------------------------------------------------------
(***************************************************************************)
(* The schema.                                                             *)
(***************************************************************************)

\* The inductive invariant: beside the references, the keys.
SchemaInv ==
  /\ db = [t \in Tables |-> db[t]]
  /\ Closed(db) /\ Valid(db)
  /\ \A t \in Owned : UniqueIDs(db[t])

\* An upsert leaves one row per ID.
LEMMA UpsertIsUnique ==
  ASSUME NEW table, NEW f, NEW rows, UniqueIDs(table), UniqueIDs(rows)
  PROVE  UniqueIDs(Upsert(table, f, rows))
<1>1. \A r \in Others(table, f, rows) : r \in table /\ r.id \notin IDs(rows)
  BY DEF Others
<1>2. \A r \in RowsOf(f, rows) : r.id \in IDs(rows)
        /\ \E x \in rows : r = [id |-> x.id, feed |-> f, ref |-> x.ref]
  BY DEF RowsOf, IDs
<1>3. \A r, s \in Others(table, f, rows) : r.id = s.id => r = s
  BY <1>1 DEF UniqueIDs
<1>4. \A r, s \in RowsOf(f, rows) : r.id = s.id => r = s
  <2> SUFFICES ASSUME NEW r \in RowsOf(f, rows), NEW s \in RowsOf(f, rows), r.id = s.id
               PROVE  r = s
    OBVIOUS
  <2>1. PICK x \in rows : r = [id |-> x.id, feed |-> f, ref |-> x.ref]
    BY <1>2
  <2>2. PICK y \in rows : s = [id |-> y.id, feed |-> f, ref |-> y.ref]
    BY <1>2
  <2>3. x.id = y.id
    BY <2>1, <2>2
  <2>4. x = y
    BY <2>3 DEF UniqueIDs
  <2>5. QED
    BY <2>1, <2>2, <2>4
<1>5. QED
  BY <1>1, <1>2, <1>3, <1>4 DEF UniqueIDs, Upsert

\* The rows that stop times are added to, and what is added.
Added(g, file, r) == UNION {t.times : t \in {s \in file.trips : g[s] = r}}
WithTimes(g, file, r) ==
  IF \E t \in file.trips : g[t] = r THEN [r EXCEPT !.times = @ \cup Added(g, file, r)] ELSE r

\* A trip whose stop times have been inserted.
LEMMA WithTimesIs ==
  ASSUME NEW file, WellFormed(file), NEW g, NEW r, TripRecord(r), TimesFit(g, file),
         \A t \in file.trips : g[t].id = t.id
  PROVE  /\ TripRecord(WithTimes(g, file, r))
         /\ WithTimes(g, file, r).id = r.id /\ WithTimes(g, file, r).route = r.route
         /\ WithTimes(g, file, r).service = r.service /\ WithTimes(g, file, r).shape = r.shape
         /\ WithTimes(g, file, r).times = r.times \cup Added(g, file, r)
         /\ \A x \in Added(g, file, r) : x[2] \in IDs(file.stops)
<1> DEFINE times == r.times \cup Added(g, file, r)
<1>1. \A x \in Added(g, file, r) : \E t \in file.trips : g[t] = r /\ x \in t.times
  BY DEF Added
<1>2. (~ \E t \in file.trips : g[t] = r) => times = r.times
  BY <1>1
<1>3. \A x \in Added(g, file, r) : x[2] \in IDs(file.stops)
  BY <1>1 DEF WellFormed
<1>4. \A x, y \in times : x[1] = y[1] => x = y
  <2> SUFFICES ASSUME NEW x \in times, NEW y \in times, x[1] = y[1] PROVE x = y
    OBVIOUS
  <2>1. CASE x \in r.times /\ y \in r.times
    BY <2>1 DEF TripRecord
  <2>2. \A a \in Added(g, file, r), b \in r.times : a[1] # b[1]
    BY <1>1 DEF TimesFit
  <2>3. CASE x \in Added(g, file, r) /\ y \in Added(g, file, r)
    <3>1. PICK t \in file.trips : g[t] = r /\ x \in t.times
      BY <1>1, <2>3
    <3>2. PICK s \in file.trips : g[s] = r /\ y \in s.times
      BY <1>1, <2>3
    <3>3. UniqueIDs(file.trips)
      BY DEF WellFormed
    <3>4. t = s
      BY <3>1, <3>2, <3>3 DEF UniqueIDs
    <3>5. QED
      BY <3>1, <3>2, <3>4 DEF WellFormed
  <2>4. QED
    BY <2>1, <2>2, <2>3
<1>5. WithTimes(g, file, r) =
        [id |-> r.id, route |-> r.route, service |-> r.service, shape |-> r.shape, times |-> times]
  <2>1. CASE \E t \in file.trips : g[t] = r
    <3>1. WithTimes(g, file, r) = [r EXCEPT !.times = times]
      BY <2>1 DEF WithTimes
    <3> HIDE DEF times
    <3>2. QED
      BY <3>1 DEF TripRecord
  <2>2. CASE ~ \E t \in file.trips : g[t] = r
    <3>1. WithTimes(g, file, r) = r /\ times = r.times
      BY <1>2, <2>2 DEF WithTimes
    <3> HIDE DEF times
    <3>2. QED
      BY <3>1 DEF TripRecord
  <2>3. QED
    BY <2>1, <2>2
<1> HIDE DEF times
<1>6. QED
  BY <1>3, <1>4, <1>5 DEF TripRecord, times

\* The tables after the stop times and the static maps.
LEMMA TimesRows ==
  ASSUME NEW d, DOMAIN d = Tables, NEW g, NEW f, NEW file
  PROVE  LET e == UpdateStaticMaps(InsertTimes(d, g, file), f, file)
         IN /\ e = [t \in Tables |-> e[t]]
            /\ \A t \in Tables \ {"trips", "maps"} : e[t] = d[t]
            /\ e.trips = {WithTimes(g, file, r) : r \in d.trips}
            /\ \A m \in e.maps : m \in d.maps \/ m.route \in IDs(file.routes)
<1> DEFINE c == InsertTimes(d, g, file)
           e == UpdateStaticMaps(c, f, file)
<1>1. /\ DOMAIN c = Tables /\ c.trips = {WithTimes(g, file, r) : r \in d.trips}
      /\ \A t \in Tables \ {"trips"} : c[t] = d[t]
  BY DEF InsertTimes, Tables, WithTimes, Added
<1> HIDE DEF c
<1>2. /\ e = [t \in DOMAIN c |-> e[t]]
      /\ \A t \in Tables \ {"maps"} : e[t] = c[t]
      /\ \A m \in e.maps : m \in c.maps \/ m.route \in IDs(file.routes)
  BY <1>1 DEF UpdateStaticMaps, Tables
<1> HIDE DEF e
<1>3. QED
  BY <1>1, <1>2 DEF Tables, c, e

\* The invariant is kept by an update.
LEMMA UpdateSchema ==
  ASSUME SchemaInv, FilesAreServed, NEW f \in Feeds, Update(f)
  PROVE  SchemaInv'
<1> DEFINE file == served[f]
           e == UpToTrips(db, f, file)
<1>1. PICK g \in TripIDToPk(e, file) :
        TimesFit(g, file) /\ db' = UpdateStaticMaps(InsertTimes(e, g, file), f, file)
  BY DEF Update
<1>2. DOMAIN db = Tables /\ Closed(db) /\ f \in StaticFeeds
  BY DEF SchemaInv, Update, FilesAreServed
<1>3. WellFormed(file)
  BY <1>2, FilesAssumption DEF FilesAreServed
<1>4. Closed(e)
  BY <1>2, <1>3, UpdateRows
<1>5. /\ DOMAIN e = Tables
      /\ \A t \in Owned : e[t] = Upsert(db[t], f, file[t])
      /\ e.rules = Of(db.rules, IDs(db.stops) \cap IDs(e.stops))
      /\ \A b : b.stop \notin Written(db, f, file) =>
           (b \in e.boarding <=> b \in Of(db.boarding, IDs(db.stops) \cap IDs(e.stops)))
  BY <1>2, UpdateTables
<1>6. Valid(e)
  BY DEF Update, Succeeds
<1>7. \A t \in file.trips : g[t].id = t.id
  BY <1>1 DEF TripIDToPk
<1> HIDE DEF e, file
<1>8. /\ db' = [t \in Tables |-> db'[t]]
      /\ \A t \in Tables \ {"trips", "maps"} : db'[t] = e[t]
      /\ db'.trips = {WithTimes(g, file, r) : r \in e.trips}
      /\ \A m \in db'.maps : m \in e.maps \/ m.route \in IDs(file.routes)
  BY <1>1, <1>5, TimesRows
<1>9. /\ db'.routes = e.routes /\ db'.services = e.services /\ db'.shapes = e.shapes
      /\ db'.stops = e.stops /\ db'.agencies = e.agencies /\ db'.transfers = e.transfers
      /\ db'.rules = e.rules /\ db'.boarding = e.boarding
  BY <1>8 DEF Tables
<1>10. IDs(file.stops) \subseteq IDs(e.stops) /\ IDs(file.routes) \subseteq IDs(e.routes)
  <2>1. IDs(RowsOf(f, file.stops)) = IDs(file.stops) /\ IDs(RowsOf(f, file.routes)) = IDs(file.routes)
    BY RowsAndIDs
  <2>2. RowsOf(f, file.stops) \subseteq e.stops /\ RowsOf(f, file.routes) \subseteq e.routes
    BY <1>5 DEF Owned, Upsert
  <2>3. QED
    BY <2>1, <2>2 DEF IDs
<1>11. \A w \in db'.trips : \E r \in e.trips : w = WithTimes(g, file, r)
  BY <1>8
<1>12. \A r \in e.trips :
         /\ TripRecord(WithTimes(g, file, r))
         /\ WithTimes(g, file, r).id = r.id /\ WithTimes(g, file, r).route = r.route
         /\ WithTimes(g, file, r).service = r.service /\ WithTimes(g, file, r).shape = r.shape
         /\ WithTimes(g, file, r).times = r.times \cup Added(g, file, r)
         /\ \A x \in Added(g, file, r) : x[2] \in IDs(file.stops)
  BY <1>1, <1>3, <1>4, <1>7, WithTimesIs DEF Closed
<1>13. Closed(db')
  <2>1. ASSUME NEW w \in db'.trips PROVE TripRecord(w) /\ TripIn(w, db')
    <3>1. PICK r \in e.trips : w = WithTimes(g, file, r)
      BY <1>11
    <3>2. TripIn(r, e)
      BY <1>4 DEF Closed
    <3>3. TripRecord(w) /\ w.route = r.route /\ w.service = r.service /\ w.shape = r.shape
      BY <1>12, <3>1
    <3>4. \A x \in w.times : x[2] \in IDs(e.stops)
      BY <1>10, <1>12, <3>1, <3>2 DEF TripIn
    <3>5. QED
      BY <1>9, <3>2, <3>3, <3>4 DEF TripIn
  <2>2. \A m \in db'.maps : m.route \in IDs(db'.routes)
    BY <1>4, <1>8, <1>9, <1>10 DEF Closed
  <2>3. QED
    BY <1>4, <1>9, <2>1, <2>2 DEF Closed
<1>14. Valid(db')
  <2>1. ASSUME NEW v \in db'.trips, NEW w \in db'.trips, v.route = w.route, v.id = w.id
        PROVE  v = w
    <3>1. PICK r \in e.trips : v = WithTimes(g, file, r)
      BY <1>11
    <3>2. PICK s \in e.trips : w = WithTimes(g, file, s)
      BY <1>11
    <3>3. r.route = s.route /\ r.id = s.id
      BY <1>12, <2>1, <3>1, <3>2
    <3>4. r = s
      BY <1>6, <3>3 DEF Valid
    <3>5. QED
      BY <3>1, <3>2, <3>4
  <2>2. QED
    BY <1>6, <1>9, <2>1 DEF Valid
<1>15. \A t \in Owned : UniqueIDs(db'[t])
  <2>1. ASSUME NEW t \in Owned PROVE UniqueIDs(db'[t])
    <3>1. UniqueIDs(db[t])
      BY DEF SchemaInv
    <3>2. UniqueIDs(file[t])
      BY <1>3 DEF WellFormed, Owned
    <3>3. db'[t] = Upsert(db[t], f, file[t])
      BY <1>5, <1>8 DEF Owned, Tables
    <3>4. QED
      BY <3>1, <3>2, <3>3, UpsertIsUnique
  <2>2. QED
    BY <2>1
<1>16. QED
  BY <1>8, <1>13, <1>14, <1>15 DEF SchemaInv

\* The invariant is kept by the other steps.
LEMMA SchemaStep ==
  ASSUME SchemaInv, FilesAreServed, [Next]_vars
  PROVE  SchemaInv'
<1>0. DOMAIN db = Tables
  BY DEF SchemaInv
<1>1. CASE db' = db
  BY <1>1 DEF SchemaInv
<1>2. ASSUME NEW f \in Feeds, NEW file \in Files[f], Serve(f, file)
      PROVE  db' = db
  BY <1>2 DEF Serve
<1>3. ASSUME NEW f \in Feeds, Update(f)
      PROVE  SchemaInv'
  BY <1>3, UpdateSchema
<1>4. ASSUME NEW f \in Feeds, UpdateCsv(f)
      PROVE  SchemaInv'
  <2> DEFINE boarding == IF f \in Accessibility
                         THEN {[stop |-> s, by |-> f] : s \in served[f].boarding \cap IDs(db.stops)}
                         ELSE db.boarding
             rules == {r \in db.rules : r.feed # f}
                        \cup {[stop |-> s, feed |-> f] : s \in served[f].rules \cap IDs(db.stops)}
  <2>1. db' = [db EXCEPT !.rules = rules, !.boarding = boarding]
    BY <1>4 DEF UpdateCsv
  <2>2. \A r \in rules : r.stop \in IDs(db.stops)
    BY DEF SchemaInv, Closed
  <2>3. \A b \in boarding : b.stop \in IDs(db.stops)
    BY DEF SchemaInv, Closed
  <2> HIDE DEF boarding, rules
  <2>4. /\ db' = [t \in Tables |-> db'[t]]
        /\ db'.rules = rules /\ db'.boarding = boarding
        /\ \A t \in Tables \ {"rules", "boarding"} : db'[t] = db[t]
    BY <1>0, <2>1 DEF Tables
  <2>5. /\ db'.routes = db.routes /\ db'.services = db.services /\ db'.shapes = db.shapes
        /\ db'.stops = db.stops /\ db'.agencies = db.agencies /\ db'.transfers = db.transfers
        /\ db'.trips = db.trips /\ db'.maps = db.maps
    BY <2>4 DEF Tables
  <2>6. Closed(db')
    BY <2>2, <2>3, <2>4, <2>5 DEF SchemaInv, Closed, TripIn
  <2>7. Valid(db') /\ \A t \in Owned : UniqueIDs(db'[t])
    BY <2>5 DEF SchemaInv, Valid, Owned
  <2>8. QED
    BY <2>4, <2>6, <2>7 DEF SchemaInv
<1>5. ASSUME NEW f \in Feeds, DeleteFeed(f)
      PROVE  SchemaInv'
  <2> DEFINE c == [db EXCEPT !.agencies = {r \in @ : r.feed # f}, !.routes = {r \in @ : r.feed # f},
                     !.stops = {r \in @ : r.feed # f}, !.services = {r \in @ : r.feed # f},
                     !.shapes = {r \in @ : r.feed # f}, !.transfers = {r \in @ : r.feed # f},
                     !.rules = {r \in @ : r.feed # f}]
  <2>1. db' = Cascade(c) /\ db' = WithoutFeed(db, f) /\ Valid(db')
    BY <1>5 DEF DeleteFeed, WithoutFeed
  <2>2. DOMAIN c = Tables /\ c.trips = db.trips
    BY <1>0 DEF Tables
  <2> HIDE DEF c
  <2>3. Closed(db')
    BY <2>1, <2>2, CascadeCloses DEF SchemaInv, Closed
  <2>4. db' = [t \in DOMAIN c |-> db'[t]]
    BY <2>1 DEF Cascade
  <2>5. \A t \in Owned : db'[t] = NotOf(db[t], f)
    BY <1>0, <2>1, WithoutFeedTables
  <2>6. \A t \in Owned : UniqueIDs(db'[t])
    BY <2>5 DEF SchemaInv, UniqueIDs, NotOf
  <2>7. QED
    BY <2>1, <2>2, <2>3, <2>4, <2>6 DEF SchemaInv
<1>6. CASE UNCHANGED vars
  BY <1>1, <1>6 DEF vars
<1>7. QED
  BY <1>1, <1>2, <1>3, <1>4, <1>5, <1>6 DEF Next

\* At first the tables are empty.
LEMMA InitSchema == Init => SchemaInv
<1> SUFFICES ASSUME Init PROVE SchemaInv
  OBVIOUS
<1>1. db = Empty
  BY DEF Init
<1>2. db = [t \in Tables |-> db[t]] /\ \A t \in Tables : db[t] = {}
  BY <1>1 DEF Empty, Tables
<1>3. /\ db.agencies = {} /\ db.routes = {} /\ db.stops = {} /\ db.services = {} /\ db.shapes = {}
      /\ db.transfers = {} /\ db.trips = {} /\ db.maps = {} /\ db.rules = {} /\ db.boarding = {}
  BY <1>2 DEF Tables
<1>4. QED
  BY <1>2, <1>3 DEF SchemaInv, Closed, Valid, UniqueIDs, Owned

\* The kept stops are there.
LEMMA KeptIsThere ==
  ASSUME FilesAreServed, KeptAreThere, [Next]_vars
  PROVE  KeptAreThere'
<1>1. CASE UNCHANGED vars
  BY <1>1 DEF KeptAreThere, vars
<1>2. ASSUME NEW f \in Feeds, NEW file \in Files[f], Serve(f, file)
      PROVE  KeptAreThere'
  BY <1>2 DEF Serve, KeptAreThere
<1>3. ASSUME NEW f \in Feeds, Update(f)
      PROVE  KeptAreThere'
  <2>1. db'.stops = UpToTrips(db, f, served[f]).stops
    BY <1>3, UpdateEffect DEF FilesAreServed
  <2>2. kept' = [c \in Csv |-> kept[c] \cap IDs(db'.stops)]
    BY <1>3, <2>1 DEF Update
  <2>3. QED
    BY <2>2 DEF KeptAreThere
<1>4. ASSUME NEW f \in Feeds, UpdateCsv(f)
      PROVE  KeptAreThere'
  <2>1. db'.stops = db.stops
    BY <1>4, CsvEffect DEF FilesAreServed, Owned
  <2>2. QED
    BY <1>4, <2>1 DEF UpdateCsv, KeptAreThere
<1>5. ASSUME NEW f \in Feeds, DeleteFeed(f)
      PROVE  KeptAreThere'
  BY <1>5 DEF DeleteFeed, KeptAreThere
<1>6. QED
  BY <1>1, <1>2, <1>3, <1>4, <1>5 DEF Next

\* For any feeds and files the tables satisfy the schema.
THEOREM TablesSatisfySchema == Spec => []TypeOK
<1>1. SchemaInv /\ FilesAreServed /\ KeptAreThere => TypeOK
  <2> SUFFICES ASSUME SchemaInv, FilesAreServed, KeptAreThere PROVE TypeOK
    OBVIOUS
  <2>1. Cascade(db) = db
    BY ClosedIsFixed DEF SchemaInv
  <2>2. References(db)
    BY <2>1 DEF SchemaInv, References, Owned
  <2>3. \A t \in db.trips : \A x, y \in t.times : x[1] = y[1] => x = y
    BY DEF SchemaInv, Closed, TripRecord
  <2>4. QED
    BY <2>2, <2>3 DEF TypeOK, FilesAreServed, KeptAreThere
<1>2. QED
  BY <1>1, InitSchema, InitFiles, SchemaStep, FilesStep, KeptIsThere, PTL DEF Spec
-----------------------------------------------------------------------------
(***************************************************************************)
(* The trips in the course of an update.                                   *)
(***************************************************************************)

\* A trip has its route and ID for itself.
KeyedTrips(trips) == \A t, s \in trips : t.route = s.route /\ t.id = s.id => t = s

\* Where a trip that stays comes from.
From(r, t) ==
  /\ TripRecord(r)
  /\ r.id = t.id /\ r.route = t.route /\ r.service = t.service /\ r.times \subseteq t.times

\* What is left of the trips after a deletion comes from them, and routes and
\* IDs stay keys.
LEMMA CutBack ==
  ASSUME NEW trips, NEW d, \A t \in trips : TripRecord(t)
  PROVE  /\ \A r \in CutTrips(trips, d) :
              /\ r.service \in IDs(d.services)
              /\ \E t \in trips : From(r, t)
         /\ KeyedTrips(trips) => KeyedTrips(CutTrips(trips, d))
<1>1. \A r \in CutTrips(trips, d) : \E t \in trips :
         r = Cut(t, d) /\ t.service \in IDs(d.services)
  BY DEF CutTrips
<1>2. \A t \in trips : /\ TripRecord(Cut(t, d))
                       /\ Cut(t, d).id = t.id /\ Cut(t, d).route = t.route
                       /\ Cut(t, d).service = t.service /\ Cut(t, d).times \subseteq t.times
  BY CutIs
<1>3. \A r \in CutTrips(trips, d) :
        r.service \in IDs(d.services) /\ \E t \in trips : From(r, t)
  BY <1>1, <1>2 DEF From
<1>4. ASSUME KeyedTrips(trips) PROVE KeyedTrips(CutTrips(trips, d))
  BY <1>1, <1>2, <1>4 DEF KeyedTrips
<1>5. QED
  BY <1>3, <1>4

\* A trip that comes from one that comes from another comes from that.
LEMMA FromFrom ==
  ASSUME NEW p, NEW r, NEW t, From(p, r), From(r, t)
  PROVE  From(p, t)
BY DEF From

\* A trip that stays was there, and its service is of another feed; routes and
\* IDs stay keys.
LEMMA CourseBack ==
  ASSUME NEW d, NEW f, NEW file, NEW d2, NEW d3, NEW d6, NEW d7,
         Course(d, f, file, d2, d3, d6, d7), \A t \in d.trips : TripRecord(t)
  PROVE  /\ \A r \in d7.trips : /\ r.service \in IDs(Others(d.services, f, file.services))
                                /\ \E t \in d.trips : From(r, t)
         /\ KeyedTrips(d.trips) => KeyedTrips(d3.trips) /\ KeyedTrips(d7.trips)
<1>1. /\ d2.trips = CutTrips(d.trips, d2) /\ d3.trips = CutTrips(d2.trips, d3)
      /\ d6.trips = CutTrips(d3.trips, d6) /\ d7.trips = CutTrips(d6.trips, d7)
      /\ d6.services = Others(d.services, f, file.services)
  BY DEF Course
<1>2. /\ \A r \in d2.trips : TripRecord(r) /\ \E t \in d.trips : From(r, t)
      /\ KeyedTrips(d.trips) => KeyedTrips(d2.trips)
  BY <1>1, CutBack DEF From
<1>3. /\ \A r \in d3.trips : TripRecord(r) /\ \E t \in d2.trips : From(r, t)
      /\ KeyedTrips(d2.trips) => KeyedTrips(d3.trips)
  BY <1>1, <1>2, CutBack DEF From
<1>4. /\ \A r \in d6.trips : /\ TripRecord(r) /\ r.service \in IDs(d6.services)
                             /\ \E t \in d3.trips : From(r, t)
      /\ KeyedTrips(d3.trips) => KeyedTrips(d6.trips)
  BY <1>1, <1>3, CutBack DEF From
<1>5. /\ \A r \in d7.trips : \E t \in d6.trips : From(r, t)
      /\ KeyedTrips(d6.trips) => KeyedTrips(d7.trips)
  BY <1>1, <1>4, CutBack
<1>6. ASSUME NEW r \in d7.trips
      PROVE  /\ r.service \in IDs(Others(d.services, f, file.services))
             /\ \E t \in d.trips : From(r, t)
  <2>1. PICK t6 \in d6.trips : From(r, t6)
    BY <1>5
  <2>2. PICK t3 \in d3.trips : From(t6, t3)
    BY <1>4
  <2>3. PICK t2 \in d2.trips : From(t3, t2)
    BY <1>3
  <2>4. PICK t \in d.trips : From(t2, t)
    BY <1>2
  <2>5. From(r, t)
    BY <2>1, <2>2, <2>3, <2>4, FromFrom
  <2>6. r.service = t6.service
    BY <2>1 DEF From
  <2>7. QED
    BY <1>1, <1>4, <2>5, <2>6
<1>7. QED
  BY <1>2, <1>3, <1>4, <1>5, <1>6

\* What of a trip stays: its stop times at the stops that stay, and its shape
\* if that stays.
Stays(q, r, stops, shapes) ==
  /\ From(r, q)
  /\ \A x \in q.times : x[2] \in stops => x \in r.times
  /\ q.shape \in shapes => r.shape = q.shape

\* A trip stays after a deletion that leaves its route and its service.
LEMMA CutForward ==
  ASSUME NEW trips, NEW d, NEW q \in trips, TripRecord(q),
         q.route \in IDs(d.routes), q.service \in IDs(d.services),
         NEW stops, stops \subseteq IDs(d.stops), NEW shapes, shapes \subseteq IDs(d.shapes)
  PROVE  \E r \in CutTrips(trips, d) : Stays(q, r, stops, shapes)
<1> DEFINE r == Cut(q, d)
<1>1. r \in CutTrips(trips, d)
  BY DEF CutTrips
<1>2. /\ TripRecord(r)
      /\ r.id = q.id /\ r.route = q.route /\ r.service = q.service
      /\ r.shape = IF q.shape \in IDs(d.shapes) THEN q.shape ELSE None
      /\ r.times = {x \in q.times : x[2] \in IDs(d.stops)}
  BY CutIs
<1> HIDE DEF r
<1>3. Stays(q, r, stops, shapes)
  BY <1>2 DEF Stays, From
<1>4. QED
  BY <1>1, <1>3

\* What stays of what stays, stays.
LEMMA StaysStays ==
  ASSUME NEW q, NEW r, NEW p, NEW stops, NEW shapes,
         Stays(q, r, stops, shapes), Stays(r, p, stops, shapes)
  PROVE  Stays(q, p, stops, shapes)
BY FromFrom DEF Stays, From

\* A trip stays if its route and its service do.
LEMMA CourseForward ==
  ASSUME NEW d, NEW f, NEW file, NEW d2, NEW d3, NEW d6, NEW d7,
         Course(d, f, file, d2, d3, d6, d7), NEW q \in d.trips, TripRecord(q),
         q.route \in IDs(Others(d.routes, f, file.routes)),
         q.service \in IDs(Others(d.services, f, file.services))
  PROVE  \E r \in d7.trips : Stays(q, r, IDs(Others(d.stops, f, file.stops)),
                                   IDs(Others(d.shapes, f, file.shapes)))
<1> DEFINE stops == IDs(Others(d.stops, f, file.stops))
           shapes == IDs(Others(d.shapes, f, file.shapes))
<1>1. \A table, rows : /\ IDs(Others(table, f, rows)) \subseteq IDs(table)
                       /\ IDs(Others(table, f, rows)) \subseteq IDs(Upsert(table, f, rows))
  BY DEF IDs, Others, Upsert
<1>2. /\ q.route \in IDs(d2.routes) /\ q.route \in IDs(d3.routes)
      /\ q.route \in IDs(d6.routes) /\ q.route \in IDs(d7.routes)
      /\ q.service \in IDs(d2.services) /\ q.service \in IDs(d3.services)
      /\ q.service \in IDs(d6.services) /\ q.service \in IDs(d7.services)
  BY <1>1 DEF Course
<1>3. /\ stops \subseteq IDs(d2.stops) /\ stops \subseteq IDs(d3.stops)
      /\ stops \subseteq IDs(d6.stops) /\ stops \subseteq IDs(d7.stops)
      /\ shapes \subseteq IDs(d2.shapes) /\ shapes \subseteq IDs(d3.shapes)
      /\ shapes \subseteq IDs(d6.shapes) /\ shapes \subseteq IDs(d7.shapes)
  BY <1>1 DEF Course
<1>4. /\ d2.trips = CutTrips(d.trips, d2) /\ d3.trips = CutTrips(d2.trips, d3)
      /\ d6.trips = CutTrips(d3.trips, d6) /\ d7.trips = CutTrips(d6.trips, d7)
  BY DEF Course
<1> HIDE DEF stops, shapes
<1>5. PICK r2 \in d2.trips : Stays(q, r2, stops, shapes)
  BY <1>2, <1>3, <1>4, CutForward
<1>6. PICK r3 \in d3.trips : Stays(r2, r3, stops, shapes)
  <2>1. TripRecord(r2) /\ r2.route = q.route /\ r2.service = q.service
    BY <1>5 DEF Stays, From
  <2>2. QED
    BY <1>2, <1>3, <1>4, <2>1, CutForward
<1>7. Stays(q, r3, stops, shapes)
  BY <1>5, <1>6, StaysStays
<1>8. PICK r6 \in d6.trips : Stays(r3, r6, stops, shapes)
  <2>1. TripRecord(r3) /\ r3.route = q.route /\ r3.service = q.service
    BY <1>7 DEF Stays, From
  <2>2. QED
    BY <1>2, <1>3, <1>4, <2>1, CutForward
<1>9. Stays(q, r6, stops, shapes)
  BY <1>7, <1>8, StaysStays
<1>10. PICK r7 \in d7.trips : Stays(r6, r7, stops, shapes)
  <2>1. TripRecord(r6) /\ r6.route = q.route /\ r6.service = q.service
    BY <1>9 DEF Stays, From
  <2>2. QED
    BY <1>2, <1>3, <1>4, <2>1, CutForward
<1>11. Stays(q, r7, stops, shapes)
  BY <1>9, <1>10, StaysStays
<1>12. QED
  BY <1>11 DEF stops, shapes
-----------------------------------------------------------------------------
(***************************************************************************)
(* Which updates fail.                                                     *)
(***************************************************************************)

\* The IDs in a table after an upsert: those of the file, and those of the
\* rows of other feeds.
LEMMA UpsertIDs ==
  ASSUME NEW table, NEW f, NEW rows
  PROVE  /\ IDs(rows) \subseteq IDs(Upsert(table, f, rows))
         /\ \A r \in table : r.feed # f => r.id \in IDs(Upsert(table, f, rows))
<1>1. IDs(RowsOf(f, rows)) = IDs(rows)
  BY RowsAndIDs
<1>2. \A x, y : IDs(y) \subseteq IDs(x \cup y)
  BY DEF IDs
<1>3. IDs(rows) \subseteq IDs(Upsert(table, f, rows))
  BY <1>1, <1>2 DEF Upsert
<1>4. ASSUME NEW r \in table, r.feed # f PROVE r.id \in IDs(Upsert(table, f, rows))
  <2>1. CASE r.id \in IDs(rows)
    BY <1>3, <2>1
  <2>2. CASE r.id \notin IDs(rows)
    BY <1>4, <2>2 DEF Upsert, Others, IDs
  <2>3. QED
    BY <2>1, <2>2
<1>5. QED
  BY <1>3, <1>4

\* An update that succeeds keeps the agencies of the stored routes.
LEMMA SucceedsKeepsAgencies ==
  ASSUME SchemaInv, NEW f, NEW file, Succeeds(db, f, file)
  PROVE  AgenciesStay(f, file)
<1> SUFFICES ASSUME NEW r \in db.routes, NEW a \in db.agencies, r.ref = a.id, a.feed = f
             PROVE  a.id \in IDs(file.agencies)
  BY DEF AgenciesStay
<1> DEFINE d == UpdateAgencies(db, f, file)
<1>1. DOMAIN db = Tables /\ UniqueIDs(db.agencies)
  BY DEF SchemaInv, Owned
<1>2. d.agencies = Upsert(db.agencies, f, file.agencies) /\ \A t \in Tables \ {"agencies"} : d[t] = db[t]
  BY <1>1, AgenciesTables
<1>3. Valid(d)
  BY DEF Succeeds
<1> HIDE DEF d
<1>4. r.ref \in IDs(d.agencies)
  BY <1>2, <1>3 DEF Valid, Tables
<1>5. PICK b \in d.agencies : b.id = a.id
  BY <1>4 DEF IDs
<1>6. CASE b \in Others(db.agencies, f, file.agencies)
  BY <1>1, <1>5, <1>6 DEF Others, UniqueIDs
<1>7. CASE b \in RowsOf(f, file.agencies)
  BY <1>5, <1>7 DEF RowsOf, IDs
<1>8. QED
  BY <1>2, <1>5, <1>6, <1>7 DEF Upsert

\* The tables after the first three steps of an update.
LEMMA StopsStage ==
  ASSUME NEW d, DOMAIN d = Tables, NEW f, NEW file
  PROVE  LET e == UpdateStops(UpdateRoutes(UpdateAgencies(d, f, file), f, file), f, file)
         IN /\ e.agencies = Upsert(d.agencies, f, file.agencies)
            /\ e.routes = Upsert(d.routes, f, file.routes)
            /\ e.stops = Upsert(d.stops, f, Cleared(file))
            /\ e.services = d.services /\ e.shapes = d.shapes
<1> DEFINE d1 == UpdateAgencies(d, f, file)
           d2 == UpdateRoutes(d1, f, file)
           d3 == UpdateStops(d2, f, file)
<1>1. /\ DOMAIN d1 = Tables /\ d1.agencies = Upsert(d.agencies, f, file.agencies)
      /\ \A t \in Tables \ {"agencies"} : d1[t] = d[t]
  BY AgenciesTables
<1> HIDE DEF d1
<1>2. /\ DOMAIN d2 = Tables /\ d2.routes = Upsert(d1.routes, f, file.routes)
      /\ \A t \in Owned \ {"routes"} : d2[t] = d1[t]
  BY <1>1, RoutesTables
<1> HIDE DEF d2
<1>3. /\ d3.stops = Upsert(d2.stops, f, Cleared(file))
      /\ \A t \in Owned \ {"stops"} : d3[t] = d2[t]
  BY <1>2, StopsTables
<1> HIDE DEF d3
<1>4. /\ d3.agencies = Upsert(d.agencies, f, file.agencies)
      /\ d3.routes = Upsert(d.routes, f, file.routes)
      /\ d3.stops = Upsert(d.stops, f, Cleared(file))
      /\ d3.services = d.services /\ d3.shapes = d.shapes
  BY <1>1, <1>2, <1>3 DEF Tables, Owned
<1>5. QED
  BY <1>4 DEF d1, d2, d3

\* The routes find their agencies, those that are stored and those of the file.
LEMMA AgenciesAreFound ==
  ASSUME SchemaInv, NEW f, NEW file, WellFormed(file), AgenciesStay(f, file)
  PROVE  \A r \in db.routes \cup Upsert(db.routes, f, file.routes) :
           r.ref \in IDs(Upsert(db.agencies, f, file.agencies))
<1>1. IDs(file.agencies) \subseteq IDs(Upsert(db.agencies, f, file.agencies))
  BY UpsertIDs
<1>2. ASSUME NEW r \in db.routes
      PROVE  r.ref \in IDs(Upsert(db.agencies, f, file.agencies))
  <2>1. r.ref \in IDs(db.agencies)
    BY DEF SchemaInv, Valid
  <2>2. PICK a \in db.agencies : r.ref = a.id
    BY <2>1 DEF IDs
  <2>3. CASE a.feed = f
    BY <1>1, <2>2, <2>3 DEF AgenciesStay
  <2>4. CASE a.feed # f
    BY <2>2, <2>4, UpsertIDs
  <2>5. QED
    BY <2>3, <2>4
<1>3. \A r \in RowsOf(f, file.routes) : r.ref \in IDs(file.agencies)
  BY DEF RowsOf, WellFormed
<1>4. QED
  BY <1>1, <1>2, <1>3 DEF Upsert, Others

\* The stops of the other feeds find their parents.
LEMMA ParentsAreFound ==
  ASSUME SchemaInv, NEW f, NEW file, Independent(f, file), NEW rows
  PROVE  \A s \in Others(db.stops, f, rows) : s.ref \in IDs(Upsert(db.stops, f, rows)) \cup {None}
<1> SUFFICES ASSUME NEW s \in Others(db.stops, f, rows), s.ref # None
             PROVE  s.ref \in IDs(Upsert(db.stops, f, rows))
  OBVIOUS
<1>1. s \in db.stops /\ s.feed # f
  BY DEF Others
<1>2. s.ref \in IDs(db.stops)
  BY <1>1 DEF SchemaInv, Valid
<1>3. PICK p \in db.stops : s.ref = p.id
  BY <1>2 DEF IDs
<1>4. p.feed # f
  BY <1>1, <1>3 DEF Independent
<1>5. QED
  BY <1>3, <1>4, UpsertIDs

\* The transfers of the file and of the other feeds are between other stops.
LEMMA TransfersAreKeyed ==
  ASSUME SchemaInv, NEW f, NEW file, WellFormed(file), Independent(f, file)
  PROVE  \A x, y \in {x \in db.transfers : x.feed # f} \cup Resolved(f, file) :
           x.from = y.from /\ x.to = y.to => x = y
<1> DEFINE others == {x \in db.transfers : x.feed # f}
<1>1. \A x, y \in others : x.from = y.from /\ x.to = y.to => x = y
  BY DEF SchemaInv, Valid
<1>2. \A y \in Resolved(f, file) :
        /\ <<y.from, y.to>> \in file.transfers
        /\ y = [from |-> y.from, to |-> y.to, feed |-> f]
  BY DEF Resolved, WellFormed
<1>3. \A x, y \in Resolved(f, file) : x.from = y.from /\ x.to = y.to => x = y
  BY <1>2
<1>4. \A x \in others : <<x.from, x.to>> \notin file.transfers
  BY DEF Independent
<1>5. ASSUME NEW x \in others, NEW y \in Resolved(f, file), x.from = y.from, x.to = y.to
      PROVE  FALSE
  BY <1>2, <1>4, <1>5
<1> HIDE DEF others
<1>6. ASSUME NEW x \in others \cup Resolved(f, file), NEW y \in others \cup Resolved(f, file),
             x.from = y.from, x.to = y.to
      PROVE  x = y
  BY <1>1, <1>3, <1>5, <1>6
<1>7. QED
  BY <1>6 DEF others

\* An update with independent rows, whose file has the agencies of the stored
\* routes, succeeds, and finds no stop times on the trips it has inserted.
LEMMA IndependentSucceeds ==
  ASSUME SchemaInv, NEW f, NEW file, WellFormed(file), Independent(f, file), AgenciesStay(f, file)
  PROVE  /\ Succeeds(db, f, file)
         /\ \A g \in TripIDToPk(UpToTrips(db, f, file), file) : TimesFit(g, file)
<1> DEFINE a == UpdateAgencies(db, f, file)
           s == UpdateStops(UpdateRoutes(UpdateAgencies(db, f, file), f, file), f, file)
           e == UpToTrips(db, f, file)
<1>1. /\ DOMAIN db = Tables /\ Closed(db) /\ Valid(db)
      /\ UniqueIDs(db.services) /\ UniqueIDs(db.shapes) /\ KeyedTrips(db.trips)
      /\ \A t \in db.trips : TripRecord(t)
  BY DEF SchemaInv, Valid, Closed, KeyedTrips
<1>2. /\ a.agencies = Upsert(db.agencies, f, file.agencies)
      /\ \A t \in Tables \ {"agencies"} : a[t] = db[t]
  BY <1>1, AgenciesTables
<1>3. /\ s.agencies = Upsert(db.agencies, f, file.agencies)
      /\ s.routes = Upsert(db.routes, f, file.routes)
      /\ s.stops = Upsert(db.stops, f, Cleared(file))
      /\ s.services = db.services /\ s.shapes = db.shapes
  BY <1>1, StopsStage
<1>4. /\ \E d2, d3, d6, d7 : /\ Course(db, f, file, d2, d3, d6, d7)
                             /\ s.trips = d3.trips
                             /\ e.trips = d7.trips \cup Inserted(file)
      /\ s.transfers \subseteq db.transfers
      /\ e.transfers \subseteq {x \in db.transfers : x.feed # f} \cup Resolved(f, file)
  BY <1>1, UpdateRows
<1>5. /\ DOMAIN e = Tables
      /\ \A t \in Owned : e[t] = Upsert(db[t], f, file[t])
      /\ e.rules = Of(db.rules, IDs(db.stops) \cap IDs(e.stops))
      /\ \A b : b.stop \notin Written(db, f, file) =>
           (b \in e.boarding <=> b \in Of(db.boarding, IDs(db.stops) \cap IDs(e.stops)))
  BY <1>1, UpdateTables
<1>6. Succeeds(db, f, file) <=> Valid(a) /\ Valid(s) /\ Valid(e)
  BY DEF Succeeds
<1> HIDE DEF a, s, e
<1>7. PICK d2, d3, d6, d7 : /\ Course(db, f, file, d2, d3, d6, d7)
                            /\ s.trips = d3.trips
                            /\ e.trips = d7.trips \cup Inserted(file)
  BY <1>4
<1>8. /\ \A r \in d7.trips : /\ r.service \in IDs(Others(db.services, f, file.services))
                             /\ \E t \in db.trips : From(r, t)
      /\ KeyedTrips(d3.trips) /\ KeyedTrips(d7.trips)
  BY <1>1, <1>7, CourseBack
<1>9. Valid(a)
  <2>1. \A r \in a.routes : r.ref \in IDs(a.agencies)
    BY <1>2, AgenciesAreFound DEF Tables
  <2>2. QED
    BY <1>1, <1>2, <2>1 DEF Valid, Tables
<1>10. Valid(s)
  <2>1. \A r \in s.routes : r.ref \in IDs(s.agencies)
    BY <1>3, AgenciesAreFound
  <2>2. \A q \in s.stops : q.ref \in IDs(s.stops) \cup {None}
    <3>1. \A q \in RowsOf(f, Cleared(file)) : q.ref = None
      BY DEF RowsOf, Cleared
    <3>2. QED
      BY <1>3, <3>1, ParentsAreFound DEF Upsert
  <2>3. \A x, y \in s.transfers : x.from = y.from /\ x.to = y.to => x = y
    BY <1>1, <1>4 DEF Valid
  <2>4. QED
    BY <1>1, <1>3, <1>7, <1>8, <2>1, <2>2, <2>3 DEF Valid, KeyedTrips
<1>11. \A r \in d7.trips : r.id \notin IDs(file.trips)
  <2> SUFFICES ASSUME NEW r \in d7.trips PROVE r.id \notin IDs(file.trips)
    OBVIOUS
  <2>1. PICK v \in db.services : v.feed # f /\ v.id = r.service
    BY <1>8 DEF IDs, Others
  <2>2. PICK t \in db.trips : From(r, t)
    BY <1>8
  <2>3. t.id = r.id /\ t.service = v.id
    BY <2>1, <2>2 DEF From
  <2>4. QED
    BY <2>1, <2>3 DEF Independent
<1>12. \A r \in Inserted(file) : r.times = {} /\ r.id \in IDs(file.trips)
  BY DEF Inserted, IDs
<1>13. \A r, q \in Inserted(file) : r.id = q.id => r = q
  <2> SUFFICES ASSUME NEW r \in Inserted(file), NEW q \in Inserted(file), r.id = q.id
               PROVE  r = q
    OBVIOUS
  <2>1. PICK t \in file.trips : r = [id |-> t.id, route |-> t.route, service |-> t.service,
                                     shape |-> t.shape, times |-> {}]
    BY DEF Inserted
  <2>2. PICK u \in file.trips : q = [id |-> u.id, route |-> u.route, service |-> u.service,
                                     shape |-> u.shape, times |-> {}]
    BY DEF Inserted
  <2>3. t = u
    BY <2>1, <2>2 DEF WellFormed, UniqueIDs
  <2>4. QED
    BY <2>1, <2>2, <2>3
<1>14. Valid(e)
  <2>1. UniqueIDs(file.services) /\ UniqueIDs(file.shapes)
    BY DEF WellFormed
  <2>2. /\ e.agencies = Upsert(db.agencies, f, file.agencies)
        /\ e.routes = Upsert(db.routes, f, file.routes)
        /\ e.stops = Upsert(db.stops, f, file.stops)
        /\ e.services = Upsert(db.services, f, file.services)
        /\ e.shapes = Upsert(db.shapes, f, file.shapes)
    BY <1>5 DEF Owned
  <2>3. UniqueIDs(e.services) /\ UniqueIDs(e.shapes)
    BY <1>1, <2>1, <2>2, UpsertIsUnique
  <2>4. \A r \in e.routes : r.ref \in IDs(e.agencies)
    BY <2>2, AgenciesAreFound
  <2>5. \A q \in e.stops : q.ref \in IDs(e.stops) \cup {None}
    <3>1. \A q \in RowsOf(f, file.stops) : q.ref \in IDs(file.stops) \cup {None}
      BY DEF RowsOf, WellFormed
    <3>2. IDs(file.stops) \subseteq IDs(e.stops)
      BY <2>2, UpsertIDs
    <3>3. \A q \in Others(db.stops, f, file.stops) : q.ref \in IDs(e.stops) \cup {None}
      BY <2>2, ParentsAreFound
    <3>4. QED
      BY <2>2, <3>1, <3>2, <3>3 DEF Upsert
  <2>6. \A x, y \in e.transfers : x.from = y.from /\ x.to = y.to => x = y
    BY <1>4, TransfersAreKeyed
  <2>7. \A t, q \in e.trips : t.route = q.route /\ t.id = q.id => t = q
    BY <1>7, <1>8, <1>11, <1>12, <1>13 DEF KeyedTrips
  <2>8. QED
    BY <2>3, <2>4, <2>5, <2>6, <2>7 DEF Valid
<1>15. ASSUME NEW g \in TripIDToPk(e, file) PROVE TimesFit(g, file)
  <2>1. ASSUME NEW t \in file.trips PROVE g[t].times = {}
    <3>1. g[t] \in e.trips /\ g[t].id = t.id
      BY DEF TripIDToPk
    <3>2. t.id \in IDs(file.trips)
      BY DEF IDs
    <3>3. QED
      BY <1>7, <1>11, <1>12, <3>1, <3>2
  <2>2. QED
    BY <2>1 DEF TimesFit
<1>16. QED
  BY <1>6, <1>9, <1>10, <1>14, <1>15 DEF e

\* For any feeds and files an update fails only for the reasons stated.
THEOREM IndependentUpdatesDoSucceed == Spec => []IndependentUpdatesSucceed
<1>1. SchemaInv => IndependentUpdatesSucceed
  <2> SUFFICES ASSUME SchemaInv, NEW f \in StaticFeeds, NEW file \in Files[f]
               PROVE  /\ Independent(f, file) /\ AgenciesStay(f, file) =>
                           /\ Succeeds(db, f, file)
                           /\ \A g \in TripIDToPk(UpToTrips(db, f, file), file) : TimesFit(g, file)
                      /\ Succeeds(db, f, file) => AgenciesStay(f, file)
    BY DEF IndependentUpdatesSucceed
  <2>1. WellFormed(file)
    BY FilesAssumption
  <2>2. QED
    BY <2>1, IndependentSucceeds, SucceedsKeepsAgencies
<1>2. QED
  BY <1>1, InitSchema, InitFiles, SchemaStep, FilesStep, PTL DEF Spec
-----------------------------------------------------------------------------
(***************************************************************************)
(* The trips of the files.                                                 *)
(***************************************************************************)

\* A stored trip is of the feed that has its service: its ID is in the latest
\* file of that feed.
OriginInv ==
  \A r \in db.trips : \E f \in StaticFeeds :
    /\ Stored(f) /\ r.id \in IDs(stored[f].trips)
    /\ \E v \in db.services : v.id = r.service /\ v.feed = f

\* A trip is another, with the stop times the file has for it.
TimedAs(w, r, p, file) ==
  /\ TripRecord(w)
  /\ w.id = r.id /\ w.route = r.route /\ w.service = r.service
  /\ w.shape = r.shape /\ w.times = r.times \cup Added(p, file, r)

\* The trips after an update: those that stayed and those of the file, with
\* the stop times of the file.
LEMMA UpdateTrips ==
  ASSUME SchemaInv, FilesAreServed, NEW f \in Feeds, Update(f)
  PROVE  \E d2, d3, d6, d7, p :
           /\ Course(db, f, served[f], d2, d3, d6, d7)
           /\ \A t \in served[f].trips :
                p[t] \in d7.trips \cup Inserted(served[f]) /\ p[t].id = t.id
           /\ db'.trips = {WithTimes(p, served[f], r) : r \in d7.trips \cup Inserted(served[f])}
           /\ \A r \in d7.trips \cup Inserted(served[f]) :
                TimedAs(WithTimes(p, served[f], r), r, p, served[f])
<1> DEFINE file == served[f]
           e == UpToTrips(db, f, file)
<1>1. PICK p \in TripIDToPk(e, file) :
        TimesFit(p, file) /\ db' = UpdateStaticMaps(InsertTimes(e, p, file), f, file)
  BY DEF Update
<1>2. DOMAIN db = Tables /\ Closed(db) /\ f \in StaticFeeds
  BY DEF SchemaInv, Update, FilesAreServed
<1>3. WellFormed(file)
  BY <1>2, FilesAssumption DEF FilesAreServed
<1>4. /\ Closed(e)
      /\ \E d2, d3, d6, d7 : /\ Course(db, f, file, d2, d3, d6, d7)
                             /\ e.trips = d7.trips \cup Inserted(file)
  BY <1>2, <1>3, UpdateRows
<1>5. DOMAIN e = Tables
  BY <1>2, UpdateTables
<1>6. \A t \in file.trips : p[t] \in e.trips /\ p[t].id = t.id
  BY <1>1 DEF TripIDToPk
<1> HIDE DEF e, file
<1>7. db'.trips = {WithTimes(p, file, r) : r \in e.trips}
  BY <1>1, <1>5, TimesRows DEF Tables
<1>8. \A r \in e.trips : TimedAs(WithTimes(p, file, r), r, p, file)
  BY <1>1, <1>3, <1>4, <1>6, WithTimesIs DEF Closed, TimedAs
<1>9. PICK d2, d3, d6, d7 : /\ Course(db, f, file, d2, d3, d6, d7)
                            /\ e.trips = d7.trips \cup Inserted(file)
  BY <1>4
<1>10. /\ \A t \in file.trips : p[t] \in d7.trips \cup Inserted(file) /\ p[t].id = t.id
       /\ db'.trips = {WithTimes(p, file, r) : r \in d7.trips \cup Inserted(file)}
       /\ \A r \in d7.trips \cup Inserted(file) : TimedAs(WithTimes(p, file, r), r, p, file)
  BY <1>6, <1>7, <1>8, <1>9
<1>11. QED
  BY <1>9, <1>10 DEF file

\* The trips after the deletion of a feed.
LEMMA DeletedTrips ==
  ASSUME FilesAreServed, NEW f, DeleteFeed(f)
  PROVE  /\ \A t \in Owned : db'[t] = NotOf(db[t], f)
         /\ db'.trips = CutTrips(db.trips, db')
<1> DEFINE c == [db EXCEPT !.agencies = {r \in @ : r.feed # f}, !.routes = {r \in @ : r.feed # f},
                   !.stops = {r \in @ : r.feed # f}, !.services = {r \in @ : r.feed # f},
                   !.shapes = {r \in @ : r.feed # f}, !.transfers = {r \in @ : r.feed # f},
                   !.rules = {r \in @ : r.feed # f}]
<1>1. db' = Cascade(c) /\ db' = WithoutFeed(db, f)
  BY DEF DeleteFeed, WithoutFeed
<1>2. DOMAIN c = Tables /\ c.trips = db.trips
  BY DEF Tables, FilesAreServed
<1> HIDE DEF c
<1>3. db'.trips = CutTrips(db.trips, c) /\ \A t \in Owned : db'[t] = c[t]
  <2>1. Cascade(c).trips = CutTrips(c.trips, c)
    BY <1>2, CascadeRows
  <2>2. \A t \in Owned : Cascade(c)[t] = c[t]
    BY <1>2, CascadeTables
  <2>3. QED
    BY <1>1, <1>2, <2>1, <2>2
<1>4. CutTrips(db.trips, c) = CutTrips(db.trips, db')
  <2>1. db'.routes = c.routes /\ db'.services = c.services /\ db'.shapes = c.shapes
        /\ db'.stops = c.stops
    BY <1>3 DEF Owned
  <2>2. QED
    BY <2>1 DEF CutTrips, Cut
<1>5. \A t \in Owned : db'[t] = NotOf(db[t], f)
  BY <1>1, WithoutFeedTables DEF FilesAreServed
<1>6. QED
  BY <1>3, <1>4, <1>5

\* A trip that stays in the course of an update is of another feed.
LEMMA StayedIsOfAnother ==
  ASSUME SchemaInv, OriginInv, NEW g, NEW file, NEW d2, NEW d3, NEW d6, NEW d7,
         Course(db, g, file, d2, d3, d6, d7), NEW r \in d7.trips
  PROVE  \E f \in StaticFeeds \ {g} :
           /\ Stored(f) /\ r.id \in IDs(stored[f].trips)
           /\ \E v \in Others(db.services, g, file.services) : v.id = r.service /\ v.feed = f
<1>1. \A t \in db.trips : TripRecord(t)
  BY DEF SchemaInv, Closed
<1>2. r.service \in IDs(Others(db.services, g, file.services)) /\ \E t \in db.trips : From(r, t)
  BY <1>1, CourseBack
<1>3. PICK v \in Others(db.services, g, file.services) : v.id = r.service
  BY <1>2 DEF IDs
<1>4. PICK t \in db.trips : From(r, t)
  BY <1>2
<1>5. PICK f \in StaticFeeds : /\ Stored(f) /\ t.id \in IDs(stored[f].trips)
                               /\ \E w \in db.services : w.id = t.service /\ w.feed = f
  BY DEF OriginInv
<1>6. PICK w \in db.services : w.id = t.service /\ w.feed = f
  BY <1>5
<1>7. t.id = r.id /\ t.service = r.service
  BY <1>4 DEF From
<1>8. v \in db.services /\ v.feed # g
  BY <1>3 DEF Others
<1>9. v = w
  BY <1>3, <1>6, <1>7, <1>8 DEF SchemaInv, Owned, UniqueIDs
<1>10. QED
  BY <1>3, <1>5, <1>6, <1>7, <1>8, <1>9

\* Where trips come from is kept by every step.
LEMMA OriginStep ==
  ASSUME SchemaInv, FilesAreServed, OriginInv, [Next]_vars
  PROVE  OriginInv'
<1>1. CASE UNCHANGED vars
  BY <1>1 DEF OriginInv, Stored, vars
<1>2. ASSUME NEW g \in Feeds, NEW file \in Files[g], Serve(g, file)
      PROVE  OriginInv'
  BY <1>2 DEF Serve, OriginInv, Stored
<1>3. ASSUME NEW g \in Feeds, Update(g)
      PROVE  OriginInv'
  <2> DEFINE file == served[g]
  <2>1. PICK d2, d3, d6, d7, p :
           /\ Course(db, g, file, d2, d3, d6, d7)
           /\ \A t \in file.trips : p[t] \in d7.trips \cup Inserted(file) /\ p[t].id = t.id
           /\ db'.trips = {WithTimes(p, file, r) : r \in d7.trips \cup Inserted(file)}
           /\ \A r \in d7.trips \cup Inserted(file) : TimedAs(WithTimes(p, file, r), r, p, file)
    BY <1>3, UpdateTrips
  <2>2. \A t \in Owned : db'[t] = Upsert(db[t], g, file[t])
    BY <1>3, UpdateEffect DEF FilesAreServed
  <2>3. /\ g \in StaticFeeds /\ stored' = [stored EXCEPT ![g] = file]
        /\ file \in Files[g] /\ file # None
    BY <1>3, NoneAssumption DEF Update, FilesAreServed
  <2>4. WellFormed(file)
    BY <2>3, FilesAssumption
  <2> HIDE DEF file
  <2>5. db'.services = Others(db.services, g, file.services) \cup RowsOf(g, file.services)
    BY <2>2 DEF Owned, Upsert
  <2>6. stored'[g] = file /\ \A f \in StaticFeeds \ {g} : stored'[f] = stored[f]
    BY <2>3 DEF FilesAreServed
  <2>7. ASSUME NEW w \in db'.trips
        PROVE  \E f \in StaticFeeds :
                 /\ Stored(f)' /\ w.id \in IDs(stored'[f].trips)
                 /\ \E v \in db'.services : v.id = w.service /\ v.feed = f
    <3>1. PICK r \in d7.trips \cup Inserted(file) : w = WithTimes(p, file, r)
      BY <2>1
    <3>2. w.id = r.id /\ w.service = r.service
      BY <2>1, <3>1 DEF TimedAs
    <3>3. CASE r \in d7.trips
      <4>1. PICK f \in StaticFeeds \ {g} :
              /\ Stored(f) /\ r.id \in IDs(stored[f].trips)
              /\ \E v \in Others(db.services, g, file.services) : v.id = r.service /\ v.feed = f
        BY <2>1, <3>3, StayedIsOfAnother
      <4>2. QED
        BY <2>5, <2>6, <3>2, <4>1 DEF Stored
    <3>4. CASE r \in Inserted(file)
      <4>1. r.id \in IDs(file.trips) /\ r.service \in IDs(file.services)
        BY <2>4, <3>4 DEF Inserted, WellFormed, IDs
      <4>2. PICK x \in file.services : x.id = r.service
        BY <4>1 DEF IDs
      <4>3. [id |-> x.id, feed |-> g, ref |-> x.ref] \in db'.services
        BY <2>5 DEF RowsOf
      <4>4. \E v \in db'.services : v.id = w.service /\ v.feed = g
        BY <3>2, <4>2, <4>3
      <4>5. QED
        BY <2>3, <2>6, <3>2, <4>1, <4>4 DEF Stored
    <3>5. QED
      BY <3>1, <3>3, <3>4
  <2>8. QED
    BY <2>7 DEF OriginInv
<1>4. ASSUME NEW g \in Feeds, UpdateCsv(g)
      PROVE  OriginInv'
  <2>1. db'.trips = db.trips /\ db'.services = db.services
    BY <1>4 DEF UpdateCsv, FilesAreServed, Tables
  <2>2. \A f \in StaticFeeds : stored'[f] = stored[f]
    BY <1>4 DEF UpdateCsv, StaticFeeds, FilesAreServed
  <2>3. QED
    BY <2>1, <2>2 DEF OriginInv, Stored
<1>5. ASSUME NEW g \in Feeds, DeleteFeed(g)
      PROVE  OriginInv'
  <2>1. /\ \A t \in Owned : db'[t] = NotOf(db[t], g)
        /\ db'.trips = CutTrips(db.trips, db')
    BY <1>5, DeletedTrips
  <2>2. db'.services = NotOf(db.services, g)
    BY <2>1 DEF Owned
  <2>3. \A f \in StaticFeeds \ {g} : stored'[f] = stored[f]
    BY <1>5 DEF DeleteFeed, FilesAreServed
  <2>4. \A t \in db.trips : TripRecord(t)
    BY DEF SchemaInv, Closed
  <2>5. ASSUME NEW r \in db'.trips
        PROVE  \E f \in StaticFeeds :
                 /\ Stored(f)' /\ r.id \in IDs(stored'[f].trips)
                 /\ \E v \in db'.services : v.id = r.service /\ v.feed = f
    <3>1. r.service \in IDs(db'.services) /\ \E t \in db.trips : From(r, t)
      BY <2>1, <2>4, CutBack
    <3>2. PICK v \in db'.services : v.id = r.service
      BY <3>1 DEF IDs
    <3>3. PICK t \in db.trips : From(r, t)
      BY <3>1
    <3>4. PICK f \in StaticFeeds : /\ Stored(f) /\ t.id \in IDs(stored[f].trips)
                                   /\ \E w \in db.services : w.id = t.service /\ w.feed = f
      BY DEF OriginInv
    <3>5. PICK w \in db.services : w.id = t.service /\ w.feed = f
      BY <3>4
    <3>6. t.id = r.id /\ t.service = r.service
      BY <3>3 DEF From
    <3>7. v \in db.services /\ v.feed # g
      BY <2>2, <3>2 DEF NotOf
    <3>8. v = w
      BY <3>2, <3>5, <3>6, <3>7 DEF SchemaInv, Owned, UniqueIDs
    <3>9. f # g
      BY <3>5, <3>7, <3>8
    <3>10. QED
      BY <2>3, <3>2, <3>4, <3>5, <3>6, <3>8, <3>9 DEF Stored
  <2>6. QED
    BY <2>5 DEF OriginInv
<1>6. QED
  BY <1>1, <1>2, <1>3, <1>4, <1>5 DEF Next

\* A stored trip is a trip of feed f's latest file, up to what hangs on rows
\* that another feed has too.
Follows(f, t, r) ==
  /\ r.id = t.id /\ r.route = t.route /\ r.service = t.service
  /\ r.times \subseteq t.times
  /\ t.shape \in IDs(Unshared(f, "shapes")) => r.shape = t.shape
  /\ \A x \in t.times : x[2] \in IDs(Unshared(f, "stops")) => x \in r.times

\* A trip that follows the file does so after other rows are deleted, if those
\* of its feed stay.
LEMMA StaysFollows ==
  ASSUME NEW f, NEW t, NEW q, Follows(f, t, q), NEW r, NEW stops, NEW shapes,
         Stays(q, r, stops, shapes),
         IDs(Unshared(f, "stops")) \subseteq stops, IDs(Unshared(f, "shapes")) \subseteq shapes
  PROVE  Follows(f, t, r)
BY DEF Follows, Stays, From

\* The rows that no other feed has an ID of stay, whatever file another feed is
\* updated with, and if it is deleted.
LEMMA UnsharedStay ==
  ASSUME RowsAreTheFiles, NEW f \in StaticFeeds, Stored(f), NEW T \in Owned, NEW g, g # f
  PROVE  /\ IDs(Unshared(f, T)) \subseteq IDs(NotOf(db[T], g))
         /\ g \in StaticFeeds => \A file \in Files[g] :
              IDs(Unshared(f, T)) \subseteq IDs(Others(db[T], g, file[T]))
<1>1. RowsOf(f, Unshared(f, T)) \subseteq {r \in db[T] : r.feed = f}
  BY DEF RowsAreTheFiles, Owned
<1>2. ASSUME NEW i \in IDs(Unshared(f, T))
      PROVE  \E r \in db[T] : r.feed = f /\ r.id = i
  <2>1. PICK u \in Unshared(f, T) : u.id = i
    BY DEF IDs
  <2>2. [id |-> u.id, feed |-> f, ref |-> u.ref] \in RowsOf(f, Unshared(f, T))
    BY DEF RowsOf
  <2>3. QED
    BY <1>1, <2>1, <2>2
<1>3. ASSUME NEW i \in IDs(Unshared(f, T)) PROVE i \in IDs(NotOf(db[T], g))
  BY <1>2 DEF IDs, NotOf
<1>4. ASSUME NEW i \in IDs(Unshared(f, T)), g \in StaticFeeds, NEW file \in Files[g]
      PROVE  i \in IDs(Others(db[T], g, file[T]))
  <2>1. i \notin IDs(file[T])
    BY <1>4 DEF Unshared, IDs
  <2>2. QED
    BY <1>2, <2>1 DEF IDs, Others
<1>5. QED
  BY <1>3, <1>4

\* The trips of the feed that is updated.
LEMMA UpdatedTrips ==
  ASSUME SchemaInv, FilesAreServed, OriginInv, NEW g \in Feeds, Update(g),
         NEW t \in Unshared(g, "trips")'
  PROVE  \E r \in db'.trips : Follows(g, t, r)'
<1> DEFINE file == served[g]
<1>1. PICK d2, d3, d6, d7, p :
         /\ Course(db, g, file, d2, d3, d6, d7)
         /\ \A u \in file.trips : p[u] \in d7.trips \cup Inserted(file) /\ p[u].id = u.id
         /\ db'.trips = {WithTimes(p, file, r) : r \in d7.trips \cup Inserted(file)}
         /\ \A r \in d7.trips \cup Inserted(file) : TimedAs(WithTimes(p, file, r), r, p, file)
  BY UpdateTrips
<1>2. /\ g \in StaticFeeds /\ stored'[g] = file
      /\ \A f \in StaticFeeds : Stored(f) => stored[f] \in Files[f]
  BY DEF Update, FilesAreServed, Stored, StaticFeeds
<1>3. WellFormed(file)
  BY <1>2, FilesAssumption DEF FilesAreServed
<1> HIDE DEF file
<1>4. /\ t \in file.trips
      /\ \A f \in StaticFeeds \ {g} : Stored(f) => t.id \notin IDs(stored[f].trips)
  BY <1>2 DEF Unshared
<1>5. p[t] \in Inserted(file)
  <2>1. p[t] \in d7.trips \cup Inserted(file) /\ p[t].id = t.id
    BY <1>1, <1>4
  <2>2. ASSUME p[t] \in d7.trips PROVE FALSE
    BY <1>1, <1>4, <2>1, <2>2, StayedIsOfAnother
  <2>3. QED
    BY <2>1, <2>2
<1>6. p[t] = [id |-> t.id, route |-> t.route, service |-> t.service, shape |-> t.shape,
              times |-> {}]
  <2>1. PICK u \in file.trips : p[t] = [id |-> u.id, route |-> u.route, service |-> u.service,
                                        shape |-> u.shape, times |-> {}]
    BY <1>5 DEF Inserted
  <2>2. u.id = t.id
    BY <1>1, <1>4, <2>1
  <2>3. u = t
    BY <1>3, <1>4, <2>2 DEF WellFormed, UniqueIDs
  <2>4. QED
    BY <2>1, <2>3
<1>7. Added(p, file, p[t]) = t.times
  <2>1. ASSUME NEW u \in file.trips, p[u] = p[t] PROVE u = t
    <3>1. u.id = t.id
      BY <1>1, <1>4, <2>1
    <3>2. QED
      BY <1>3, <1>4, <3>1 DEF WellFormed, UniqueIDs
  <2>2. QED
    BY <1>4, <2>1 DEF Added
<1>8. PICK w \in db'.trips : TimedAs(w, p[t], p, file)
  BY <1>1, <1>5
<1>9. w.times = t.times
  BY <1>6, <1>7, <1>8 DEF TimedAs
<1>10. w.id = t.id /\ w.route = t.route /\ w.service = t.service /\ w.shape = t.shape
  BY <1>6, <1>8 DEF TimedAs
<1>11. Follows(g, t, w)'
  BY <1>9, <1>10 DEF Follows
<1>12. QED
  BY <1>11

\* The trips of another feed.
LEMMA OtherTrips ==
  ASSUME SchemaInv, FilesAreServed, RowsAreTheFiles, NEW g \in Feeds, Update(g),
         NEW f \in StaticFeeds, f # g, Stored(f), NEW t \in Unshared(f, "trips"),
         t.route \in IDs(Unshared(f, "routes")), t.service \in IDs(Unshared(f, "services")),
         NEW q \in db.trips, Follows(f, t, q)
  PROVE  \E r \in db'.trips : Follows(f, t, r)
<1> DEFINE file == served[g]
<1>1. PICK d2, d3, d6, d7, p :
         /\ Course(db, g, file, d2, d3, d6, d7)
         /\ \A u \in file.trips : p[u] \in d7.trips \cup Inserted(file) /\ p[u].id = u.id
         /\ db'.trips = {WithTimes(p, file, r) : r \in d7.trips \cup Inserted(file)}
         /\ \A r \in d7.trips \cup Inserted(file) : TimedAs(WithTimes(p, file, r), r, p, file)
  BY UpdateTrips
<1>2. g \in StaticFeeds /\ file \in Files[g]
  BY DEF Update, FilesAreServed
<1> HIDE DEF file
<1>3. /\ IDs(Unshared(f, "routes")) \subseteq IDs(Others(db.routes, g, file.routes))
      /\ IDs(Unshared(f, "services")) \subseteq IDs(Others(db.services, g, file.services))
      /\ IDs(Unshared(f, "stops")) \subseteq IDs(Others(db.stops, g, file.stops))
      /\ IDs(Unshared(f, "shapes")) \subseteq IDs(Others(db.shapes, g, file.shapes))
  BY <1>2, UnsharedStay DEF Owned
<1>4. q.route = t.route /\ q.service = t.service /\ TripRecord(q)
  BY DEF Follows, SchemaInv, Closed
<1>5. PICK r \in d7.trips : Stays(q, r, IDs(Others(db.stops, g, file.stops)),
                                  IDs(Others(db.shapes, g, file.shapes)))
  BY <1>1, <1>3, <1>4, CourseForward
<1>6. Follows(f, t, r)
  BY <1>3, <1>5, StaysFollows
<1>7. Added(p, file, r) = {}
  <2>1. \A u \in file.trips : u.id # t.id
    BY <1>2 DEF Unshared, IDs
  <2>2. \A u \in file.trips : p[u] # r
    BY <1>1, <1>6, <2>1 DEF Follows
  <2>3. QED
    BY <2>2 DEF Added
<1>8. PICK w \in db'.trips : TimedAs(w, r, p, file)
  BY <1>1
<1>9. w.times = r.times
  BY <1>7, <1>8 DEF TimedAs
<1>10. Follows(f, t, w)
  BY <1>6, <1>8, <1>9 DEF TimedAs, Follows
<1>11. QED
  BY <1>8, <1>10

\* The trips of the files are kept by every step.
LEMMA TripsStep ==
  ASSUME SchemaInv, FilesAreServed, OriginInv, RowsAreTheFiles, TripsAreTheFiles, [Next]_vars
  PROVE  TripsAreTheFiles'
<1> DEFINE Hangs(f, t) == /\ t.route \in IDs(Unshared(f, "routes"))
                          /\ t.service \in IDs(Unshared(f, "services"))
           Good(f) == Stored(f) => \A t \in Unshared(f, "trips") :
                        Hangs(f, t) => \E r \in db.trips : Follows(f, t, r)
<1>g. TripsAreTheFiles <=> \A f \in StaticFeeds : Good(f)
  BY DEF TripsAreTheFiles, Follows
<1>h. TripsAreTheFiles' <=> \A f \in StaticFeeds : Good(f)'
  BY DEF TripsAreTheFiles, Follows
<1>s. ASSUME NEW f \in StaticFeeds, stored'[f] = stored[f]
      PROVE  /\ Stored(f)' <=> Stored(f)
             /\ \A T : Unshared(f, T)' = Unshared(f, T)
             /\ \A t, r : Follows(f, t, r)' <=> Follows(f, t, r)
  <2>1. \A T : Unshared(f, T)' = Unshared(f, T)
    BY <1>s DEF Unshared
  <2>2. QED
    BY <1>s, <2>1 DEF Stored, Follows
<1>1. ASSUME db'.trips = db.trips, \A f \in StaticFeeds : stored'[f] = stored[f]
      PROVE  TripsAreTheFiles'
  <2> SUFFICES ASSUME NEW f \in StaticFeeds PROVE Good(f)'
    BY <1>h
  <2>1. Good(f)
    BY <1>g
  <2>2. QED
    BY <1>1, <1>s, <2>1
<1>2. CASE UNCHANGED vars
  BY <1>1, <1>2 DEF vars
<1>3. ASSUME NEW g \in Feeds, NEW file \in Files[g], Serve(g, file)
      PROVE  TripsAreTheFiles'
  BY <1>1, <1>3 DEF Serve
<1>4. ASSUME NEW g \in Feeds, UpdateCsv(g)
      PROVE  TripsAreTheFiles'
  <2>1. db'.trips = db.trips
    BY <1>4 DEF UpdateCsv, FilesAreServed, Tables
  <2>2. \A f \in StaticFeeds : stored'[f] = stored[f]
    BY <1>4 DEF UpdateCsv, StaticFeeds, FilesAreServed
  <2>3. QED
    BY <1>1, <2>1, <2>2
<1>5. ASSUME NEW g \in Feeds, Update(g)
      PROVE  TripsAreTheFiles'
  <2> SUFFICES ASSUME NEW f \in StaticFeeds, Stored(f)', NEW t \in Unshared(f, "trips")',
                      Hangs(f, t)'
               PROVE  \E r \in db'.trips : Follows(f, t, r)'
    BY <1>h
  <2>1. CASE f = g
    BY <1>5, <2>1, UpdatedTrips
  <2>2. CASE f # g
    <3>1. stored'[f] = stored[f]
      BY <1>5, <2>2 DEF Update, FilesAreServed, StaticFeeds
    <3>2. Stored(f) /\ t \in Unshared(f, "trips") /\ Hangs(f, t)
      BY <1>s, <3>1
    <3>3. PICK q \in db.trips : Follows(f, t, q)
      BY <1>g, <3>2
    <3>4. PICK r \in db'.trips : Follows(f, t, r)
      BY <1>5, <2>2, <3>2, <3>3, OtherTrips
    <3>5. QED
      BY <1>s, <3>1, <3>4
  <2>3. QED
    BY <2>1, <2>2
<1>6. ASSUME NEW g \in Feeds, DeleteFeed(g)
      PROVE  TripsAreTheFiles'
  <2> SUFFICES ASSUME NEW f \in StaticFeeds, Stored(f)', NEW t \in Unshared(f, "trips")',
                      Hangs(f, t)'
               PROVE  \E r \in db'.trips : Follows(f, t, r)'
    BY <1>h
  <2>1. f # g
    BY <1>6 DEF DeleteFeed, FilesAreServed, Stored
  <2>2. stored'[f] = stored[f]
    BY <1>6, <2>1 DEF DeleteFeed, FilesAreServed, StaticFeeds
  <2>3. Stored(f) /\ t \in Unshared(f, "trips") /\ Hangs(f, t)
    BY <1>s, <2>2
  <2>4. PICK q \in db.trips : Follows(f, t, q)
    BY <1>g, <2>3
  <2>5. /\ db'.routes = NotOf(db.routes, g) /\ db'.services = NotOf(db.services, g)
        /\ db'.stops = NotOf(db.stops, g) /\ db'.shapes = NotOf(db.shapes, g)
        /\ db'.trips = CutTrips(db.trips, db')
    BY <1>6, DeletedTrips DEF Owned
  <2>6. /\ IDs(Unshared(f, "routes")) \subseteq IDs(db'.routes)
        /\ IDs(Unshared(f, "services")) \subseteq IDs(db'.services)
        /\ IDs(Unshared(f, "stops")) \subseteq IDs(db'.stops)
        /\ IDs(Unshared(f, "shapes")) \subseteq IDs(db'.shapes)
    BY <2>1, <2>3, <2>5, UnsharedStay DEF Owned
  <2>7. q.route = t.route /\ q.service = t.service /\ TripRecord(q)
    BY <2>4 DEF Follows, SchemaInv, Closed
  <2>8. PICK r \in db'.trips : Stays(q, r, IDs(db'.stops), IDs(db'.shapes))
    BY <2>3, <2>5, <2>6, <2>7, CutForward
  <2>9. Follows(f, t, r)
    BY <2>4, <2>6, <2>8, StaysFollows
  <2>10. QED
    BY <1>s, <2>2, <2>8, <2>9
<1>7. QED
  BY <1>2, <1>3, <1>4, <1>5, <1>6 DEF Next

\* The trips of a feed's latest file are there, with all that hangs only on
\* rows of the feed: TripsAreTheFiles, for all feeds and files.
THEOREM TripsFollowTheFiles == Spec => []TripsAreTheFiles
<1>1. Init => RowsAreTheFiles /\ OriginInv /\ TripsAreTheFiles
  <2> SUFFICES ASSUME Init PROVE RowsAreTheFiles /\ OriginInv /\ TripsAreTheFiles
    OBVIOUS
  <2>1. db = Empty /\ \A f \in StaticFeeds : ~Stored(f)
    BY DEF Init, Stored, StaticFeeds
  <2>2. db.trips = {} /\ \A t \in Owned : db[t] = {}
    BY <2>1 DEF Empty, Owned
  <2>3. QED
    BY <2>1, <2>2 DEF RowsAreTheFiles, OriginInv, TripsAreTheFiles, Owned
<1>2. QED
  BY <1>1, InitSchema, InitFiles, SchemaStep, FilesStep, OriginStep, RowsStep, TripsStep, PTL DEF Spec
=============================================================================
