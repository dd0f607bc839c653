----------------------- MODULE RealtimeEntitiesProofs ------------------------
(***************************************************************************)
(* Theorems about RealtimeEntities, for every set of feeds and messages.   *)
(***************************************************************************)
EXTENDS RealtimeEntities, WellFoundedInduction, TLAPS

\* The latest message of a feed is one that it serves.
SeenOK ==
  /\ seen = [f \in Feeds |-> seen[f]] /\ placed = [f \in Feeds |-> placed[f]]
  /\ \A f \in Feeds : seen[f] \in Messages[f] \cup {Nothing}
-----------------------------------------------------------------------------
(* Alerts. *)

\* A feed without messages has no alerts and no vehicles.
LEMMA NothingIsEmpty == FirstAlerts(Nothing) = {} /\ Valid(Nothing) = {} /\ Nothing.trips = {}
BY DEF FirstAlerts, Valid, Nothing

\* Elements of sequences.
LEMMA SeqElements ==
  ASSUME NEW S, NEW s \in Seq(S)
  PROVE  /\ DOMAIN s = 1..Len(s) /\ Len(s) \in Nat
         /\ \A i \in DOMAIN s : i \in Nat /\ s[i] \in S
OBVIOUS

\* Of the first alerts of a message each ID has one, and they are among its alerts.
LEMMA FirstAlertsAreUnique ==
  ASSUME NEW f \in Feeds, NEW msg \in Messages[f]
  PROVE  /\ UniqueIDs(FirstAlerts(msg))
         /\ \A a \in FirstAlerts(msg) : a \in Elements(msg.alerts)
         /\ \A a \in FirstAlerts(msg) : a = [id |-> a.id, content |-> a.content]
<1>1. msg.alerts \in Seq([id : Alerts, content : Contents])
  BY MessagesAssumption DEF Message
<1>2. \A i \in DOMAIN msg.alerts : i \in Nat /\ msg.alerts[i] \in [id : Alerts, content : Contents]
  BY <1>1, SeqElements
<1>3. ASSUME NEW i \in DOMAIN msg.alerts, NEW j \in DOMAIN msg.alerts,
             \A k \in 1..(i - 1) : msg.alerts[k].id # msg.alerts[i].id,
             \A k \in 1..(j - 1) : msg.alerts[k].id # msg.alerts[j].id,
             msg.alerts[i].id = msg.alerts[j].id
      PROVE  i = j
  <2>1. i \in 1..Len(msg.alerts) /\ j \in 1..Len(msg.alerts) /\ Len(msg.alerts) \in Nat
    BY <1>1, SeqElements
  <2>2. ~(i < j) /\ ~(j < i)
    BY <1>3, <2>1
  <2>3. QED
    BY <2>1, <2>2
<1>4. UniqueIDs(FirstAlerts(msg))
  BY <1>3 DEF FirstAlerts, UniqueIDs
<1>5. \A a \in FirstAlerts(msg) : a \in Elements(msg.alerts)
  BY DEF FirstAlerts, Elements
<1>6. \A a \in FirstAlerts(msg) : a = [id |-> a.id, content |-> a.content]
  BY <1>2 DEF FirstAlerts
<1>7. QED
  BY <1>4, <1>5, <1>6

\* The columns of a row of alerts.
Columns(r) == [id |-> r.id, content |-> r.content, feed |-> r.feed, links |-> r.links]
SameAlert(r, a) == r.id = a.id /\ r.content = a.content /\ r.feed = a.feed

\* The deletion of trips changes nothing but the links of alerts.
LEMMA LinkedKeepsAlerts ==
  ASSUME NEW rows, NEW ts, \A r \in rows : r = Columns(r), UniqueIDs(rows)
  PROVE  /\ \A r \in Linked(rows, ts) : r = Columns(r) /\ \E a \in rows : SameAlert(r, a)
         /\ \A a \in rows : \E r \in Linked(rows, ts) : SameAlert(r, a)
         /\ UniqueIDs(Linked(rows, ts))
<1> DEFINE L(a) == [a EXCEPT !.links = @ \cap Keys(ts)]
<1>1. \A a \in rows : SameAlert(L(a), a) /\ L(a) = Columns(L(a))
  <2> SUFFICES ASSUME NEW a \in rows PROVE SameAlert(L(a), a) /\ L(a) = Columns(L(a))
    OBVIOUS
  <2>1. a = [id |-> a.id, content |-> a.content, feed |-> a.feed, links |-> a.links]
    BY DEF Columns
  <2>2. L(a) = [id |-> a.id, content |-> a.content, feed |-> a.feed, links |-> a.links \cap Keys(ts)]
    <3>1. DOMAIN a = {"id", "content", "feed", "links"}
      BY <2>1, Zenon
    <3>2. DOMAIN L(a) = {"id", "content", "feed", "links"}
      BY <3>1
    <3>3. L(a) = [x \in DOMAIN a |-> IF x = "links" THEN a.links \cap Keys(ts) ELSE a[x]]
      BY <3>1
    <3>4. QED
      BY <3>1, <3>3
  <2>3. QED
    BY <2>2 DEF SameAlert, Columns
<1>2. Linked(rows, ts) = {L(a) : a \in rows}
  BY DEF Linked
<1> HIDE DEF L
<1>3. QED
  BY <1>1, <1>2 DEF UniqueIDs, SameAlert

AlertRows(rows) == UniqueIDs(rows) /\ \A r \in rows : r = Columns(r) /\ r.feed \in Feeds

\* What updateAlerts leaves: rows of other feeds, and the alerts of the message.
LEMMA AlertsAfterUpdate ==
  ASSUME NEW f \in Feeds, NEW msg \in Messages[f], NEW rows, NEW ts, AlertRows(rows)
  PROVE  LET after == AlertsAfter(f, msg, rows, ts)
         IN /\ AlertRows(after)
            /\ \A r \in after :
                 \/ r \in rows /\ r.feed # f
                 \/ r.feed = f /\ [id |-> r.id, content |-> r.content] \in FirstAlerts(msg)
            /\ \A a \in FirstAlerts(msg) : \E r \in after : r.id = a.id /\ r.content = a.content
            /\ \A r \in rows : r.feed # f /\ r.id \notin IDs(FirstAlerts(msg)) => r \in after
<1> DEFINE first == FirstAlerts(msg)
           others == {r \in rows : r.feed # f /\ r.id \notin IDs(first)}
           same == Unchanged(rows, msg)
           changed == {b \in first : b.id \notin IDs(same)}
           links(a) == {Key(t) : t \in {s \in ts : s.id \in Informs[a.content]}}
           row(a) == [id |-> a.id, content |-> a.content, feed |-> f, links |-> links(a)]
           new == {row(a) : a \in changed}
           after == AlertsAfter(f, msg, rows, ts)
<1>1. after = others \cup same \cup new
  BY DEF AlertsAfter
<1>2. \A a \in changed : SameAlert(row(a), [id |-> a.id, content |-> a.content, feed |-> f])
                         /\ row(a) = Columns(row(a)) /\ row(a).feed = f
  BY DEF SameAlert, Columns
<1>3. /\ \A r \in others : r \in rows /\ r.feed # f /\ r.id \notin IDs(first)
      /\ \A r \in same : r \in rows /\ [id |-> r.id, content |-> r.content] \in first
  BY DEF Unchanged
<1>4. \A r \in new : /\ r = Columns(r) /\ r.feed = f /\ r.id \in IDs(first) \ IDs(same)
                     /\ [id |-> r.id, content |-> r.content] \in first
  <2> SUFFICES ASSUME NEW a \in changed
               PROVE  /\ row(a) = Columns(row(a)) /\ row(a).feed = f /\ row(a).id \in IDs(first) \ IDs(same)
                      /\ [id |-> row(a).id, content |-> row(a).content] \in first
    OBVIOUS
  <2>1. a = [id |-> a.id, content |-> a.content] /\ a \in first /\ a.id \notin IDs(same)
    BY FirstAlertsAreUnique
  <2>2. row(a).id = a.id /\ row(a).content = a.content
    OBVIOUS
  <2>3. a.id \in IDs(first)
    BY <2>1 DEF IDs
  <2>4. QED
    BY <1>2, <2>1, <2>2, <2>3
<1>5. \A r \in same : r.id \in IDs(first)
  <2> SUFFICES ASSUME NEW r \in same PROVE r.id \in {b.id : b \in first}
    BY DEF IDs
  <2>1. [id |-> r.id, content |-> r.content] \in first
    BY <1>3
  <2>2. [id |-> r.id, content |-> r.content].id = r.id
    OBVIOUS
  <2>3. QED
    BY <2>1, <2>2
<1>6. \A a, b \in new : a.id = b.id => a = b
  <2> SUFFICES ASSUME NEW a \in changed, NEW b \in changed, row(a).id = row(b).id PROVE row(a) = row(b)
    OBVIOUS
  <2>1. a = b
    BY FirstAlertsAreUnique DEF UniqueIDs
  <2>2. QED
    BY <2>1
<1>7. \A a \in first : a \in changed \/ \E r \in same : r.id = a.id /\ r.content = a.content
  <2> SUFFICES ASSUME NEW a \in first, NEW r \in same, a.id = r.id PROVE r.content = a.content
    BY DEF IDs
  <2>1. [id |-> r.id, content |-> r.content] = a
    BY <1>3, FirstAlertsAreUnique DEF UniqueIDs
  <2>2. QED
    BY <2>1
<1>8. \A a \in changed : row(a) \in new /\ row(a).id = a.id /\ row(a).content = a.content
  OBVIOUS
<1> HIDE DEF first, others, same, changed, new, row, after
<1>9. UniqueIDs(after)
  <2>1. \A r \in others : \A s \in same \cup new : r.id # s.id
    BY <1>3, <1>4, <1>5
  <2>2. \A r \in same : \A s \in new : r.id # s.id
    BY <1>4 DEF IDs
  <2>3. QED
    BY <1>1, <1>3, <1>6, <2>1, <2>2 DEF AlertRows, UniqueIDs
<1>10. \A r \in after : r = Columns(r) /\ r.feed \in Feeds
  BY <1>1, <1>3, <1>4 DEF AlertRows
<1>11. \A r \in after : \/ r \in rows /\ r.feed # f
                        \/ r.feed = f /\ [id |-> r.id, content |-> r.content] \in first
  BY <1>1, <1>3, <1>4
<1>12. \A a \in first : \E r \in after : r.id = a.id /\ r.content = a.content
  BY <1>1, <1>7, <1>8
<1>13. \A r \in rows : r.feed # f /\ r.id \notin IDs(first) => r \in after
  BY <1>1 DEF others
<1>14. QED
  BY <1>9, <1>10, <1>11, <1>12, <1>13 DEF AlertRows, after, first
-----------------------------------------------------------------------------
\* Who has an alert, and what it says.
AlertInv == AlertRows(alerts) /\ AlertsAreTheFeeds

\* An update leaves the alerts of the latest messages.
LEMMA UpdateKeepsAlerts ==
  ASSUME NEW f \in Feeds, NEW msg \in Messages[f], SeenOK, AlertInv, Update(f, msg)
  PROVE  AlertInv'
<1> DEFINE linked == Linked(alerts, trips')
<1>1. alerts' = AlertsAfter(f, msg, linked, trips') /\ seen' = [seen EXCEPT ![f] = msg]
  BY DEF Update
<1>2. AlertRows(linked) /\ \A r \in linked : \E a \in alerts : SameAlert(r, a)
  BY LinkedKeepsAlerts DEF AlertInv, AlertRows, SameAlert
<1>3. \A a \in alerts : \E r \in linked : SameAlert(r, a)
  BY LinkedKeepsAlerts DEF AlertInv, AlertRows
<1> HIDE DEF linked
<1>4. /\ AlertRows(alerts')
      /\ \A r \in alerts' :
           \/ r \in linked /\ r.feed # f
           \/ r.feed = f /\ [id |-> r.id, content |-> r.content] \in FirstAlerts(msg)
      /\ \A a \in FirstAlerts(msg) : \E r \in alerts' : r.id = a.id /\ r.content = a.content
      /\ \A r \in linked : r.feed # f /\ r.id \notin IDs(FirstAlerts(msg)) => r \in alerts'
  BY <1>1, <1>2, AlertsAfterUpdate
<1>5. /\ seen'[f] = msg
      /\ \A g \in Feeds \ {f} : seen'[g] = seen[g]
  BY <1>1 DEF SeenOK
<1>6. ASSUME NEW r \in alerts'
      PROVE  [id |-> r.id, content |-> r.content] \in FirstAlerts(seen'[r.feed])
  <2>1. CASE r.feed = f /\ [id |-> r.id, content |-> r.content] \in FirstAlerts(msg)
    BY <1>5, <2>1
  <2>2. CASE r \in linked /\ r.feed # f
    <3>1. PICK a \in alerts : SameAlert(r, a)
      BY <1>2, <2>2
    <3>2. [id |-> a.id, content |-> a.content] \in FirstAlerts(seen[a.feed]) /\ a.feed \in Feeds
      BY DEF AlertInv, AlertsAreTheFeeds, AlertRows
    <3>3. QED
      BY <1>5, <2>2, <3>1, <3>2 DEF SameAlert
  <2>3. QED
    BY <1>4, <2>1, <2>2
<1>7. ASSUME NEW g \in Feeds, NEW a \in FirstAlerts(seen'[g])
      PROVE  \/ \E r \in alerts' : r.id = a.id /\ r.content = a.content
             \/ \E h \in Feeds \ {g} : \E m \in Messages[h] : a.id \in IDs(Elements(m.alerts))
  <2>1. CASE g = f
    BY <1>4, <1>5, <2>1
  <2>2. CASE g # f /\ a.id \in IDs(FirstAlerts(msg))
    <3>1. a.id \in IDs(Elements(msg.alerts))
      BY <2>2, FirstAlertsAreUnique DEF IDs
    <3>2. QED
      BY <2>2, <3>1
  <2>3. CASE g # f /\ a.id \notin IDs(FirstAlerts(msg))
    <3>1. a \in FirstAlerts(seen[g])
      BY <1>5, <2>3
    <3>2. SUFFICES ASSUME NEW b \in alerts, b.id = a.id, b.content = a.content
                   PROVE  \/ \E r \in alerts' : r.id = a.id /\ r.content = a.content
                          \/ \E h \in Feeds \ {g} : \E m \in Messages[h] : a.id \in IDs(Elements(m.alerts))
      BY <3>1 DEF AlertInv, AlertsAreTheFeeds
    <3>3. CASE b.feed # f
      BY <1>3, <1>4, <2>3, <3>2, <3>3 DEF SameAlert
    <3>4. CASE b.feed = f
      <4>1. [id |-> b.id, content |-> b.content] \in FirstAlerts(seen[f])
        BY <3>4 DEF AlertInv, AlertsAreTheFeeds
      <4>2. seen[f] \in Messages[f]
        BY <4>1, NothingIsEmpty DEF SeenOK
      <4>3. [id |-> b.id, content |-> b.content] \in Elements(seen[f].alerts)
        BY <4>1, <4>2, FirstAlertsAreUnique
      <4>4. [id |-> b.id, content |-> b.content].id = a.id
        BY <3>2
      <4>5. a.id \in IDs(Elements(seen[f].alerts))
        BY <4>3, <4>4 DEF IDs
      <4>6. QED
        BY <2>3, <4>2, <4>5
    <3>5. QED
      BY <3>3, <3>4
  <2>4. QED
    BY <2>1, <2>2, <2>3
<1>8. AlertsAreTheFeeds'
  BY <1>6, <1>7 DEF AlertsAreTheFeeds
<1>9. QED
  BY <1>4, <1>8 DEF AlertInv

\* The deletion of a feed leaves the alerts of the others.
LEMMA DeleteKeepsAlerts ==
  ASSUME NEW f \in Feeds, SeenOK, AlertInv, DeleteFeed(f)
  PROVE  AlertInv'
<1> DEFINE rest == {a \in alerts : a.feed # f}
<1>1. alerts' = Linked(rest, trips') /\ seen' = [seen EXCEPT ![f] = Nothing]
  BY DEF DeleteFeed
<1>2. UniqueIDs(rest) /\ \A r \in rest : r = Columns(r)
  BY DEF AlertInv, AlertRows, UniqueIDs
<1>3. /\ UniqueIDs(alerts') /\ \A r \in alerts' : r = Columns(r) /\ \E a \in rest : SameAlert(r, a)
      /\ \A a \in rest : \E r \in alerts' : SameAlert(r, a)
  BY <1>1, <1>2, LinkedKeepsAlerts
<1>4. seen'[f] = Nothing /\ \A g \in Feeds \ {f} : seen'[g] = seen[g]
  BY <1>1 DEF SeenOK
<1>5. AlertRows(alerts')
  BY <1>3 DEF AlertInv, AlertRows, SameAlert
<1>6. ASSUME NEW r \in alerts'
      PROVE  [id |-> r.id, content |-> r.content] \in FirstAlerts(seen'[r.feed])
  <2>1. PICK a \in rest : SameAlert(r, a)
    BY <1>3
  <2>2. [id |-> a.id, content |-> a.content] \in FirstAlerts(seen[a.feed]) /\ a.feed \in Feeds \ {f}
    BY DEF AlertInv, AlertsAreTheFeeds, AlertRows
  <2>3. QED
    BY <1>4, <2>1, <2>2 DEF SameAlert
<1>7. ASSUME NEW g \in Feeds, NEW a \in FirstAlerts(seen'[g])
      PROVE  \/ \E r \in alerts' : r.id = a.id /\ r.content = a.content
             \/ \E h \in Feeds \ {g} : \E m \in Messages[h] : a.id \in IDs(Elements(m.alerts))
  <2>1. g # f /\ a \in FirstAlerts(seen[g])
    BY <1>4, NothingIsEmpty
  <2>2. SUFFICES ASSUME NEW b \in alerts, b.id = a.id, b.content = a.content
                 PROVE  \/ \E r \in alerts' : r.id = a.id /\ r.content = a.content
                        \/ \E h \in Feeds \ {g} : \E m \in Messages[h] : a.id \in IDs(Elements(m.alerts))
    BY <2>1 DEF AlertInv, AlertsAreTheFeeds
  <2>3. CASE b.feed # f
    BY <1>3, <2>2, <2>3 DEF SameAlert
  <2>4. CASE b.feed = f
    <3>1. [id |-> b.id, content |-> b.content] \in FirstAlerts(seen[f])
      BY <2>4 DEF AlertInv, AlertsAreTheFeeds
    <3>2. seen[f] \in Messages[f]
      BY <3>1, NothingIsEmpty DEF SeenOK
    <3>3. [id |-> b.id, content |-> b.content] \in Elements(seen[f].alerts)
      BY <3>1, <3>2, FirstAlertsAreUnique
    <3>4. [id |-> b.id, content |-> b.content].id = a.id
      BY <2>2
    <3>5. a.id \in IDs(Elements(seen[f].alerts))
      BY <3>3, <3>4 DEF IDs
    <3>6. QED
      BY <2>1, <3>2, <3>5
  <2>5. QED
    BY <2>3, <2>4
<1>8. QED
  BY <1>5, <1>6, <1>7 DEF AlertInv, AlertsAreTheFeeds

\* The deletion of routes leaves all alerts.
LEMMA RoutesKeepAlerts ==
  ASSUME NEW ids, AlertInv, DeleteRoutes(ids)
  PROVE  AlertInv'
<1>1. alerts' = Linked(alerts, trips') /\ seen' = seen
  BY DEF DeleteRoutes
<1>2. UniqueIDs(alerts) /\ \A r \in alerts : r = Columns(r) /\ r.feed \in Feeds
  BY DEF AlertInv, AlertRows
<1>3. /\ UniqueIDs(alerts') /\ \A r \in alerts' : r = Columns(r) /\ \E a \in alerts : SameAlert(r, a)
      /\ \A a \in alerts : \E r \in alerts' : SameAlert(r, a)
  BY <1>1, <1>2, LinkedKeepsAlerts
<1>4. AlertRows(alerts')
  BY <1>2, <1>3 DEF AlertRows, SameAlert
<1>5. ASSUME NEW r \in alerts'
      PROVE  [id |-> r.id, content |-> r.content] \in FirstAlerts(seen'[r.feed])
  <2>1. PICK a \in alerts : SameAlert(r, a)
    BY <1>3
  <2>2. QED
    BY <1>1, <2>1 DEF AlertInv, AlertsAreTheFeeds, SameAlert
<1>6. ASSUME NEW g \in Feeds, NEW a \in FirstAlerts(seen'[g])
      PROVE  \/ \E r \in alerts' : r.id = a.id /\ r.content = a.content
             \/ \E h \in Feeds \ {g} : \E m \in Messages[h] : a.id \in IDs(Elements(m.alerts))
  BY <1>1, <1>3 DEF AlertInv, AlertsAreTheFeeds, SameAlert
<1>7. QED
  BY <1>4, <1>5, <1>6 DEF AlertInv, AlertsAreTheFeeds
-----------------------------------------------------------------------------
(* Trips and vehicles. *)

\* A trip is in the latest message of its feed.
TripInv ==
  /\ trips \subseteq [id : Trips, feed : Feeds, born : Nat] /\ born \in Nat
  /\ \A t \in trips : t.id \in seen[t.feed].trips

VehicleInv == (\A r \in vehicles : r.feed \in Feeds) /\ VehiclesAreTheFeeds

\* The two things that hold of a vehicle.
Placed(r) ==
  \E i \in Valid(placed[r.feed]) :
    LET v == placed[r.feed].vehicles[i]
    IN v.id = r.id /\ (IF v.trip = None THEN r.trip = None ELSE r.trip # None /\ r.trip[1] = v.trip)

OnTrip(r) ==
  r.trip \notin Keys(trips) \cup {None} =>
    \/ r.trip \in gone \/ Valid(seen[r.feed]) = {}
    \/ \E g \in Feeds \ {r.feed} : \E msg \in Messages[g] : r.trip[1] \in msg.trips

\* The trips and the vehicles of a message.
LEMMA MessageTypes ==
  ASSUME NEW f \in Feeds, NEW msg \in Messages[f]
  PROVE  /\ msg.trips \subseteq Trips
         /\ msg.vehicles \in Seq([id : Vehicles \cup {None}, trip : Trips \cup {None}])
BY MessagesAssumption DEF Message

\* The rows of trips after an update, and the trips that are gone: those of the
\* feed that the message does not have.
LEMMA UpdateKeepsTrips ==
  ASSUME NEW f \in Feeds, NEW msg \in Messages[f], SeenOK, TripInv, Update(f, msg)
  PROVE  /\ TripInv'
         /\ \A t \in trips : Key(t) \in Keys(trips') \/ t.feed = f
<1> DEFINE kept == {t \in trips : t.feed # f /\ t.id \notin msg.trips}
           owned == {[t EXCEPT !.feed = f] : t \in {s \in trips : s.id \in msg.trips}}
           new == {[id |-> t, feed |-> f, born |-> born + 1] : t \in NewTrips(msg)}
<1>1. trips' = kept \cup owned \cup new
  BY DEF Update, TripsAfter
<1>2. seen'[f] = msg /\ \A g \in Feeds \ {f} : seen'[g] = seen[g]
  BY DEF Update, SeenOK
<1>3. \A t \in kept : t \in [id : Trips, feed : Feeds, born : Nat] /\ t.id \in seen'[t.feed].trips
  BY <1>2 DEF TripInv
<1>4. \A t \in trips : LET s == [t EXCEPT !.feed = f]
                       IN /\ s \in [id : Trips, feed : Feeds, born : Nat]
                          /\ s.id = t.id /\ s.feed = f /\ s.born = t.born
  BY DEF TripInv
<1>5. \A t \in owned : t \in [id : Trips, feed : Feeds, born : Nat] /\ t.id \in seen'[t.feed].trips
  BY <1>2, <1>4
<1>6. \A t \in new : t \in [id : Trips, feed : Feeds, born : Nat] /\ t.id \in seen'[t.feed].trips
  BY <1>2, MessageTypes DEF TripInv, NewTrips
<1>7. born' \in Nat
  BY DEF Update, TripInv
<1>8. \A t \in trips : t.id \in msg.trips => Key(t) \in Keys(trips')
  <2> SUFFICES ASSUME NEW t \in trips, t.id \in msg.trips PROVE Key(t) \in Keys(trips')
    OBVIOUS
  <2>1. [t EXCEPT !.feed = f] \in trips'
    BY <1>1
  <2>2. Key([t EXCEPT !.feed = f]) = Key(t)
    BY <1>4 DEF Key
  <2>3. QED
    BY <2>1, <2>2 DEF Keys
<1>9. \A t \in kept : Key(t) \in Keys(trips')
  BY <1>1 DEF Keys
<1> HIDE DEF owned, new
<1>10. TripInv'
  BY <1>1, <1>3, <1>5, <1>6, <1>7 DEF TripInv
<1>11. QED
  BY <1>8, <1>9, <1>10

\* The deletion of a feed leaves the trips of the others.
LEMMA DeleteKeepsTrips ==
  ASSUME NEW f \in Feeds, SeenOK, TripInv, DeleteFeed(f)
  PROVE  /\ TripInv'
         /\ \A t \in trips : Key(t) \in Keys(trips') \/ t.feed = f
BY DEF DeleteFeed, SeenOK, TripInv, Keys

\* A deletion of routes leaves trips of the latest messages.
LEMMA RoutesKeepTrips ==
  ASSUME NEW ids, TripInv, DeleteRoutes(ids)
  PROVE  TripInv'
BY DEF DeleteRoutes, TripInv

\* A vehicle that is not of feed f, or that stays although f has no vehicles.
LEMMA OldVehicle ==
  ASSUME NEW f \in Feeds, SeenOK, TripInv, VehicleInv, NEW r \in vehicles, r \in vehicles',
         gone' = gone \cap {v.trip : v \in vehicles'},
         \A t \in trips : Key(t) \in Keys(trips') \/ t.feed = f,
         \A g \in Feeds \ {f} : seen'[g] = seen[g],
         r.feed # f \/ Valid(seen'[f]) = {},
         r.trip \notin Keys(trips') \cup {None}
  PROVE  \/ r.trip \in gone' \/ Valid(seen'[r.feed]) = {}
         \/ \E g \in Feeds \ {r.feed} : \E msg \in Messages[g] : r.trip[1] \in msg.trips
<1>1. r.feed \in Feeds
  BY DEF VehicleInv
<1>2. CASE r.feed = f
  BY <1>2
<1>3. CASE r.feed # f /\ r.trip \notin Keys(trips)
  BY <1>1, <1>3 DEF VehicleInv, VehiclesAreTheFeeds
<1>4. CASE r.feed # f /\ r.trip \in Keys(trips)
  <2>1. PICK t \in trips : r.trip = Key(t)
    BY <1>4 DEF Keys
  <2>2. t.feed = f
    BY <2>1
  <2>3. t.id \in seen[f].trips /\ r.trip[1] = t.id
    BY <2>1, <2>2 DEF TripInv, Key
  <2>4. seen[f] \in Messages[f]
    BY <2>3, NothingIsEmpty DEF SeenOK
  <2>5. QED
    BY <1>4, <2>3, <2>4
<1>5. QED
  BY <1>2, <1>3, <1>4

\* The row of a vehicle that is accepted.
LEMMA AcceptedRow ==
  ASSUME NEW f \in Feeds, NEW msg \in Messages[f], NEW rows,
         NEW ts \in SUBSET [id : Trips, feed : Feeds, born : Nat],
         NEW i \in Accepted(msg, rows, ts)
  PROVE  LET v == msg.vehicles[i]
             r == Row(v, f, ts)
         IN /\ i \in Valid(msg)
            /\ r.id = v.id /\ r.feed = f /\ r.trip \in Keys(ts) \cup {None}
            /\ IF v.trip = None THEN r.trip = None ELSE r.trip # None /\ r.trip[1] = v.trip
<1> DEFINE v == msg.vehicles[i]
           r == Row(v, f, ts)
<1>1. i \in Valid(msg) /\ Candidate(i, msg, rows, ts)
  BY DEF Accepted
<1>2. r.id = v.id /\ r.feed = f
  BY DEF Row
<1>3. CASE v.trip = None
  BY <1>1, <1>2, <1>3 DEF Row
<1>4. CASE v.trip # None
  <2> DEFINE t == CHOOSE s \in ts : s.id = v.trip
  <2>1. t \in ts /\ t.id = v.trip
    BY <1>1, <1>4 DEF Candidate
  <2>2. r.trip = Key(t)
    BY <1>4 DEF Row
  <2>3. Key(t) \in Keys(ts) /\ Key(t)[1] = v.trip /\ Key(t) \in Trips \X Nat
    <3> HIDE DEF t
    <3>1. t \in [id : Trips, feed : Feeds, born : Nat]
      BY <2>1
    <3>2. QED
      BY <2>1, <3>1 DEF Keys, Key
  <2>4. QED
    BY <1>1, <1>2, <1>4, <2>2, <2>3, NoneAssumption
<1>5. QED
  BY <1>3, <1>4

\* An update leaves the vehicles of the latest messages that had any.
LEMMA UpdateKeepsVehicles ==
  ASSUME NEW f \in Feeds, NEW msg \in Messages[f], SeenOK, TripInv, VehicleInv, Update(f, msg)
  PROVE  VehicleInv'
<1>1. /\ TripInv' /\ \A t \in trips : Key(t) \in Keys(trips') \/ t.feed = f
      /\ seen'[f] = msg /\ \A g \in Feeds \ {f} : seen'[g] = seen[g]
      /\ gone' = gone \cap {v.trip : v \in vehicles'}
  BY UpdateKeepsTrips DEF Update, SeenOK
<1>2. vehicles' = VehiclesAfter(f, msg, vehicles, trips')
  BY DEF Update
<1>3. CASE Valid(msg) = {}
  <2>1. vehicles' = vehicles /\ placed' = placed
    BY <1>2, <1>3 DEF VehiclesAfter, Update
  <2>2. QED
    BY <1>1, <1>3, <2>1, OldVehicle DEF VehicleInv, VehiclesAreTheFeeds
<1>4. CASE Valid(msg) # {}
  <2>1. placed'[f] = msg /\ \A g \in Feeds \ {f} : placed'[g] = placed[g]
    BY <1>4 DEF Update, SeenOK
  <2>2. \A r \in vehicles' : \/ r \in vehicles /\ r.feed # f
                            \/ \E i \in Accepted(msg, vehicles, trips') : r = Row(msg.vehicles[i], f, trips')
    BY <1>2, <1>4 DEF VehiclesAfter
  <2>3. ASSUME NEW r \in vehicles', r \in vehicles, r.feed # f
        PROVE  r.feed \in Feeds /\ Placed(r)' /\ OnTrip(r)'
    <3>1. Placed(r) /\ r.feed \in Feeds \ {f}
      BY <2>3 DEF VehicleInv, VehiclesAreTheFeeds, Placed
    <3>2. Placed(r)'
      BY <2>1, <3>1 DEF Placed
    <3>3. OnTrip(r)'
      BY <1>1, <2>3, OldVehicle DEF OnTrip
    <3>4. QED
      BY <3>1, <3>2, <3>3
  <2>4. ASSUME NEW i \in Accepted(msg, vehicles, trips'), NEW r, r = Row(msg.vehicles[i], f, trips')
        PROVE  r.feed \in Feeds /\ Placed(r)' /\ OnTrip(r)'
    <3>1. trips' \in SUBSET [id : Trips, feed : Feeds, born : Nat]
      BY <1>1 DEF TripInv
    <3>2. /\ i \in Valid(msg)
          /\ r.id = msg.vehicles[i].id /\ r.feed = f /\ r.trip \in Keys(trips') \cup {None}
          /\ IF msg.vehicles[i].trip = None
             THEN r.trip = None ELSE r.trip # None /\ r.trip[1] = msg.vehicles[i].trip
      BY <2>4, <3>1, AcceptedRow
    <3>3. QED
      BY <2>1, <3>2 DEF Placed, OnTrip
  <2>5. \A r \in vehicles' : r.feed \in Feeds /\ Placed(r)' /\ OnTrip(r)'
    BY <2>2, <2>3, <2>4
  <2>6. QED
    BY <2>5 DEF VehicleInv, VehiclesAreTheFeeds, Placed, OnTrip
<1>5. QED
  BY <1>3, <1>4

\* The deletion of a feed leaves the vehicles of the others.
LEMMA DeleteKeepsVehicles ==
  ASSUME NEW f \in Feeds, SeenOK, TripInv, VehicleInv, DeleteFeed(f)
  PROVE  VehicleInv'
<1>1. /\ \A t \in trips : Key(t) \in Keys(trips') \/ t.feed = f
      /\ \A g \in Feeds \ {f} : seen'[g] = seen[g] /\ placed'[g] = placed[g]
      /\ vehicles' = {v \in vehicles : v.feed # f}
      /\ gone' = gone \cap {v.trip : v \in vehicles'}
  BY DeleteKeepsTrips DEF DeleteFeed, SeenOK
<1>2. ASSUME NEW r \in vehicles' PROVE r.feed \in Feeds /\ Placed(r)' /\ OnTrip(r)'
  <2>1. Placed(r) /\ r.feed \in Feeds \ {f} /\ r \in vehicles
    BY <1>1 DEF VehicleInv, VehiclesAreTheFeeds, Placed
  <2>2. Placed(r)'
    BY <1>1, <2>1 DEF Placed
  <2>3. OnTrip(r)'
    BY <1>1, <2>1, OldVehicle DEF OnTrip
  <2>4. QED
    BY <2>1, <2>2, <2>3
<1>3. QED
  BY <1>2 DEF VehicleInv, VehiclesAreTheFeeds, Placed, OnTrip

\* A vehicle whose trip is deleted with its route has a trip that is gone.
LEMMA RoutesKeepVehicles ==
  ASSUME NEW ids, VehicleInv, DeleteRoutes(ids)
  PROVE  VehicleInv'
<1>1. /\ vehicles' = vehicles /\ seen' = seen /\ placed' = placed
      /\ gone' = gone \cup ((Keys(trips) \ Keys(trips')) \cap {v.trip : v \in vehicles})
  BY DEF DeleteRoutes
<1>2. ASSUME NEW r \in vehicles' PROVE r.feed \in Feeds /\ Placed(r)' /\ OnTrip(r)'
  <2>1. r \in vehicles /\ r.feed \in Feeds /\ Placed(r) /\ OnTrip(r)
    BY <1>1 DEF VehicleInv, VehiclesAreTheFeeds, Placed, OnTrip
  <2>2. Placed(r)'
    BY <1>1, <2>1 DEF Placed
  <2>3. CASE r.trip \in Keys(trips) \ Keys(trips')
    <3>1. r.trip \in gone'
      BY <1>1, <2>1, <2>3
    <3>2. QED
      BY <2>1, <2>2, <3>1 DEF OnTrip
  <2>4. CASE r.trip \notin Keys(trips) \ Keys(trips')
    BY <1>1, <2>1, <2>2, <2>4 DEF OnTrip
  <2>5. QED
    BY <2>3, <2>4
<1>3. QED
  BY <1>2 DEF VehicleInv, VehiclesAreTheFeeds, Placed, OnTrip
-----------------------------------------------------------------------------
IInv == SeenOK /\ TripInv /\ AlertInv /\ VehicleInv

(* The inductive invariant of the realtime entities: the latest messages, the *)
(* trips they have, whose alerts there are and what they say, and which       *)
(* vehicles there are and what trips they had.                                *)
THEOREM EntitiesInvariant == Spec => []IInv
<1>1. Init => IInv
  BY NothingIsEmpty DEF Init, IInv, SeenOK, TripInv, AlertInv, AlertRows, UniqueIDs, AlertsAreTheFeeds,
     VehicleInv, VehiclesAreTheFeeds
<1>2. IInv /\ [Next]_vars => IInv'
  <2> SUFFICES ASSUME IInv, [Next]_vars PROVE IInv'
    OBVIOUS
  <2>1. ASSUME NEW f \in Feeds, NEW msg \in Messages[f], Update(f, msg) PROVE IInv'
    <3>1. SeenOK'
      BY <2>1 DEF IInv, SeenOK, Update
    <3>2. QED
      BY <2>1, <3>1, UpdateKeepsTrips, UpdateKeepsAlerts, UpdateKeepsVehicles DEF IInv
  <2>2. ASSUME NEW f \in Feeds, DeleteFeed(f) PROVE IInv'
    <3>1. SeenOK'
      BY <2>2 DEF IInv, SeenOK, DeleteFeed
    <3>2. QED
      BY <2>2, <3>1, DeleteKeepsTrips, DeleteKeepsAlerts, DeleteKeepsVehicles DEF IInv
  <2>3. ASSUME NEW ids \in SUBSET Trips, DeleteRoutes(ids) PROVE IInv'
    <3>1. SeenOK'
      BY <2>3 DEF IInv, SeenOK, DeleteRoutes
    <3>2. QED
      BY <2>3, <3>1, RoutesKeepTrips, RoutesKeepAlerts, RoutesKeepVehicles DEF IInv
  <2>4. CASE UNCHANGED vars
    BY <2>4 DEF vars, IInv, SeenOK, TripInv, AlertInv, AlertRows, AlertsAreTheFeeds, VehicleInv, VehiclesAreTheFeeds
  <2>5. QED
    BY <2>1, <2>2, <2>3, <2>4 DEF Next
<1>3. QED
  BY <1>1, <1>2, PTL DEF Spec

(* Whatever the feeds and their messages: an alert says what the latest message *)
(* of its feed says, and none of it is missing or differs unless another feed   *)
(* may have it too.                                                             *)
THEOREM AlertsFollowTheFeeds == Spec => []AlertsAreTheFeeds
<1>1. IInv => AlertsAreTheFeeds
  BY DEF IInv, AlertInv
<1>2. QED
  BY <1>1, EntitiesInvariant, PTL

(* Whatever the feeds and their messages: a vehicle is one of the latest message *)
(* of its feed that had any, and its trip is there unless it was deleted with    *)
(* its route, its feed has had no vehicles since, or another feed may have the   *)
(* trip too.                                                                     *)
THEOREM VehiclesFollowTheFeeds == Spec => []VehiclesAreTheFeeds
<1>1. IInv => VehiclesAreTheFeeds
  BY DEF IInv, VehicleInv
<1>2. QED
  BY <1>1, EntitiesInvariant, PTL
-----------------------------------------------------------------------------
(* The types and the unique keys of the schema. *)

TripRow == [id : Trips, feed : Feeds, born : 1..MaxBorn]
TripRows == trips \subseteq TripRow /\ UniqueIDs(trips) /\ born \in 0..MaxBorn

AlertRow(a, ts) ==
  /\ a.id \in Alerts /\ a.content \in Contents
  /\ a.links \subseteq {k \in Keys(ts) : k[1] \in Informs[a.content]}

VehicleRow(v) == v.id \in Vehicles /\ v.trip \in (Trips \X (1..MaxBorn)) \cup {None}
UniqueTrips(rows) == \A v, w \in rows : v.trip = w.trip /\ v.trip # None => v = w
VehicleRows(rows) ==
  UniqueIDs(rows) /\ UniqueTrips(rows) /\ \A v \in rows : VehicleRow(v)

SchemaInv ==
  /\ TripRows /\ (\A a \in alerts : AlertRow(a, trips)) /\ VehicleRows(vehicles)
  /\ \A f \in Feeds : placed[f] \in Messages[f] \cup {Nothing}
  /\ gone \subseteq Trips \X (1..MaxBorn)

\* A trip of the message keeps its row or gets a new one, whose key is new.
LEMMA UpdateKeepsTripRows ==
  ASSUME NEW f \in Feeds, NEW msg \in Messages[f], TripRows, Update(f, msg)
  PROVE  TripRows'
<1> DEFINE kept == {t \in trips : t.feed # f /\ t.id \notin msg.trips}
           own(t) == [t EXCEPT !.feed = f]
           owned == {own(t) : t \in {s \in trips : s.id \in msg.trips}}
           add(t) == [id |-> t, feed |-> f, born |-> born + 1]
           new == {add(t) : t \in NewTrips(msg)}
<1>1. trips' = kept \cup owned \cup new
  BY DEF Update, TripsAfter
<1>2. /\ born' \in 0..MaxBorn
      /\ NewTrips(msg) # {} => born + 1 \in 1..MaxBorn
  BY MaxBornAssumption DEF Update, TripRows
<1>3. \A t \in trips : own(t) \in TripRow /\ own(t).id = t.id
  BY DEF TripRows, TripRow
<1>4. \A t \in NewTrips(msg) : add(t) \in TripRow /\ add(t).id = t /\ t \in msg.trips \ IDs(trips)
  BY <1>2, MessageTypes DEF NewTrips, TripRow
<1> HIDE DEF own, add
<1>5. trips' \subseteq TripRow
  BY <1>1, <1>3, <1>4 DEF TripRows
<1>6. /\ UniqueIDs(kept) /\ UniqueIDs(owned) /\ UniqueIDs(new)
  BY <1>3, <1>4 DEF UniqueIDs, TripRows
<1>7. /\ \A t \in kept : t.id \notin msg.trips /\ t.id \in IDs(trips)
      /\ \A t \in owned : t.id \in msg.trips /\ t.id \in IDs(trips)
      /\ \A t \in new : t.id \notin IDs(trips)
  BY <1>3, <1>4 DEF IDs
<1> HIDE DEF kept, owned, new
<1>8. UniqueIDs(trips')
  BY <1>1, <1>6, <1>7 DEF UniqueIDs
<1>9. QED
  BY <1>2, <1>5, <1>8 DEF TripRows

\* The deletion of trips leaves alerts with links to trips that are there.
LEMMA LinkedKeepsTypes ==
  ASSUME NEW rows, NEW old, NEW ts,
         \A a \in rows : a = Columns(a) /\ AlertRow(a, old)
  PROVE  \A r \in Linked(rows, ts) : AlertRow(r, ts)
<1> SUFFICES ASSUME NEW a \in rows
             PROVE  AlertRow([a EXCEPT !.links = @ \cap Keys(ts)], ts)
  BY DEF Linked
<1>1. a = [id |-> a.id, content |-> a.content, feed |-> a.feed, links |-> a.links]
  BY DEF Columns
<1> DEFINE r == [a EXCEPT !.links = @ \cap Keys(ts)]
<1>2. DOMAIN a = {"id", "content", "feed", "links"}
  BY <1>1, Zenon
<1>3. r.id = a.id /\ r.content = a.content /\ r.links = a.links \cap Keys(ts)
  BY <1>2
<1> HIDE DEF r
<1>4. AlertRow(r, ts)
  BY <1>3 DEF AlertRow
<1>5. QED
  BY <1>4 DEF r

\* After an update alerts are linked to trips that are there.
LEMMA UpdateKeepsAlertTypes ==
  ASSUME NEW f \in Feeds, NEW msg \in Messages[f], AlertRows(alerts),
         \A a \in alerts : AlertRow(a, trips), TripRows', Update(f, msg)
  PROVE  \A a \in alerts' : AlertRow(a, trips')
<1> DEFINE linked == Linked(alerts, trips')
           links(a) == {Key(t) : t \in {s \in trips' : s.id \in Informs[a.content]}}
           row(a) == [id |-> a.id, content |-> a.content, feed |-> f, links |-> links(a)]
<1>1. alerts' = AlertsAfter(f, msg, linked, trips')
  BY DEF Update
<1>2. \A r \in linked : AlertRow(r, trips')
  BY LinkedKeepsTypes DEF AlertRows
<1>3. \A r \in alerts' : r \in linked \/ \E a \in FirstAlerts(msg) : r = row(a)
  BY <1>1 DEF AlertsAfter, Unchanged
<1>4. ASSUME NEW a \in FirstAlerts(msg) PROVE AlertRow(row(a), trips')
  <2>1. a \in [id : Alerts, content : Contents]
    <3>1. msg.alerts \in Seq([id : Alerts, content : Contents])
      BY MessagesAssumption DEF Message
    <3>2. QED
      BY <3>1, SeqElements, FirstAlertsAreUnique DEF Elements
  <2>2. \A t \in trips' : Key(t) \in Keys(trips') /\ Key(t)[1] = t.id
    BY DEF Keys, Key
  <2>3. links(a) \subseteq {k \in Keys(trips') : k[1] \in Informs[a.content]}
    BY <2>2
  <2>4. row(a).id = a.id /\ row(a).content = a.content /\ row(a).links = links(a)
    OBVIOUS
  <2> HIDE DEF row, links
  <2>5. QED
    BY <2>1, <2>3, <2>4 DEF AlertRow
<1> HIDE DEF linked, row
<1>5. QED
  BY <1>2, <1>3, <1>4

\* The vehicles that are accepted have an ID and a trip of their own.
LEMMA AcceptedAreUnique ==
  ASSUME NEW f \in Feeds, NEW msg \in Messages[f], NEW rows, NEW ts \in SUBSET TripRow,
         NEW i \in Accepted(msg, rows, ts), NEW j \in Accepted(msg, rows, ts),
         LET r == Row(msg.vehicles[i], f, ts)
             s == Row(msg.vehicles[j], f, ts)
         IN r.id = s.id \/ (r.trip = s.trip /\ r.trip # None)
  PROVE  i = j
<1>1. ts \in SUBSET [id : Trips, feed : Feeds, born : Nat]
  BY DEF TripRow
<1>2. /\ i \in Valid(msg) /\ Candidate(i, msg, rows, ts)
      /\ j \in Valid(msg) /\ Candidate(j, msg, rows, ts)
  BY DEF Accepted
<1>3. i \in Nat /\ j \in Nat
  BY <1>2, MessageTypes, SeqElements DEF Valid
<1>4. \/ msg.vehicles[i].id = msg.vehicles[j].id
      \/ msg.vehicles[i].trip = msg.vehicles[j].trip /\ msg.vehicles[i].trip # None
  BY <1>1, AcceptedRow
<1>5. CASE msg.vehicles[i].id = msg.vehicles[j].id
  BY <1>2, <1>3, <1>5 DEF Candidate
<1>6. CASE msg.vehicles[i].trip = msg.vehicles[j].trip /\ msg.vehicles[i].trip # None
  BY <1>2, <1>3, <1>6 DEF Accepted
<1>7. QED
  BY <1>4, <1>5, <1>6

\* Two vehicles never have the same ID or the same trip: what the message says
\* of either goes for all feeds.
LEMMA VehiclesAfterUpdate ==
  ASSUME NEW f \in Feeds, NEW msg \in Messages[f], NEW rows, NEW ts \in SUBSET TripRow,
         VehicleRows(rows)
  PROVE  VehicleRows(VehiclesAfter(f, msg, rows, ts))
<1> DEFINE kept == {r \in rows : r.feed # f /\ r.id \notin ValidIDs(msg) /\ r.trip \notin Named(msg, ts)}
           row(i) == Row(msg.vehicles[i], f, ts)
           new == {row(i) : i \in Accepted(msg, rows, ts)}
           after == VehiclesAfter(f, msg, rows, ts)
<1>1. CASE Valid(msg) = {}
  BY <1>1 DEF VehiclesAfter
<1>2. CASE Valid(msg) # {}
  <2>1. after = kept \cup new
    BY <1>2 DEF VehiclesAfter
  <2>2. ts \in SUBSET [id : Trips, feed : Feeds, born : Nat]
    BY DEF TripRow
  <2>3. ASSUME NEW i \in Accepted(msg, rows, ts)
        PROVE  /\ row(i).id \in ValidIDs(msg) /\ VehicleRow(row(i))
               /\ row(i).trip \in Named(msg, ts) \cup {None}
    <3> DEFINE v == msg.vehicles[i]
    <3>1. /\ i \in Valid(msg) /\ row(i).id = v.id /\ row(i).trip \in Keys(ts) \cup {None}
          /\ IF v.trip = None THEN row(i).trip = None ELSE row(i).trip # None /\ row(i).trip[1] = v.trip
      BY <2>2, AcceptedRow
    <3>2. v \in [id : Vehicles \cup {None}, trip : Trips \cup {None}] /\ v.id # None
      BY <3>1, MessageTypes, SeqElements DEF Valid
    <3> HIDE DEF row
    <3>3. row(i).id \in ValidIDs(msg) /\ row(i).id \in Vehicles
      BY <3>1, <3>2 DEF ValidIDs
    <3>4. ASSUME row(i).trip # None
          PROVE  row(i).trip \in Named(msg, ts) /\ row(i).trip \in Trips \X (1..MaxBorn)
      <4>1. PICK t \in ts : row(i).trip = Key(t)
        BY <3>1, <3>4 DEF Keys
      <4>2. t \in TripRow /\ t.id = v.trip
        BY <3>1, <3>4, <4>1 DEF Key
      <4>3. Key(t) \in Named(msg, ts)
        BY <3>1, <4>2 DEF Named, Keys
      <4>4. Key(t) \in Trips \X (1..MaxBorn)
        BY <4>2 DEF Key, TripRow
      <4>5. QED
        BY <4>1, <4>3, <4>4
    <3>5. QED
      BY <3>3, <3>4 DEF VehicleRow
  <2>4. ASSUME NEW i \in Accepted(msg, rows, ts), NEW j \in Accepted(msg, rows, ts),
               row(i).id = row(j).id \/ (row(i).trip = row(j).trip /\ row(i).trip # None)
        PROVE  row(i) = row(j)
    <3>1. i = j
      BY <2>4, AcceptedAreUnique
    <3>2. QED
      BY <3>1
  <2> HIDE DEF row
  <2>5. \A r \in new : /\ r.id \in ValidIDs(msg) /\ VehicleRow(r)
                       /\ r.trip \in Named(msg, ts) \cup {None}
    BY <2>3
  <2>6. \A r, s \in new : r.id = s.id \/ (r.trip = s.trip /\ r.trip # None) => r = s
    BY <2>4
  <2>7. \A r \in kept : r \in rows /\ r.id \notin ValidIDs(msg) /\ r.trip \notin Named(msg, ts)
    OBVIOUS
  <2> HIDE DEF kept, new, after
  <2>8. UniqueIDs(after)
    BY <2>1, <2>5, <2>6, <2>7 DEF VehicleRows, UniqueIDs
  <2>9. UniqueTrips(after)
    BY <2>1, <2>5, <2>6, <2>7 DEF VehicleRows, UniqueTrips
  <2>10. \A r \in after : VehicleRow(r)
    BY <2>1, <2>5, <2>7 DEF VehicleRows
  <2>11. QED
    BY <2>8, <2>9, <2>10 DEF VehicleRows, after
<1>3. QED
  BY <1>1, <1>2

\* The deletion of a feed leaves the keys unique.
LEMMA DeleteKeepsSchema ==
  ASSUME NEW f \in Feeds, SchemaInv, AlertRows(alerts), SeenOK, DeleteFeed(f)
  PROVE  SchemaInv'
<1>1. TripRows'
  BY DEF SchemaInv, TripRows, DeleteFeed, UniqueIDs
<1>2. \A a \in alerts' : AlertRow(a, trips')
  <2> DEFINE rest == {a \in alerts : a.feed # f}
  <2>1. alerts' = Linked(rest, trips')
    BY DEF DeleteFeed
  <2>2. \A a \in rest : a = Columns(a) /\ AlertRow(a, trips)
    BY DEF SchemaInv, AlertRows
  <2> HIDE DEF rest
  <2>3. QED
    BY <2>1, <2>2, LinkedKeepsTypes
<1>3. VehicleRows(vehicles)'
  <2>1. vehicles' \subseteq vehicles
    BY DEF DeleteFeed
  <2>2. QED
    BY <2>1 DEF SchemaInv, VehicleRows, UniqueIDs, UniqueTrips, VehicleRow
<1>4. \A g \in Feeds : placed'[g] \in Messages[g] \cup {Nothing}
  BY DEF SchemaInv, SeenOK, DeleteFeed
<1>5. gone' \subseteq Trips \X (1..MaxBorn)
  BY DEF SchemaInv, DeleteFeed
<1>6. QED
  BY <1>1, <1>2, <1>3, <1>4, <1>5 DEF SchemaInv, TripRows, VehicleRow, AlertRow

\* The deletion of routes leaves the keys unique.
LEMMA RoutesKeepSchema ==
  ASSUME NEW ids, SchemaInv, AlertRows(alerts), DeleteRoutes(ids)
  PROVE  SchemaInv'
<1>1. TripRows'
  BY DEF SchemaInv, TripRows, DeleteRoutes, UniqueIDs
<1>2. \A a \in alerts' : AlertRow(a, trips')
  <2>1. alerts' = Linked(alerts, trips')
    BY DEF DeleteRoutes
  <2>2. \A a \in alerts : a = Columns(a) /\ AlertRow(a, trips)
    BY DEF SchemaInv, AlertRows
  <2>3. QED
    BY <2>1, <2>2, LinkedKeepsTypes
<1>3. vehicles' = vehicles /\ placed' = placed
  BY DEF DeleteRoutes
<1>4. gone' \subseteq Trips \X (1..MaxBorn)
  <2>1. Keys(trips) \subseteq Trips \X (1..MaxBorn)
    BY DEF SchemaInv, TripRows, TripRow, Keys, Key
  <2>2. QED
    BY <2>1 DEF SchemaInv, DeleteRoutes
<1>5. QED
  BY <1>1, <1>2, <1>3, <1>4 DEF SchemaInv, VehicleRows, UniqueIDs, UniqueTrips, VehicleRow, AlertRow

\* An update leaves the keys unique.
LEMMA UpdateKeepsSchema ==
  ASSUME NEW f \in Feeds, NEW msg \in Messages[f], SchemaInv, AlertRows(alerts), SeenOK,
         Update(f, msg)
  PROVE  SchemaInv'
<1>1. TripRows'
  BY UpdateKeepsTripRows DEF SchemaInv
<1>2. \A a \in alerts' : AlertRow(a, trips')
  BY <1>1, UpdateKeepsAlertTypes DEF SchemaInv
<1>3. VehicleRows(vehicles')
  <2>1. vehicles' = VehiclesAfter(f, msg, vehicles, trips') /\ trips' \in SUBSET TripRow
    BY <1>1 DEF Update, TripRows, TripRow
  <2>2. QED
    BY <2>1, VehiclesAfterUpdate DEF SchemaInv
<1>4. \A g \in Feeds : placed'[g] \in Messages[g] \cup {Nothing}
  BY DEF SchemaInv, SeenOK, Update
<1>5. gone' \subseteq Trips \X (1..MaxBorn)
  BY DEF SchemaInv, Update
<1>6. QED
  BY <1>1, <1>2, <1>3, <1>4, <1>5 DEF SchemaInv, VehicleRows, UniqueIDs, UniqueTrips, VehicleRow, AlertRow

(* Whatever the feeds and their messages: the rows of trips, alerts and       *)
(* vehicles have their types, no ID is there twice, no two vehicles are on one *)
(* trip, and no alert is linked to a trip that is gone.  An update never fails *)
(* for the unique keys of the schema.                                          *)
THEOREM EntitiesTypeCorrect == Spec => []TypeOK
<1>1. Init => SchemaInv
  BY MaxBornAssumption DEF Init, SchemaInv, TripRows, VehicleRows, UniqueIDs, UniqueTrips
<1>2. SchemaInv /\ IInv /\ [Next]_vars => SchemaInv'
  <2> SUFFICES ASSUME SchemaInv, IInv, [Next]_vars PROVE SchemaInv'
    OBVIOUS
  <2>1. AlertRows(alerts) /\ SeenOK
    BY DEF IInv, AlertInv
  <2>2. CASE UNCHANGED vars
    BY <2>2 DEF vars, SchemaInv, TripRows, AlertRow, VehicleRows, UniqueIDs, UniqueTrips, VehicleRow
  <2>3. QED
    BY <2>1, <2>2, UpdateKeepsSchema, DeleteKeepsSchema, RoutesKeepSchema DEF Next
<1>3. SchemaInv /\ IInv => TypeOK
  <2> SUFFICES ASSUME SchemaInv, IInv PROVE TypeOK
    OBVIOUS
  <2>1. Nothing \in Message
    BY DEF Nothing, Message
  <2>2. \A f \in Feeds : seen[f] \in Message /\ placed[f] \in Message
    BY <2>1, MessagesAssumption DEF SchemaInv, IInv, SeenOK
  <2>3. /\ trips \subseteq [id : Trips, feed : Feeds, born : 1..MaxBorn] /\ UniqueIDs(trips)
        /\ born \in 0..MaxBorn
    BY DEF SchemaInv, TripRows, TripRow
  <2>4. /\ UniqueIDs(alerts)
        /\ \A a \in alerts :
             /\ a.id \in Alerts /\ a.content \in Contents /\ a.feed \in Feeds
             /\ a.links \subseteq {k \in Keys(trips) : k[1] \in Informs[a.content]}
    BY DEF SchemaInv, IInv, AlertInv, AlertRows, AlertRow
  <2>5. /\ UniqueIDs(vehicles)
        /\ \A v \in vehicles : /\ v.id \in Vehicles /\ v.feed \in Feeds
                               /\ v.trip \in (Trips \X (1..MaxBorn)) \cup {None}
        /\ \A v, w \in vehicles : v.trip = w.trip /\ v.trip # None => v = w
    BY DEF SchemaInv, IInv, VehicleInv, VehicleRows, VehicleRow, UniqueTrips
  <2>6. gone \subseteq Trips \X (1..MaxBorn)
    BY DEF SchemaInv
  <2>7. QED
    BY <2>2, <2>3, <2>4, <2>5, <2>6 DEF TypeOK
<1>4. QED
  BY <1>1, <1>2, <1>3, EntitiesInvariant, PTL DEF Spec
-----------------------------------------------------------------------------
(* The same message again.                                                  *)

\* A set of numbers has a least one.
LEMMA LeastNumber ==
  ASSUME NEW T, T \subseteq Nat, T # {}
  PROVE  \E x \in T : \A y \in T : x <= y
<1>1. \E R : /\ IsWellFoundedOn(R, Nat)
             /\ \A x, y \in Nat : <<y, x>> \in R <=> y < x
  <2> DEFINE R == OpToRel(<, Nat)
  <2>1. IsWellFoundedOn(R, Nat)
    BY NatLessThanWellFounded
  <2>2. \A x, y \in Nat : <<y, x>> \in R <=> y < x
    BY DEF OpToRel
  <2> HIDE DEF R
  <2>3. QED
    BY <2>1, <2>2
<1>2. PICK R : /\ IsWellFoundedOn(R, Nat)
               /\ \A x, y \in Nat : <<y, x>> \in R <=> y < x
  BY <1>1
<1>3. PICK x \in T : \A y \in T : ~ (<<y, x>> \in R)
  BY <1>2, WFMin
<1>4. ASSUME NEW y \in T PROVE x <= y
  <2>1. x \in Nat /\ y \in Nat /\ <<y, x>> \notin R
    BY <1>3
  <2>2. ~(y < x)
    BY <1>2, <2>1
  <2>3. QED
    BY <2>1, <2>2
<1>5. QED
  BY <1>4

\* A vehicle with an ID that no vehicle before it has.
First(i, msg) == /\ i \in Valid(msg)
                 /\ \A j \in Valid(msg) : j < i => msg.vehicles[j].id # msg.vehicles[i].id

\* Among the vehicles of a message some have their trips: the vehicle at i has
\* none, or its trip is there and no other one has it.
Free(i, msg, ts, held) ==
  LET trip == msg.vehicles[i].trip
  IN /\ First(i, msg)
     /\ \/ trip = None
        \/ trip \in IDs(ts) /\ \A j \in held : msg.vehicles[j].trip = trip => j = i

\* The positions in a message are numbers, and the first vehicles have IDs of
\* their own.
LEMMA FirstIsUnique ==
  ASSUME NEW f \in Feeds, NEW msg \in Messages[f]
  PROVE  /\ Valid(msg) \subseteq Nat
         /\ \A i, j \in Valid(msg) :
              First(i, msg) /\ First(j, msg) /\ msg.vehicles[i].id = msg.vehicles[j].id => i = j
<1>1. Valid(msg) \subseteq Nat
  BY MessageTypes, SeqElements DEF Valid
<1>2. ASSUME NEW i \in Valid(msg), NEW j \in Valid(msg), First(i, msg), First(j, msg),
             msg.vehicles[i].id = msg.vehicles[j].id
      PROVE  i = j
  <2>1. i \in Nat /\ j \in Nat
    BY <1>1
  <2>2. ~(i < j) /\ ~(j < i)
    BY <1>2 DEF First
  <2>3. QED
    BY <2>1, <2>2
<1>3. QED
  BY <1>1, <1>2

\* After an update the candidates are those whose trip is not taken.
LEMMA CandidatesAreFree ==
  ASSUME NEW f \in Feeds, NEW msg \in Messages[f], NEW rows, NEW ts \in SUBSET TripRow,
         UniqueIDs(ts), Valid(msg) # {}, NEW i \in Valid(msg)
  PROVE  Candidate(i, msg, VehiclesAfter(f, msg, rows, ts), ts)
           <=> Free(i, msg, ts, Accepted(msg, rows, ts))
<1> DEFINE after == VehiclesAfter(f, msg, rows, ts)
           held == Accepted(msg, rows, ts)
           kept == {r \in rows : r.feed # f /\ r.id \notin ValidIDs(msg) /\ r.trip \notin Named(msg, ts)}
           v(j) == msg.vehicles[j]
           row(j) == Row(v(j), f, ts)
           Alone(t) == \A r \in after : r.trip = Key(t) /\ r.id \in ValidIDs(msg) => r.id = v(i).id
<1>1. after = kept \cup {row(j) : j \in held}
  BY DEF VehiclesAfter
<1>2. ts \in SUBSET [id : Trips, feed : Feeds, born : Nat]
  BY DEF TripRow
<1>3. \A t, u \in ts : t.id = u.id => t = u
  BY DEF UniqueIDs
<1>4. ASSUME NEW j \in held
      PROVE  /\ First(j, msg) /\ row(j).id = v(j).id /\ row(j).id \in ValidIDs(msg)
             /\ \A t \in ts : row(j).trip = Key(t) <=> v(j).trip = t.id
  <2>1. /\ j \in Valid(msg) /\ row(j).id = v(j).id /\ row(j).trip \in Keys(ts) \cup {None}
        /\ IF v(j).trip = None THEN row(j).trip = None
           ELSE row(j).trip # None /\ row(j).trip[1] = v(j).trip
    BY <1>2, AcceptedRow
  <2>2. First(j, msg)
    BY DEF First, Accepted, Candidate
  <2>3. v(j).id \in ValidIDs(msg)
    BY <2>1 DEF ValidIDs
  <2> HIDE DEF row, v
  <2>4. ASSUME NEW t \in ts
        PROVE  row(j).trip = Key(t) <=> v(j).trip = t.id
    <3>1. Key(t) # None /\ t.id # None /\ Key(t)[1] = t.id
      <4>1. t \in [id : Trips, feed : Feeds, born : Nat]
        BY <1>2
      <4>2. Key(t) \in Trips \X Nat /\ Key(t)[1] = t.id /\ t.id \in Trips
        BY <4>1 DEF Key
      <4>3. QED
        BY <4>2, NoneAssumption
    <3>2. ASSUME row(j).trip = Key(t) PROVE v(j).trip = t.id
      BY <2>1, <3>1, <3>2
    <3>3. ASSUME v(j).trip = t.id PROVE row(j).trip = Key(t)
      <4>1. row(j).trip # None /\ row(j).trip[1] = t.id
        BY <2>1, <3>1, <3>3
      <4>2. PICK u \in ts : row(j).trip = Key(u)
        BY <2>1, <4>1 DEF Keys
      <4>3. u.id = t.id
        BY <4>1, <4>2 DEF Key
      <4>4. QED
        BY <1>3, <4>2, <4>3
    <3>4. QED
      BY <3>2, <3>3
  <2>5. QED
    BY <2>1, <2>2, <2>3, <2>4
<1>5. Candidate(i, msg, after, ts)
        <=> First(i, msg) /\ (v(i).trip = None \/ \E t \in ts : t.id = v(i).trip /\ Alone(t))
  BY DEF Candidate, First
<1> HIDE DEF after, row
<1>6. ASSUME NEW t \in ts, t.id = v(i).trip, First(i, msg)
      PROVE  Alone(t) <=> \A j \in held : v(j).trip = v(i).trip => j = i
  <2>1. ASSUME Alone(t), NEW j \in held, v(j).trip = v(i).trip PROVE j = i
    <3>1. row(j) \in after /\ row(j).trip = Key(t)
      BY <1>1, <1>4, <1>6, <2>1
    <3>2. v(j).id = v(i).id
      BY <1>4, <2>1, <3>1
    <3>3. QED
      BY <1>4, <1>6, <3>2, FirstIsUnique DEF First
  <2>2. ASSUME \A j \in held : v(j).trip = v(i).trip => j = i,
               NEW r \in after, r.trip = Key(t), r.id \in ValidIDs(msg)
        PROVE  r.id = v(i).id
    <3>1. PICK j \in held : r = row(j)
      BY <1>1, <2>2
    <3>2. v(j).trip = v(i).trip
      BY <1>4, <1>6, <2>2, <3>1
    <3>3. QED
      BY <1>4, <2>2, <3>1, <3>2
  <2>3. QED
    BY <2>1, <2>2
<1>7. v(i).trip \in IDs(ts) <=> \E t \in ts : t.id = v(i).trip
  BY DEF IDs
<1> HIDE DEF Alone
<1>8. QED
  BY <1>5, <1>6, <1>7 DEF Free, after

\* The vehicles of a message that have a trip have it for themselves, and have
\* an ID that none before them has.
LEMMA HeldAlone ==
  ASSUME NEW f \in Feeds, NEW msg \in Messages[f], NEW rows, NEW ts
  PROVE  /\ Accepted(msg, rows, ts) \subseteq Valid(msg)
         /\ \A i \in Accepted(msg, rows, ts) :
              /\ First(i, msg)
              /\ msg.vehicles[i].trip \in IDs(ts) \cup {None}
              /\ \A j \in Accepted(msg, rows, ts) :
                   msg.vehicles[i].trip = msg.vehicles[j].trip /\ msg.vehicles[i].trip # None => i = j
<1>1. ASSUME NEW i \in Accepted(msg, rows, ts)
      PROVE  i \in Valid(msg) /\ First(i, msg) /\ msg.vehicles[i].trip \in IDs(ts) \cup {None}
  BY DEF Accepted, Candidate, First, IDs
<1>2. ASSUME NEW i \in Accepted(msg, rows, ts), NEW j \in Accepted(msg, rows, ts),
             msg.vehicles[i].trip = msg.vehicles[j].trip, msg.vehicles[i].trip # None
      PROVE  i = j
  <2>1. i \in Nat /\ j \in Nat
    BY <1>1, FirstIsUnique
  <2>2. ~(i < j) /\ ~(j < i)
    BY <1>2 DEF Accepted
  <2>3. QED
    BY <2>1, <2>2
<1>3. QED
  BY <1>1, <1>2

\* After an update with a message the vehicles it accepts are the free ones,
\* and of several that are free for one trip the first.
LEMMA AcceptedAreFree ==
  ASSUME NEW f \in Feeds, NEW msg \in Messages[f], NEW rows, NEW ts \in SUBSET TripRow,
         UniqueIDs(ts), Valid(msg) # {}, NEW i \in Valid(msg)
  PROVE  i \in Accepted(msg, VehiclesAfter(f, msg, rows, ts), ts) <=>
           /\ Free(i, msg, ts, Accepted(msg, rows, ts))
           /\ \A j \in Valid(msg) :
                j < i /\ Free(j, msg, ts, Accepted(msg, rows, ts)) /\ msg.vehicles[j].trip # None
                  => msg.vehicles[j].trip # msg.vehicles[i].trip
<1> DEFINE after == VehiclesAfter(f, msg, rows, ts)
           held == Accepted(msg, rows, ts)
<1>1. \A j \in Valid(msg) : Candidate(j, msg, after, ts) <=> Free(j, msg, ts, held)
  BY CandidatesAreFree
<1>2. i \in Accepted(msg, after, ts) <=>
        /\ Candidate(i, msg, after, ts)
        /\ \A j \in Valid(msg) :
             j < i /\ Candidate(j, msg, after, ts) /\ msg.vehicles[j].trip # None
               => msg.vehicles[j].trip # msg.vehicles[i].trip
  BY DEF Accepted
<1> HIDE DEF after, held
<1>3. i \in Accepted(msg, after, ts) <=>
        /\ Free(i, msg, ts, held)
        /\ \A j \in Valid(msg) :
             j < i /\ Free(j, msg, ts, held) /\ msg.vehicles[j].trip # None
               => msg.vehicles[j].trip # msg.vehicles[i].trip
  BY <1>1, <1>2
<1>4. QED
  BY <1>3 DEF after, held

\* A trip that is there, and that a first vehicle names, is taken after an
\* update with the message.
LEMMA TripsAreTaken ==
  ASSUME NEW f \in Feeds, NEW msg \in Messages[f], NEW rows, NEW ts \in SUBSET TripRow,
         UniqueIDs(ts), Valid(msg) # {}, NEW i \in Valid(msg),
         First(i, msg), msg.vehicles[i].trip \in IDs(ts)
  PROVE  \E j \in Accepted(msg, VehiclesAfter(f, msg, rows, ts), ts) :
           msg.vehicles[j].trip = msg.vehicles[i].trip
<1> DEFINE held == Accepted(msg, rows, ts)
           then == Accepted(msg, VehiclesAfter(f, msg, rows, ts), ts)
           v(j) == msg.vehicles[j]
           T == {j \in Valid(msg) : Free(j, msg, ts, held) /\ v(j).trip = v(i).trip}
<1>1. v(i).trip # None
  <2>1. PICK t \in ts : t.id = v(i).trip
    BY DEF IDs
  <2>2. t.id \in Trips
    BY <2>1 DEF TripRow
  <2>3. QED
    BY <2>1, <2>2, NoneAssumption
<1>2. T # {}
  <2>1. CASE \E j \in held : v(j).trip = v(i).trip
    <3>1. PICK j \in held : v(j).trip = v(i).trip
      BY <2>1
    <3>2. j \in Valid(msg) /\ First(j, msg) /\ v(j).trip \in IDs(ts)
      BY <3>1, HeldAlone
    <3>3. \A k \in held : v(k).trip = v(j).trip => k = j
      BY <1>1, <3>1, HeldAlone
    <3>4. Free(j, msg, ts, held)
      BY <3>2, <3>3 DEF Free
    <3>5. QED
      BY <3>1, <3>2, <3>4
  <2>2. CASE ~ \E j \in held : v(j).trip = v(i).trip
    <3>1. Free(i, msg, ts, held)
      BY <2>2 DEF Free
    <3>2. QED
      BY <3>1
  <2>3. QED
    BY <2>1, <2>2
<1>3. T \subseteq Nat /\ Valid(msg) \subseteq Nat
  BY FirstIsUnique
<1>4. PICK j \in T : \A k \in T : j <= k
  BY <1>2, <1>3, LeastNumber
<1>5. j \in Valid(msg) /\ Free(j, msg, ts, held) /\ v(j).trip = v(i).trip
  OBVIOUS
<1>6. ASSUME NEW k \in Valid(msg), k < j, Free(k, msg, ts, held), v(k).trip = v(j).trip
      PROVE  FALSE
  <2>1. k \in T
    BY <1>5, <1>6
  <2>2. k \in Nat /\ j \in Nat /\ j <= k
    BY <1>3, <1>4, <1>5, <2>1
  <2>3. QED
    BY <1>6, <2>2
<1>7. j \in then
  BY <1>5, <1>6, AcceptedAreFree
<1>8. QED
  BY <1>5, <1>7

\* A second update with a message accepts the same vehicles as a third one.
LEMMA AcceptedSettle ==
  ASSUME NEW f \in Feeds, NEW msg \in Messages[f], NEW rows, NEW ts \in SUBSET TripRow,
         UniqueIDs(ts), Valid(msg) # {}
  PROVE  LET once == VehiclesAfter(f, msg, rows, ts)
             twice == VehiclesAfter(f, msg, once, ts)
         IN Accepted(msg, twice, ts) = Accepted(msg, once, ts)
<1> DEFINE once == VehiclesAfter(f, msg, rows, ts)
           twice == VehiclesAfter(f, msg, once, ts)
           A == Accepted(msg, once, ts)
           B == Accepted(msg, twice, ts)
           v(j) == msg.vehicles[j]
<1>1. /\ A \subseteq Valid(msg)
      /\ \A i \in A : /\ First(i, msg) /\ v(i).trip \in IDs(ts) \cup {None}
                      /\ \A j \in A : v(i).trip = v(j).trip /\ v(i).trip # None => i = j
  BY HeldAlone
<1>2. B \subseteq Valid(msg)
  BY HeldAlone
<1>3. \A i \in Valid(msg) :
        i \in B <=> /\ Free(i, msg, ts, A)
                    /\ \A j \in Valid(msg) : j < i /\ Free(j, msg, ts, A) /\ v(j).trip # None
                                               => v(j).trip # v(i).trip
  BY AcceptedAreFree
<1>4. \A i \in Valid(msg) : First(i, msg) /\ v(i).trip \in IDs(ts) =>
        \E j \in A : v(j).trip = v(i).trip
  BY TripsAreTaken
<1>5. \A i \in Valid(msg) : First(i, msg) /\ v(i).trip = None => i \in A
  <2> SUFFICES ASSUME NEW i \in Valid(msg), First(i, msg), v(i).trip = None PROVE i \in A
    OBVIOUS
  <2>1. Free(i, msg, ts, Accepted(msg, rows, ts))
    BY DEF Free
  <2>2. QED
    BY <2>1, AcceptedAreFree
<1>6. Valid(msg) \subseteq Nat
  BY FirstIsUnique
<1> HIDE DEF A, B, v
<1>7. ASSUME NEW i \in A PROVE i \in B
  <2>1. i \in Valid(msg) /\ First(i, msg) /\ v(i).trip \in IDs(ts) \cup {None}
    BY <1>1
  <2>2. Free(i, msg, ts, A)
    BY <1>1, <2>1 DEF Free, v
  <2>3. ASSUME NEW j \in Valid(msg), j < i, Free(j, msg, ts, A), v(j).trip # None,
               v(j).trip = v(i).trip
        PROVE  FALSE
    <3>1. i = j
      BY <2>3 DEF Free, v
    <3>2. QED
      BY <1>6, <2>1, <2>3, <3>1
  <2>4. QED
    BY <1>3, <2>1, <2>2, <2>3
<1>8. ASSUME NEW i \in B PROVE i \in A
  <2>1. i \in Valid(msg) /\ Free(i, msg, ts, A)
    BY <1>2, <1>3
  <2>2. First(i, msg)
    BY <2>1 DEF Free
  <2>3. CASE v(i).trip = None
    BY <1>5, <2>1, <2>2, <2>3
  <2>4. CASE v(i).trip # None
    <3>1. v(i).trip \in IDs(ts) /\ \A j \in A : v(j).trip = v(i).trip => j = i
      BY <2>1, <2>4 DEF Free, v
    <3>2. QED
      BY <1>4, <2>1, <2>2, <3>1
  <2>5. QED
    BY <2>3, <2>4
<1>9. A = B
  BY <1>7, <1>8
<1>10. QED
  BY <1>9 DEF A, B

\* What is left of other feeds is left again.
LEMMA RowsSettle ==
  ASSUME NEW f, NEW msg, NEW rows, NEW ts, Valid(msg) # {},
         LET once == VehiclesAfter(f, msg, rows, ts)
             twice == VehiclesAfter(f, msg, once, ts)
         IN Accepted(msg, twice, ts) = Accepted(msg, once, ts)
  PROVE  LET once == VehiclesAfter(f, msg, rows, ts)
             twice == VehiclesAfter(f, msg, once, ts)
         IN /\ VehiclesAfter(f, msg, twice, ts) = twice
            /\ \A i \in Accepted(msg, once, ts) : Row(msg.vehicles[i], f, ts) \in twice
<1> DEFINE Kept(rs) == {r \in rs : r.feed # f /\ r.id \notin ValidIDs(msg) /\ r.trip \notin Named(msg, ts)}
           New(rs) == {Row(msg.vehicles[i], f, ts) : i \in Accepted(msg, rs, ts)}
           once == VehiclesAfter(f, msg, rows, ts)
           twice == VehiclesAfter(f, msg, once, ts)
<1>1. \A rs : VehiclesAfter(f, msg, rs, ts) = Kept(rs) \cup New(rs)
  BY DEF VehiclesAfter
<1>2. \A rs : \A r \in New(rs) : r.feed = f
  BY DEF Row
<1>3. \A rs, qs : Kept(Kept(rs) \cup New(qs)) = Kept(rs)
  <2> SUFFICES ASSUME NEW rs, NEW qs PROVE Kept(Kept(rs) \cup New(qs)) = Kept(rs)
    OBVIOUS
  <2>1. \A r \in New(qs) : r.feed = f
    BY <1>2
  <2> HIDE DEF New
  <2>2. QED
    BY <2>1
<1>4. New(twice) = New(once)
  OBVIOUS
<1>5. /\ once = Kept(rows) \cup New(rows) /\ twice = Kept(once) \cup New(once)
      /\ VehiclesAfter(f, msg, twice, ts) = Kept(twice) \cup New(twice)
  BY <1>1
<1>6. \A i \in Accepted(msg, once, ts) : Row(msg.vehicles[i], f, ts) \in New(once)
  OBVIOUS
<1> HIDE DEF Kept, New, once, twice
<1>7. Kept(once) = Kept(rows) /\ Kept(twice) = Kept(once)
  BY <1>3, <1>5
<1>8. VehiclesAfter(f, msg, twice, ts) = twice
  BY <1>4, <1>5, <1>7
<1>9. \A i \in Accepted(msg, once, ts) : Row(msg.vehicles[i], f, ts) \in twice
  BY <1>5, <1>6
<1>10. QED
  BY <1>8, <1>9 DEF once, twice

\* A vehicle with an ID and a trip of its own has its row after two updates.
LEMMA DistinctAreAccepted ==
  ASSUME NEW f \in Feeds, NEW msg \in Messages[f], NEW rows, NEW ts \in SUBSET TripRow,
         UniqueIDs(ts), NEW i \in Valid(msg),
         Distinct(i, msg), msg.vehicles[i].trip \in IDs(ts) \cup {None}
  PROVE  i \in Accepted(msg, VehiclesAfter(f, msg, rows, ts), ts)
<1> DEFINE held == Accepted(msg, rows, ts)
           v(j) == msg.vehicles[j]
<1>1. Valid(msg) \subseteq Nat /\ held \subseteq Valid(msg)
  BY FirstIsUnique, HeldAlone
<1>2. First(i, msg)
  BY <1>1 DEF First, Distinct
<1>3. Free(i, msg, ts, held)
  BY <1>1, <1>2 DEF Free, Distinct
<1>4. ASSUME NEW j \in Valid(msg), j < i, Free(j, msg, ts, held), v(j).trip # None
      PROVE  v(j).trip # v(i).trip
  BY <1>1, <1>4 DEF Distinct
<1>5. QED
  BY <1>3, <1>4, AcceptedAreFree

(* Whatever the feeds, their messages and what has happened before: the second *)
(* of two updates with the same vehicles has all of those with an ID and a     *)
(* known trip of their own, and a third one changes nothing.                   *)
THEOREM VehiclesSettle == Spec => []UpdatesSettle
<1>1. TypeOK => UpdatesSettle
  <2> SUFFICES ASSUME TypeOK, NEW f \in Feeds, NEW msg \in Messages[f]
               PROVE  LET once == VehiclesAfter(f, msg, vehicles, trips)
                          twice == VehiclesAfter(f, msg, once, trips)
                      IN /\ VehiclesAfter(f, msg, twice, trips) = twice
                         /\ \A i \in Valid(msg) :
                              Distinct(i, msg) /\ msg.vehicles[i].trip \in IDs(trips) \cup {None}
                                => Row(msg.vehicles[i], f, trips) \in twice
    BY DEF UpdatesSettle
  <2> DEFINE once == VehiclesAfter(f, msg, vehicles, trips)
             twice == VehiclesAfter(f, msg, once, trips)
  <2>1. trips \in SUBSET TripRow /\ UniqueIDs(trips)
    BY DEF TypeOK, TripRow
  <2>2. CASE Valid(msg) = {}
    <3>1. \A rows : VehiclesAfter(f, msg, rows, trips) = rows
      BY <2>2 DEF VehiclesAfter
    <3>2. QED
      BY <2>2, <3>1
  <2>3. CASE Valid(msg) # {}
    <3>1. Accepted(msg, twice, trips) = Accepted(msg, once, trips)
      BY <2>1, <2>3, AcceptedSettle
    <3>2. /\ VehiclesAfter(f, msg, twice, trips) = twice
          /\ \A i \in Accepted(msg, once, trips) : Row(msg.vehicles[i], f, trips) \in twice
      BY <2>3, <3>1, RowsSettle
    <3>3. \A i \in Valid(msg) :
            Distinct(i, msg) /\ msg.vehicles[i].trip \in IDs(trips) \cup {None}
              => i \in Accepted(msg, once, trips)
      BY <2>1, DistinctAreAccepted
    <3> HIDE DEF once, twice
    <3>4. QED
      BY <3>2, <3>3 DEF once, twice
  <2>4. QED
    BY <2>2, <2>3
<1>2. QED
  BY <1>1, EntitiesTypeCorrect, PTL
=============================================================================
