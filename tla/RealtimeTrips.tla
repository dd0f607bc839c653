---------------------------- MODULE RealtimeTrips ----------------------------
(***************************************************************************)
(* The trips of a system and their stop times, as the GTFS realtime feeds  *)
(* of the system leave them (updateTrips in                                *)
(* internal/update/realtime/realtime.go).                                  *)
(*                                                                         *)
(* A feed lists for each trip the stops it has yet to make.  Transiter     *)
(* keeps the others as past stop times, and gives every stop time a        *)
(* sequence number, since feeds need not.  A trip may be in several feeds. *)
(*                                                                         *)
(* Arrival times, delays, tracks and headsigns are left out.  They are     *)
(* part of the hash of a trip, so two messages with the same stops may or  *)
(* may not have the same hash.  An update is one transaction; FeedUpdate   *)
(* is about overlapping ones.                                              *)
(***************************************************************************)
EXTENDS Integers, SequencesExt

CONSTANTS Feeds,     \* realtime feeds of the system
          Reassign,  \* the feeds with the option reassign_stop_sequences
          Trips,     \* trip UIDs: a trip ID and a route,
          RouteOf,   \* which is this one
          Stops,     \* stop IDs
          Messages,  \* per feed, the messages it may serve
          None,      \* no route, no sequence
          MaxInt32,  \* 2147483647 in the code
          MaxSeq     \* bound: the highest sequence of a stop time

(***************************************************************************)
(* A stop time update has a stop, the feed's sequence or None, and is      *)
(* skipped or not.  One without a stop ID is treated like one of an        *)
(* unknown stop.  An entity that is cancelled stands as well for one that  *)
(* is deleted and for a trip that only a vehicle mentions.  The route of   *)
(* its trip is the one it names or that of the scheduled trip with its ID; *)
(* its trip is None if it has neither.  Sequences are far below 2^31.      *)
(***************************************************************************)
StopTimeUpdates == [stop : Stops, seq : 0..MaxSeq \cup {None}, skipped : BOOLEAN]
Entities == [trip : Trips \cup {None}, cancelled : BOOLEAN,
             stus : Seq(StopTimeUpdates)]
StopTimes == [seq : 0..MaxSeq, stop : Stops, past : BOOLEAN]
StoredTrips == [feed : Feeds, stus : Seq(StopTimeUpdates), rows : SUBSET StopTimes]

ASSUME BoundAssumption == MaxInt32 \in Nat /\ MaxSeq \in 0..(MaxInt32 - 1)
ASSUME ReassignAssumption == Reassign \subseteq Feeds
ASSUME MessagesAssumption ==
  \A f \in Feeds : \A msg \in Messages[f] : msg \in Seq(Entities)
ASSUME NoneAssumption == None \notin Int

VARIABLES
  stops,  \* the stops the static data has
  routes, \* the routes it has
  trips,  \* per stored trip, its feed, its stop times, and the stop time
          \* updates they come from (which are in the trip's gtfs_hash)
  seen,   \* history: per feed, the trips of its latest message, as long as
          \* their routes stay
  fresh   \* history: the trips written since the stops last changed

vars == <<stops, routes, trips, seen, fresh>>

Init ==
  /\ stops = {}
  /\ routes = {}
  /\ trips = <<>>
  /\ seen = [f \in Feeds |-> {}]
  /\ fresh = {}
-----------------------------------------------------------------------------
(* populateStopSequences and calculateStopTimeChanges.                     *)

UniqueStops(rows) == \A r1, r2 \in rows : r1.stop = r2.stop => r1 = r2

\* Mutants of Sequence: a sequence may be repeated, or existing stop times are
\* not matched by their stop.
SequenceRepeated(last, stu, rows, reassign) ==
  IF ~reassign /\ stu.seq # None /\ last <= stu.seq THEN stu.seq
  ELSE last + 1

SequenceUnmatched(last, stu, rows, reassign) ==
  IF ~reassign /\ stu.seq # None /\ last < stu.seq THEN stu.seq
  ELSE last + 1

\* The sequence for a stop time update of a known stop: the feed's if it is
\* increasing, that of the trip's existing stop time at the stop, or the next.
Sequence(last, stu, rows, reassign) ==
  LET matched == {r.seq : r \in {r \in rows : /\ r.stop = stu.stop
                                              /\ r.seq > last
                                              /\ UniqueStops(rows)}}
  IN IF ~reassign /\ stu.seq # None /\ last < stu.seq THEN stu.seq
     ELSE IF matched # {} THEN CHOOSE n \in matched : TRUE
     ELSE last + 1

\* lastSequence, after each stop time update.
LastSequences(stus, rows, reassign) ==
  LET last[i \in 0..Len(stus)] ==
        IF i = 0 THEN -1
        ELSE IF stus[i].stop \notin stops THEN last[i-1]
        ELSE Sequence(last[i-1], stus[i], rows, reassign)
  IN last

\* The sequences of all stop time updates.  Those of unknown stops are left
\* as they are.
Sequences(stus, rows, reassign) ==
  LET last == LastSequences(stus, rows, reassign)
  IN [i \in DOMAIN stus |-> IF stus[i].stop \in stops THEN last[i]
                                                       ELSE stus[i].seq]

Known(stus) == {i \in DOMAIN stus : stus[i].stop \in stops}
Made(stus) == {i \in Known(stus) : ~stus[i].skipped}

\* currentStopSequence: the first sequence in the message.
Current(seqs) ==
  LET given == {i \in DOMAIN seqs : seqs[i] # None}
  IN IF given = {} THEN MaxInt32 ELSE seqs[Min(given)]

\* Mutants of Written: stop times that are past already are deleted; skipped
\* stops are written.
WrittenForgetsPast(stus, rows, reassign) ==
  LET seqs == Sequences(stus, rows, reassign)
      current == Current(seqs)
      replaced == {seqs[i] : i \in Known(stus)}
      kept == {r \in rows : r.seq \notin replaced /\ r.seq < current /\ ~r.past}
      inserted == {[seq |-> seqs[i], stop |-> stus[i].stop, past |-> FALSE] :
                     i \in Made(stus)}
  IN {[r EXCEPT !.past = @ \/ r.seq < current] : r \in kept \cup inserted}

WrittenWithSkipped(stus, rows, reassign) ==
  LET seqs == Sequences(stus, rows, reassign)
      current == Current(seqs)
      replaced == {seqs[i] : i \in Known(stus)}
      kept == {r \in rows : r.seq \notin replaced /\ r.seq < current}
      inserted == {[seq |-> seqs[i], stop |-> stus[i].stop, past |-> FALSE] :
                     i \in Known(stus)}
  IN {[r EXCEPT !.past = @ \/ r.seq < current] : r \in kept \cup inserted}

\* The stop times of the trip after the update: those at a sequence in the
\* message are replaced, unless their stop is skipped now, those after the
\* current one are deleted, and those before it are marked as past.
Written(stus, rows, reassign) ==
  LET seqs == Sequences(stus, rows, reassign)
      current == Current(seqs)
      replaced == {seqs[i] : i \in Known(stus)}
      kept == {r \in rows : r.seq \notin replaced /\ r.seq < current}
      inserted == {[seq |-> seqs[i], stop |-> stus[i].stop, past |-> FALSE] :
                     i \in Made(stus)}
  IN {[r EXCEPT !.past = @ \/ r.seq < current] : r \in kept \cup inserted}
-----------------------------------------------------------------------------
\* The entities an update looks at: those whose route it finds.
Active(msg) ==
  {i \in DOMAIN msg : ~msg[i].cancelled /\ msg[i].trip # None /\ RouteOf[msg[i].trip] \in routes}
TripsIn(msg) == {msg[i].trip : i \in Active(msg)}

\* Of entities with the same UID the first one counts.
StusOf(t, msg) == msg[Min({i \in Active(msg) : msg[i].trip = t})].stus

Stored == DOMAIN trips
Has(f, t) == t \in Stored /\ trips[t].feed = f
RowsOf(t) == IF t \in Stored THEN trips[t].rows ELSE {}

\* Mutant of Stale: trips are never deleted.
StaleNever(f, msg) == {}

\* DeleteStaleTrips.
Stale(f, msg) == {t \in Stored : Has(f, t)} \ TripsIn(msg)

\* updateTrips.  The trips in same have the hash they were written with.
Update(f, msg) ==
  \E same \in SUBSET {t \in TripsIn(msg) : Has(f, t)
                                           /\ trips[t].stus = StusOf(t, msg)} :
    /\ trips' = [t \in (Stored \ Stale(f, msg)) \cup TripsIn(msg) |->
         IF t \in TripsIn(msg) \ same
         THEN [feed |-> f, stus |-> StusOf(t, msg),
               rows |-> Written(StusOf(t, msg), RowsOf(t), f \in Reassign)]
         ELSE trips[t]]
    /\ \A t \in TripsIn(msg) : \A r \in trips'[t].rows : r.seq <= MaxSeq
    /\ seen' = [seen EXCEPT ![f] = TripsIn(msg)]
    /\ fresh' = (fresh \ Stale(f, msg)) \cup (TripsIn(msg) \ same)
    /\ UNCHANGED <<stops, routes>>

Routes == {RouteOf[t] : t \in Trips}
On(R, T) == {t \in T : RouteOf[t] \in R}

\* A static update leaves the stops S and the routes R.  The stop times of a
\* stop and the trips of a route go with it (ON DELETE CASCADE).
StaticUpdate(S, R) ==
  /\ <<S, R>> # <<stops, routes>>
  /\ stops' = S /\ routes' = R
  /\ trips' = [t \in On(R, Stored) |->
       [trips[t] EXCEPT !.rows = {r \in @ : r.stop \in S}]]
  /\ seen' = [f \in Feeds |-> On(R, seen[f])]
  /\ fresh' = IF S = stops THEN On(R, fresh) ELSE {}

\* The feed is taken out of the system, and its trips with it.
DeleteFeed(f) ==
  /\ trips' = [t \in {t \in Stored : ~Has(f, t)} |-> trips[t]]
  /\ seen' = [seen EXCEPT ![f] = {}]
  /\ fresh' = {t \in fresh : ~Has(f, t)}
  /\ UNCHANGED <<stops, routes>>

Next ==
  \/ \E f \in Feeds : \/ \E msg \in Messages[f] : Update(f, msg)
                      \/ DeleteFeed(f)
  \/ \E S \in SUBSET Stops, R \in SUBSET Routes : StaticUpdate(S, R)

Spec == Init /\ [][Next]_vars
-----------------------------------------------------------------------------
(* Properties.                                                             *)

\* The variables have their types; a trip that was written was written from
\* the stop time updates it remembers.
TypeOK ==
  /\ stops \in SUBSET Stops
  /\ routes \in SUBSET Routes
  /\ Stored \subseteq On(routes, Trips)
  /\ \A t \in Stored : trips[t] \in StoredTrips
  /\ seen \in [Feeds -> SUBSET Trips]
  /\ fresh \subseteq Stored

\* The rows are those of the schema, with UNIQUE(trip_pk, stop_sequence): an
\* update, with whatever sequences the feed gives or leaves out, never fails
\* for it.
UniqueSequences ==
  /\ TypeOK
  /\ \A t \in Stored : \A r1, r2 \in trips[t].rows : r1.seq = r2.seq => r1 = r2

\* The stop times are those of the stops that are made, in their order.
InFeedOrder(rows, stus) ==
  \E seq \in [Made(stus) -> 0..MaxSeq] :
    /\ \A i, j \in Made(stus) : i < j => seq[i] < seq[j]
    /\ rows = {[seq |-> seq[i], stop |-> stus[i].stop, past |-> FALSE] : i \in Made(stus)}

\* No stop time update before the first one of a known stop has a sequence.
LeadsWithKnown(stus) ==
  \A i \in DOMAIN stus : (\A j \in 1..i : stus[j].stop \notin stops) => stus[i].seq = None

\* "A stop time is considered in the future if it appeared in the most recent
\* GTFS realtime feed for its trip" (api/public.proto, StopTime.future): the
\* future stops of a trip are those of the feed, in the feed's order, as far as
\* they are known and made.  A sequence given for an unknown stop that comes
\* first can move the stops after it to the past.
FutureIsTheFeed ==
  \A t \in fresh :
    LeadsWithKnown(trips[t].stus) =>
      InFeedOrder({r \in trips[t].rows : ~r.past}, trips[t].stus)

\* The stop times of a trip can be told apart by their stops, and the message
\* has no stop that is skipped and so has no stop time: one could take over the
\* sequence of another stop time at the stop, or push the sequences after it.
Matchable(stus, rows) == UniqueStops(rows) /\ Made(stus) = Known(stus)

\* Every stop has a sequence in the message, and they increase.
SequencesGiven(f, stus) ==
  /\ f \notin Reassign
  /\ \A i \in Known(stus) : stus[i].seq # None
  /\ \A i, j \in Known(stus) : i < j => stus[i].seq < stus[j].seq

\* A message with the stops of the one before, and other times, changes
\* nothing else: an update that does not skip the trip does what skipping it
\* would do.  Without this past stop times would be lost over time.
RepeatsChangeNothing ==
  [][\A t \in fresh :
       /\ stops' = stops /\ t \in Stored'
       /\ trips'[t].feed = trips[t].feed /\ trips'[t].stus = trips[t].stus
       /\ \/ Matchable(trips[t].stus, trips[t].rows)
          \/ SequencesGiven(trips[t].feed, trips[t].stus)
       => trips'[t].rows = trips[t].rows]_vars

\* "When this stop time disappears from the trip, Transiter marks it as in the
\* past and freezes its data" (api/public.proto, StopTime.future): a message
\* that begins with a stop the trip has keeps every stop time before it,
\* marked as past.
PastIsKept ==
  [][\A t \in Stored \cap Stored' :
       trips'[t] # trips[t] /\ stops' = stops /\ trips'[t].stus # <<>> =>
       LET first == trips'[t].stus[1]
           reassigned == trips'[t].feed \in Reassign
           past == {r \in trips'[t].rows : r.past}
       IN \A at \in trips[t].rows :
            /\ at.stop = first.stop /\ UniqueStops(trips[t].rows)
            /\ reassigned \/ first.seq \in {None, at.seq}
            => past = {[r EXCEPT !.past = TRUE] : r \in {r \in trips[t].rows : r.seq < at.seq}}]_vars

\* A trip is in the latest message of the feed it belongs to, and a trip of
\* that message is stored as the feed's unless another feed has it too, or its
\* route was deleted since.
TripsAreTheFeeds ==
  \A f \in Feeds : \A t \in Trips :
    /\ Has(f, t) => t \in seen[f]
    /\ t \in seen[f] /\ ~Has(f, t) =>
         \E g \in Feeds \ {f} : \E msg \in Messages[g] : t \in TripsIn(msg)
=============================================================================
