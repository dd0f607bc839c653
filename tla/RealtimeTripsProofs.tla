------------------------- MODULE RealtimeTripsProofs -------------------------
(***************************************************************************)
(* Theorems about the module RealtimeTrips, for every set of feeds and     *)
(* trips and whatever the messages, the stops and the sequences: whom a    *)
(* trip belongs to, and its stop times.                                    *)
(***************************************************************************)
EXTENDS RealtimeTrips, WellFoundedInduction, TLAPS

\* Another feed may serve the trip.
Shared(f, t) == \E g \in Feeds \ {f} : \E msg \in Messages[g] : t \in TripsIn(msg)

\* A trip belongs to a feed only if the latest message of the feed has it, and
\* a trip of that message that does not belong to the feed is shared.
OwnerInv(f, t) ==
  /\ Has(f, t) => t \in seen[f]
  /\ t \in seen[f] /\ ~Has(f, t) => Shared(f, t)

IInv ==
  /\ seen = [f \in Feeds |-> seen[f]]
  /\ \A f \in Feeds : \A t \in Trips : OwnerInv(f, t)
-----------------------------------------------------------------------------
\* Initially there are no trips and no messages.
LEMMA InitIInv == Init => IInv
BY DEF Init, IInv, OwnerInv, Has, Stored

\* Which trips of a message an update looks at depends only on the routes.
LEMMA SameRoutes ==
  ASSUME routes' = routes
  PROVE  /\ \A msg : TripsIn(msg)' = TripsIn(msg)
         /\ \A f, t : Shared(f, t)' <=> Shared(f, t)
<1>1. \A msg : TripsIn(msg)' = TripsIn(msg)
  BY DEF TripsIn, Active
<1>2. QED
  BY <1>1 DEF Shared

\* A trip that an update looks at is looked at as long as its route stays.
LEMMA RouteStays ==
  ASSUME NEW R, routes' = R, NEW t, RouteOf[t] \in R
  PROVE  /\ \A msg : t \in TripsIn(msg) => t \in TripsIn(msg)'
         /\ \A f : Shared(f, t) => Shared(f, t)'
<1>1. ASSUME NEW msg, t \in TripsIn(msg) PROVE t \in TripsIn(msg)'
  <2>1. PICK i \in Active(msg) : t = msg[i].trip
    BY <1>1 DEF TripsIn
  <2>2. i \in Active(msg)'
    BY <2>1 DEF Active
  <2>3. QED
    BY <2>1, <2>2 DEF TripsIn
<1>2. QED
  BY <1>1 DEF Shared

\* Who a trip belongs to after an update: the feed, if the message has the
\* trip, and otherwise who it belonged to, unless the feed has dropped it.
LEMMA UpdateOwners ==
  ASSUME NEW g \in Feeds, NEW msg \in Messages[g], Update(g, msg), NEW t, NEW f \in Feeds
  PROVE  Has(f, t)' <=> \/ f = g /\ t \in TripsIn(msg)
                        \/ f # g /\ Has(f, t) /\ t \notin TripsIn(msg)
<1> DEFINE stale == Stale(g, msg)
           active == TripsIn(msg)
<1>1. PICK same \in SUBSET {s \in active : Has(g, s) /\ trips[s].stus = StusOf(s, msg)} :
        trips' = [s \in (Stored \ stale) \cup active |->
                    IF s \in active \ same
                    THEN [feed |-> g, stus |-> StusOf(s, msg),
                          rows |-> Written(StusOf(s, msg), RowsOf(s), g \in Reassign)]
                    ELSE trips[s]]
  BY DEF Update
<1>2. stale = {s \in Stored : Has(g, s)} \ active
  BY DEF Stale
<1>3. Stored' = (Stored \ stale) \cup active
  BY <1>1 DEF Stored
<1>4. t \in active \ same => t \in Stored' /\ trips'[t].feed = g
  BY <1>1, <1>3
<1>5. t \in same => t \in active /\ Has(g, t) /\ t \in Stored' /\ trips'[t] = trips[t]
  BY <1>1, <1>3
<1>6. t \in Stored' \ active => t \in Stored \ stale /\ trips'[t] = trips[t]
  BY <1>1, <1>3
<1> HIDE DEF active
<1>7. CASE t \in active
  BY <1>4, <1>5, <1>7 DEF Has, active
<1>8. CASE t \notin active
  <2>1. Has(f, t)' => f # g /\ Has(f, t)
    BY <1>2, <1>6, <1>8 DEF Has
  <2>2. f # g /\ Has(f, t) => Has(f, t)'
    BY <1>2, <1>3, <1>6, <1>8 DEF Has
  <2> QED
    BY <2>1, <2>2, <1>8 DEF active
<1> QED
  BY <1>7, <1>8

\* The invariant is kept by an update: only a feed whose messages have a trip
\* can take it over.
LEMMA UpdateIInv ==
  ASSUME IInv, NEW g \in Feeds, NEW msg \in Messages[g], Update(g, msg)
  PROVE  IInv'
<1>1. seen' = [seen EXCEPT ![g] = TripsIn(msg)]
  BY DEF Update
<1>2. seen'[g] = TripsIn(msg) /\ \A f \in Feeds \ {g} : seen'[f] = seen[f]
  BY <1>1 DEF IInv
<1>3. ASSUME NEW f \in Feeds, NEW t \in Trips
      PROVE  OwnerInv(f, t)'
  <2>1. Has(f, t)' <=> \/ f = g /\ t \in TripsIn(msg)
                       \/ f # g /\ Has(f, t) /\ t \notin TripsIn(msg)
    BY UpdateOwners
  <2>2. OwnerInv(f, t)
    BY DEF IInv
  <2>3. CASE f = g
    BY <1>2, <2>1, <2>3 DEF OwnerInv
  <2>4. CASE f # g
    <3>1. t \in TripsIn(msg) => Shared(f, t)
      BY <2>4 DEF Shared
    <3>2. Shared(f, t)' <=> Shared(f, t)
      BY SameRoutes DEF Update
    <3> QED
      BY <1>2, <2>1, <2>2, <2>4, <3>1, <3>2 DEF OwnerInv
  <2> QED
    BY <2>3, <2>4
<1>4. (seen = [f \in Feeds |-> seen[f]])'
  BY <1>1 DEF IInv
<1> QED
  BY <1>3, <1>4 DEF IInv

\* The other steps take trips away together with what their feed has shown.
LEMMA StepIInv == IInv /\ [Next]_vars => IInv'
<1> SUFFICES ASSUME IInv, [Next]_vars PROVE IInv'
  OBVIOUS
<1>1. CASE \E f \in Feeds : \E msg \in Messages[f] : Update(f, msg)
  BY <1>1, UpdateIInv
<1>2. ASSUME NEW g \in Feeds, DeleteFeed(g) PROVE IInv'
  <2>1. /\ trips' = [t \in {t \in Stored : ~Has(g, t)} |-> trips[t]]
        /\ seen' = [seen EXCEPT ![g] = {}]
        /\ routes' = routes
    BY <1>2 DEF DeleteFeed
  <2>2. \A f \in Feeds, t \in Trips : Has(f, t)' <=> f # g /\ Has(f, t)
    BY <2>1 DEF Has, Stored
  <2>3. \A f, t : Shared(f, t)' <=> Shared(f, t)
    BY <2>1, SameRoutes
  <2> QED
    BY <2>1, <2>2, <2>3 DEF IInv, OwnerInv
<1>3. ASSUME NEW S \in SUBSET Stops, NEW R \in SUBSET Routes, StaticUpdate(S, R)
      PROVE  IInv'
  <2>1. /\ trips' = [t \in On(R, Stored) |->
                       [trips[t] EXCEPT !.rows = {r \in @ : r.stop \in S}]]
        /\ seen' = [f \in Feeds |-> On(R, seen[f])]
        /\ routes' = R
    BY <1>3 DEF StaticUpdate
  <2>2. ASSUME NEW f \in Feeds, NEW t \in Trips
        PROVE  /\ Has(f, t)' <=> Has(f, t) /\ RouteOf[t] \in R
               /\ t \in seen'[f] <=> t \in seen[f] /\ RouteOf[t] \in R
    <3>1. t \in Stored' <=> t \in Stored /\ RouteOf[t] \in R
      BY <2>1 DEF Stored, On
    <3>2. t \in Stored' => trips'[t].feed = trips[t].feed
      BY <2>1, <3>1 DEF Stored, On, Has
    <3>3. Has(f, t)' <=> Has(f, t) /\ RouteOf[t] \in R
      BY <3>1, <3>2 DEF Has
    <3>4. QED
      BY <2>1, <3>3 DEF On
  <2>3. ASSUME NEW f \in Feeds, NEW t \in Trips PROVE OwnerInv(f, t)'
    <3>1. OwnerInv(f, t)
      BY DEF IInv
    <3>2. RouteOf[t] \in R /\ Shared(f, t) => Shared(f, t)'
      BY <2>1, RouteStays
    <3>3. QED
      BY <2>2, <3>1, <3>2 DEF OwnerInv
  <2>4. (seen = [f \in Feeds |-> seen[f]])'
    BY <2>1
  <2> QED
    BY <2>3, <2>4 DEF IInv
<1>4. CASE UNCHANGED vars
  <2>1. \A f, t : Shared(f, t)' <=> Shared(f, t)
    BY <1>4, SameRoutes DEF vars
  <2>2. seen' = seen /\ \A f, t : Has(f, t)' <=> Has(f, t)
    BY <1>4 DEF vars, Has, Stored
  <2> QED
    BY <2>1, <2>2 DEF IInv, OwnerInv
<1> QED
  BY <1>1, <1>2, <1>3, <1>4 DEF Next

\* A trip is in the latest message of the feed it belongs to, and a trip of
\* that message is stored and belongs to the feed unless another feed has it
\* too or its route was deleted since (updateTrips, DeleteStaleTrips, and the
\* cascade from DeleteStaleRoutes to the trips).
THEOREM OwnersAreRight == Spec => []TripsAreTheFeeds
<1>1. IInv => TripsAreTheFeeds
  BY DEF IInv, OwnerInv, Shared, TripsAreTheFeeds
<1> QED
  BY InitIInv, StepIInv, <1>1, PTL DEF Spec
-----------------------------------------------------------------------------
(***************************************************************************)
(* Induction over the stop time updates of a message, as the absence of a  *)
(* least counterexample.                                                   *)
(***************************************************************************)

\* A set of numbers has a least one.
LEMMA LeastNumber ==
  ASSUME NEW T, T \subseteq Nat, T # {}
  PROVE  \E x \in T : \A y \in T : x <= y
<1>1. \E R : /\ IsWellFoundedOn(R, Nat)
             /\ \A x, y \in Nat : <<y, x>> \in R <=> y < x
  <2> DEFINE R == OpToRel(<, Nat)
  <2>1. IsWellFoundedOn(R, Nat)
    BY NatLessThanWellFounded
  <2>2. \A x, y \in Nat : <<y, x>> \in R <=> y < x
    BY DEF OpToRel
  <2> HIDE DEF R
  <2>3. QED
    BY <2>1, <2>2
<1>2. PICK R : /\ IsWellFoundedOn(R, Nat)
               /\ \A x, y \in Nat : <<y, x>> \in R <=> y < x
  BY <1>1
<1>3. PICK x \in T : \A y \in T : ~ (<<y, x>> \in R)
  BY <1>2, WFMin
<1>4. ASSUME NEW y \in T PROVE x <= y
  <2>1. x \in Nat /\ y \in Nat /\ <<y, x>> \notin R
    BY <1>3
  <2>2. ~(y < x)
    BY <1>2, <2>1
  <2>3. QED
    BY <2>1, <2>2
<1>5. QED
  BY <1>4

\* Min of FiniteSetsExt.
LEMMA MinIs ==
  ASSUME NEW T, T \subseteq Nat, T # {}
  PROVE  Min(T) \in T /\ \A y \in T : Min(T) <= y
BY LeastNumber DEF Min

\* What holds of 0 and goes from each number to the next holds up to n.
LEMMA Induction ==
  ASSUME NEW n \in Nat, NEW P \in SUBSET (0..n), 0 \in P,
         \A i \in 1..n : i - 1 \in P => i \in P
  PROVE  P = 0..n
<1> DEFINE T == (0..n) \ P
<1>1. T \subseteq Nat
  OBVIOUS
<1>2. ASSUME T # {} PROVE FALSE
  <2>1. PICK x \in T : \A y \in T : x <= y
    <3> HIDE DEF T
    <3>1. QED
      BY <1>1, <1>2, LeastNumber
  <2>2. x \in 1..n /\ x - 1 \in 0..n /\ x \notin P
    OBVIOUS
  <2>3. x - 1 \in P
    <3>1. x - 1 \notin T
      <4> HIDE DEF T
      <4>1. QED
        BY <1>1, <2>1, <2>2
    <3>2. QED
      BY <2>2, <3>1
  <2>4. QED
    BY <2>2, <2>3
<1>3. QED
  BY <1>2

\* f starts at base and takes n steps.
Steps(f, n, base, step) ==
  f[0] = base /\ \A i \in 1..n : f[i] = step[i][f[i-1]]

\* A recursive function over 0..n exists.
LEMMA RecursiveFunction ==
  ASSUME NEW n \in Nat, NEW V, NEW base \in V, NEW step \in [1..n -> [V -> V]]
  PROVE  \E f \in [0..n -> V] : Steps(f, n, base, step)
<1> DEFINE P == {k \in 0..n : \E f \in [0..k -> V] : Steps(f, k, base, step)}
<1>1. 0 \in P
  <2> DEFINE f == [i \in 0..0 |-> base]
  <2>1. f \in [0..0 -> V] /\ Steps(f, 0, base, step)
    BY DEF Steps
  <2> HIDE DEF f
  <2>2. QED
    BY <2>1
<1>2. ASSUME NEW k \in 1..n, k - 1 \in P PROVE k \in P
  <2>1. PICK f \in [0..k-1 -> V] : Steps(f, k-1, base, step)
    BY <1>2
  <2> DEFINE g == [i \in 0..k |-> IF i = k THEN step[k][f[k-1]] ELSE f[i]]
  <2>2. g \in [0..k -> V]
    OBVIOUS
  <2>3. g[0] = base
    BY <2>1 DEF Steps
  <2>4. ASSUME NEW i \in 1..k PROVE g[i] = step[i][g[i-1]]
    <3>1. CASE i = k
      BY <3>1
    <3>2. CASE i # k
      BY <2>1, <3>2 DEF Steps
    <3>3. QED
      BY <3>1, <3>2
  <2>5. Steps(g, k, base, step)
    BY <2>3, <2>4 DEF Steps
  <2> HIDE DEF g
  <2>6. QED
    BY <2>2, <2>5
<1>3. P = 0..n
  <2>1. P \in SUBSET (0..n)
    OBVIOUS
  <2> HIDE DEF P
  <2>2. QED
    BY <1>1, <1>2, <2>1, Induction
<1>4. QED
  BY <1>3
-----------------------------------------------------------------------------
(***************************************************************************)
(* Stop sequences.                                                         *)
(***************************************************************************)

\* populateStopSequences goes up from the last sequence.
LEMMA SequenceIncreases ==
  ASSUME NEW last \in Int, last >= -1, NEW stu \in StopTimeUpdates,
         NEW rows \in SUBSET StopTimes, NEW reassign \in BOOLEAN
  PROVE  /\ Sequence(last, stu, rows, reassign) \in Nat
         /\ Sequence(last, stu, rows, reassign) > last
<1> DEFINE matched == {r.seq : r \in {r \in rows : /\ r.stop = stu.stop
                                                   /\ r.seq > last
                                                   /\ UniqueStops(rows)}}
<1>1. \A n \in matched : n \in Nat /\ n > last
  BY BoundAssumption DEF StopTimes
<1>2. stu.seq # None => stu.seq \in Nat
  BY BoundAssumption DEF StopTimeUpdates
<1>3. matched # {} => (CHOOSE n \in matched : TRUE) \in matched
  OBVIOUS
<1>4. Sequence(last, stu, rows, reassign) =
        IF ~reassign /\ stu.seq # None /\ last < stu.seq THEN stu.seq
        ELSE IF matched # {} THEN CHOOSE n \in matched : TRUE
        ELSE last + 1
  BY DEF Sequence
<1> HIDE DEF matched
<1>5. QED
  BY <1>1, <1>2, <1>3, <1>4

\* What the recursive definition of lastSequence says of it.
IsLast(last, stus, rows, reassign) ==
  /\ last \in [0..Len(stus) -> {x \in Int : x >= -1}]
  /\ last[0] = -1
  /\ \A i \in 1..Len(stus) :
       last[i] = IF stus[i].stop \notin stops THEN last[i-1]
                 ELSE Sequence(last[i-1], stus[i], rows, reassign)

\* lastSequence is as its recursive definition says.
LEMMA LastSequencesAre ==
  ASSUME NEW stus \in Seq(StopTimeUpdates), NEW rows \in SUBSET StopTimes,
         NEW reassign \in BOOLEAN
  PROVE  IsLast(LastSequences(stus, rows, reassign), stus, rows, reassign)
<1> DEFINE V == {x \in Int : x >= -1}
           n == Len(stus)
           step == [i \in 1..n |-> [x \in V |->
                      IF stus[i].stop \notin stops THEN x
                      ELSE Sequence(x, stus[i], rows, reassign)]]
           Def(f) == [i \in 0..n |->
                        IF i = 0 THEN -1
                        ELSE IF stus[i].stop \notin stops THEN f[i-1]
                        ELSE Sequence(f[i-1], stus[i], rows, reassign)]
<1>1. n \in Nat /\ \A i \in 1..n : stus[i] \in StopTimeUpdates
  OBVIOUS
<1>2. \A i \in 1..n, x \in V : Sequence(x, stus[i], rows, reassign) \in V
  BY <1>1, SequenceIncreases
<1>3. step \in [1..n -> [V -> V]]
  BY <1>2
<1>4. PICK f \in [0..n -> V] : Steps(f, n, -1, step)
  <2>1. -1 \in V
    OBVIOUS
  <2> HIDE DEF step, V, n
  <2>2. QED
    BY <1>1, <1>3, <2>1, RecursiveFunction
<1>5. f = Def(f)
  <2>1. ASSUME NEW i \in 1..n
        PROVE  step[i][f[i-1]] = IF stus[i].stop \notin stops THEN f[i-1]
                                 ELSE Sequence(f[i-1], stus[i], rows, reassign)
    <3>1. f[i-1] \in V
      OBVIOUS
    <3> HIDE DEF V, n
    <3>2. QED
      BY <3>1
  <2> HIDE DEF step, V, n
  <2>2. f[0] = -1 /\ \A i \in 1..n : f[i] = step[i][f[i-1]]
    BY <1>4 DEF Steps
  <2>3. ASSUME NEW i \in 0..n PROVE f[i] = Def(f)[i]
    <3>1. CASE i = 0
      BY <2>2, <3>1
    <3>2. CASE i # 0
      <4>1. i \in 1..n
        BY <1>1, <3>2
      <4>2. f[i] = step[i][f[i-1]]
        BY <2>2, <4>1
      <4>3. QED
        BY <2>1, <3>2, <4>1, <4>2
    <3>3. QED
      BY <3>1, <3>2
  <2>4. QED
    BY <1>4, <2>3
<1>6. LastSequences(stus, rows, reassign) = Def(LastSequences(stus, rows, reassign))
  <2>1. LastSequences(stus, rows, reassign) = CHOOSE g : g = Def(g)
    BY DEF LastSequences
  <2> HIDE DEF Def
  <2>2. QED
    BY <1>5, <2>1
<1> DEFINE last == LastSequences(stus, rows, reassign)
<1>7. /\ DOMAIN last = 0..n /\ last[0] = -1
      /\ \A i \in 1..n : last[i] = IF stus[i].stop \notin stops THEN last[i-1]
                                   ELSE Sequence(last[i-1], stus[i], rows, reassign)
      /\ last = [i \in 0..n |-> last[i]]
  <2> HIDE DEF last, n
  <2>1. last = Def(last)
    BY <1>6 DEF last
  <2>2. DOMAIN last = 0..n /\ last = [i \in 0..n |-> last[i]]
    BY <2>1
  <2>3. ASSUME NEW i \in 0..n
        PROVE  last[i] = IF i = 0 THEN -1
                         ELSE IF stus[i].stop \notin stops THEN last[i-1]
                         ELSE Sequence(last[i-1], stus[i], rows, reassign)
    <3>1. last[i] = Def(last)[i]
      BY <2>1
    <3> HIDE DEF last
    <3>2. QED
      BY <3>1
  <2>4. \A i \in 1..n : i \in 0..n /\ i # 0
    BY <1>1
  <2> HIDE DEF Def
  <2>5. last[0] = -1
    BY <1>1, <2>3
  <2>6. ASSUME NEW i \in 1..n
        PROVE  last[i] = IF stus[i].stop \notin stops THEN last[i-1]
                         ELSE Sequence(last[i-1], stus[i], rows, reassign)
    BY <2>3, <2>4
  <2>7. QED
    BY <2>2, <2>5, <2>6
<1>8. {i \in 0..n : last[i] \in V} = 0..n
  <2> DEFINE P == {i \in 0..n : last[i] \in V}
  <2>1. 0 \in P
    BY <1>7
  <2>2. ASSUME NEW i \in 1..n, i - 1 \in P PROVE i \in P
    <3>1. last[i-1] \in V
      BY <2>2
    <3> HIDE DEF last, n, V
    <3>2. Sequence(last[i-1], stus[i], rows, reassign) \in V
      BY <1>2, <3>1
    <3>3. last[i] \in V
      <4>1. CASE stus[i].stop \notin stops
        BY <1>7, <3>1, <4>1
      <4>2. CASE stus[i].stop \in stops
        BY <1>7, <3>2, <4>2
      <4>3. QED
        BY <4>1, <4>2
    <3>4. i \in 0..n
      BY <1>1
    <3>5. QED
      BY <3>3, <3>4
  <2> P \in SUBSET (0..n)
    OBVIOUS
  <2> HIDE DEF P, n
  <2>3. P = 0..n
    BY <1>1, <2>1, <2>2, Induction
  <2>4. QED
    BY <2>3 DEF P
<1>9. last \in [0..n -> V]
  <2> HIDE DEF last, n, V
  <2>1. QED
    BY <1>7, <1>8
<1>10. QED
  BY <1>7, <1>9 DEF IsLast

\* lastSequence never goes down, and goes up at each stop that is known.
LEMMA LastIncreases ==
  ASSUME NEW stus \in Seq(StopTimeUpdates), NEW rows \in SUBSET StopTimes,
         NEW reassign \in BOOLEAN, NEW last, IsLast(last, stus, rows, reassign),
         NEW i \in 0..Len(stus), NEW j \in i..Len(stus)
  PROVE  /\ last[i] \in Int /\ last[i] >= -1
         /\ last[i] <= last[j]
         /\ i < j /\ j \in Known(stus) => last[j] \in Nat /\ last[i] < last[j]
<1> DEFINE n == Len(stus)
           P == {k \in 0..n : i <= k => last[i] <= last[k]}
<1>1. n \in Nat /\ \A k \in 1..n : stus[k] \in StopTimeUpdates
  OBVIOUS
<1>2. \A k \in 0..n : last[k] \in Int /\ last[k] >= -1
  BY DEF IsLast
<1>3. ASSUME NEW k \in 1..n PROVE
        /\ last[k-1] <= last[k]
        /\ stus[k].stop \in stops => last[k] \in Nat /\ last[k-1] < last[k]
  <2>1. k - 1 \in 0..n
    BY <1>1
  <2>2. last[k-1] \in Int /\ last[k-1] >= -1
    BY <1>2, <2>1
  <2>3. last[k] = IF stus[k].stop \notin stops THEN last[k-1]
                  ELSE Sequence(last[k-1], stus[k], rows, reassign)
    BY DEF IsLast
  <2>4. /\ Sequence(last[k-1], stus[k], rows, reassign) \in Nat
        /\ Sequence(last[k-1], stus[k], rows, reassign) > last[k-1]
    BY <1>1, <2>2, SequenceIncreases
  <2> HIDE DEF n
  <2>5. QED
    BY <2>2, <2>3, <2>4
<1>4. P = 0..n
  <2>1. 0 \in P
    BY <1>1, <1>2
  <2>2. ASSUME NEW k \in 1..n, k - 1 \in P PROVE k \in P
    <3>1. k \in 0..n /\ k - 1 \in 0..n /\ i \in 0..n
      BY <1>1
    <3>2. i <= k - 1 => last[i] <= last[k-1]
      BY <2>2
    <3>3. last[k-1] <= last[k] /\ last[k] \in Int /\ last[k-1] \in Int /\ last[i] \in Int
      BY <1>2, <1>3, <3>1
    <3> HIDE DEF n
    <3>4. CASE k = i
      BY <3>1, <3>3, <3>4
    <3>5. CASE k # i
      <4>1. i <= k => i <= k - 1
        BY <3>1, <3>5
      <4>2. QED
        BY <3>1, <3>2, <3>3, <4>1
    <3>6. QED
      BY <3>4, <3>5
  <2>3. P \in SUBSET (0..n)
    OBVIOUS
  <2> HIDE DEF P, n
  <2>4. QED
    BY <1>1, <2>1, <2>2, <2>3, Induction
<1>5. \A k \in 0..n : i <= k => last[i] <= last[k]
  <2> HIDE DEF n
  <2>1. QED
    BY <1>4
<1>6. i \in 0..n /\ j \in 0..n /\ i <= j
  BY <1>1
<1>7. ASSUME i < j, j \in Known(stus) PROVE last[j] \in Nat /\ last[i] < last[j]
  <2>1. j \in 1..n /\ j - 1 \in 0..n /\ i <= j - 1 /\ stus[j].stop \in stops
    BY <1>1, <1>7 DEF Known
  <2>2. last[i] <= last[j-1] /\ last[j] \in Nat /\ last[j-1] < last[j]
    BY <1>3, <1>5, <2>1
  <2>3. last[i] \in Int /\ last[j-1] \in Int
    BY <1>2, <1>6, <2>1
  <2>4. QED
    BY <2>2, <2>3
<1> HIDE DEF n
<1>8. QED
  BY <1>2, <1>5, <1>6, <1>7

\* The sequences of a message: those of the stops that are known increase,
\* whatever the feed gives or leaves out.
Increasing(seqs, stus) ==
  /\ DOMAIN seqs = DOMAIN stus
  /\ \A i \in DOMAIN stus \ Known(stus) : seqs[i] = stus[i].seq
  /\ \A i \in Known(stus) : seqs[i] \in Nat
  /\ \A i, j \in Known(stus) : i < j => seqs[i] < seqs[j]

LEMMA SequencesIncrease ==
  ASSUME NEW stus \in Seq(StopTimeUpdates), NEW rows \in SUBSET StopTimes,
         NEW reassign \in BOOLEAN
  PROVE  Increasing(Sequences(stus, rows, reassign), stus)
<1> DEFINE last == LastSequences(stus, rows, reassign)
           seqs == Sequences(stus, rows, reassign)
<1>1. seqs = [i \in DOMAIN stus |-> IF stus[i].stop \in stops THEN last[i] ELSE stus[i].seq]
  BY DEF Sequences
<1>2. IsLast(last, stus, rows, reassign)
  BY LastSequencesAre
<1> HIDE DEF last, seqs
<1>3. \A i \in Known(stus) : i \in DOMAIN stus /\ i \in 1..Len(stus) /\ seqs[i] = last[i]
  BY <1>1 DEF Known
<1>4. ASSUME NEW i \in Known(stus) PROVE seqs[i] \in Nat
  <2>1. i \in 0..Len(stus) /\ 0 \in 0..Len(stus) /\ i \in 0..Len(stus) /\ 0 < i
    BY <1>3
  <2>2. last[i] \in Nat
    BY <1>2, <2>1, LastIncreases
  <2>3. QED
    BY <1>3, <2>2
<1>5. ASSUME NEW i \in Known(stus), NEW j \in Known(stus), i < j
      PROVE  seqs[i] < seqs[j]
  <2>1. i \in 0..Len(stus) /\ j \in i..Len(stus)
    BY <1>3, <1>5
  <2>2. last[i] < last[j]
    BY <1>2, <1>5, <2>1, LastIncreases
  <2>3. QED
    BY <1>3, <2>2
<1>6. DOMAIN seqs = DOMAIN stus /\ \A i \in DOMAIN stus \ Known(stus) : seqs[i] = stus[i].seq
  BY <1>1 DEF Known
<1>7. QED
  BY <1>4, <1>5, <1>6 DEF Increasing, seqs
-----------------------------------------------------------------------------
(***************************************************************************)
(* What an update writes.                                                  *)
(***************************************************************************)

\* Stop times that the message leaves, those it brings, and the mark.
Kept(rows, seqs, stus) ==
  {r \in rows : r.seq \notin {seqs[i] : i \in Known(stus)} /\ r.seq < Current(seqs)}
Inserted(seqs, stus) ==
  {[seq |-> seqs[i], stop |-> stus[i].stop, past |-> FALSE] : i \in Made(stus)}
Marked(r, current) == [r EXCEPT !.past = @ \/ r.seq < current]

\* What is written depends on the existing stop times through the sequences
\* and the stop times that are kept.
LEMMA WrittenIs ==
  ASSUME NEW stus, NEW rows, NEW reassign
  PROVE  LET seqs == Sequences(stus, rows, reassign)
         IN Written(stus, rows, reassign) =
              {Marked(r, Current(seqs)) : r \in Kept(rows, seqs, stus) \cup Inserted(seqs, stus)}
BY DEF Written, Marked, Kept, Inserted

\* Rows as an update writes them: the bound on sequences is on the model only.
AnyRows == [seq : Nat, stop : Stops, past : BOOLEAN]

\* currentStopSequence is the highest integer or the sequence of a stop.
LEMMA CurrentIs ==
  ASSUME NEW stus \in Seq(StopTimeUpdates), NEW seqs, Increasing(seqs, stus)
  PROVE  /\ Current(seqs) \in Nat
         /\ \A i \in Known(stus) :
              (\A j \in DOMAIN stus : j < i => seqs[j] = None) => Current(seqs) = seqs[i]
<1> DEFINE given == {i \in DOMAIN seqs : seqs[i] # None}
<1>1. DOMAIN seqs = DOMAIN stus /\ given \subseteq Nat /\ given \subseteq DOMAIN stus
  BY DEF Increasing
<1>2. Current(seqs) = IF given = {} THEN MaxInt32 ELSE seqs[Min(given)]
  BY DEF Current
<1>3. \A i \in Known(stus) : i \in DOMAIN stus /\ seqs[i] \in Nat
  BY DEF Increasing, Known
<1>4. \A i \in Known(stus) : i \in given
  BY <1>1, <1>3, NoneAssumption
<1>5. ASSUME NEW i \in given PROVE seqs[i] \in Nat
  <2>1. CASE i \in Known(stus)
    BY <1>3, <2>1
  <2>2. CASE i \notin Known(stus)
    <3>1. seqs[i] = stus[i].seq /\ seqs[i] # None /\ i \in DOMAIN stus
      BY <1>1, <2>2 DEF Increasing
    <3>2. stus[i] \in StopTimeUpdates
      BY <3>1
    <3>3. QED
      BY <3>1, <3>2, BoundAssumption DEF StopTimeUpdates
  <2>3. QED
    BY <2>1, <2>2
<1>6. Current(seqs) \in Nat
  <2>1. given # {} => Min(given) \in given
    <3> HIDE DEF given
    <3>1. QED
      BY <1>1, MinIs
  <2> HIDE DEF given
  <2>2. QED
    BY <1>2, <1>5, <2>1, BoundAssumption
<1>7. ASSUME NEW i \in Known(stus), \A j \in DOMAIN stus : j < i => seqs[j] = None
      PROVE  Current(seqs) = seqs[i]
  <2>1. i \in given
    BY <1>4
  <2>2. \A j \in given : ~(j < i)
    BY <1>1, <1>7
  <2> HIDE DEF given
  <2>3. Min(given) \in given /\ Min(given) <= i
    BY <1>1, <2>1, MinIs
  <2>4. Min(given) = i
    <3>1. ~(Min(given) < i) /\ Min(given) \in Nat /\ i \in Nat
      BY <1>1, <2>1, <2>2, <2>3
    <3>2. QED
      BY <2>3, <3>1
  <2>5. QED
    BY <1>2, <2>1, <2>4
<1>8. QED
  BY <1>6, <1>7

\* A row that is marked.
LEMMA MarkedIs ==
  ASSUME NEW r \in AnyRows, NEW current \in Nat
  PROVE  /\ Marked(r, current) \in AnyRows
         /\ Marked(r, current).seq = r.seq
         /\ Marked(r, current).stop = r.stop
         /\ Marked(r, current).past <=> r.past \/ r.seq < current
         /\ (r.past \/ r.seq < current) => Marked(r, current) = [r EXCEPT !.past = TRUE]
         /\ ~(r.past \/ r.seq < current) => Marked(r, current) = r
BY DEF Marked, AnyRows

UniqueSeqs(rows) == \A r1, r2 \in rows : r1.seq = r2.seq => r1 = r2
KnownStops(rows) == \A r \in rows : r.stop \in stops

\* The rows before they are marked.
LEMMA BeforeMarked ==
  ASSUME NEW stus \in Seq(StopTimeUpdates), NEW rows \in SUBSET StopTimes,
         NEW seqs, Increasing(seqs, stus)
  PROVE  /\ Kept(rows, seqs, stus) \subseteq AnyRows
         /\ Inserted(seqs, stus) \subseteq AnyRows
         /\ \A r \in Inserted(seqs, stus) : ~r.past /\ r.stop \in stops
         /\ UniqueSeqs(rows) => UniqueSeqs(Kept(rows, seqs, stus) \cup Inserted(seqs, stus))
<1>1. Kept(rows, seqs, stus) \subseteq rows /\ rows \subseteq AnyRows
  BY BoundAssumption DEF Kept, StopTimes, AnyRows
<1>2. ASSUME NEW i \in Made(stus)
      PROVE  i \in Known(stus) /\ seqs[i] \in Nat /\ stus[i].stop \in Stops /\ stus[i].stop \in stops
  <2>1. i \in Known(stus) /\ i \in DOMAIN stus /\ stus[i].stop \in stops
    BY DEF Made, Known
  <2>2. stus[i] \in StopTimeUpdates
    BY <2>1
  <2>3. QED
    BY <2>1, <2>2 DEF Increasing, StopTimeUpdates
<1>3. ASSUME NEW r \in Inserted(seqs, stus)
      PROVE  r \in AnyRows /\ ~r.past /\ r.stop \in stops
  <2>1. PICK i \in Made(stus) : r = [seq |-> seqs[i], stop |-> stus[i].stop, past |-> FALSE]
    BY DEF Inserted
  <2>2. seqs[i] \in Nat /\ stus[i].stop \in Stops /\ stus[i].stop \in stops
    BY <1>2
  <2>3. QED
    BY <2>1, <2>2 DEF AnyRows
<1>4. ASSUME UniqueSeqs(rows),
             NEW r1 \in Kept(rows, seqs, stus) \cup Inserted(seqs, stus),
             NEW r2 \in Kept(rows, seqs, stus) \cup Inserted(seqs, stus), r1.seq = r2.seq
      PROVE  r1 = r2
  <2>1. \A r \in Kept(rows, seqs, stus) : r \in rows /\ \A i \in Known(stus) : r.seq # seqs[i]
    BY DEF Kept
  <2>2. \A r \in Inserted(seqs, stus) : \E i \in Known(stus) :
          r = [seq |-> seqs[i], stop |-> stus[i].stop, past |-> FALSE]
    BY <1>2 DEF Inserted
  <2>3. CASE r1 \in Kept(rows, seqs, stus) /\ r2 \in Kept(rows, seqs, stus)
    BY <1>4, <2>1, <2>3 DEF UniqueSeqs
  <2>4. CASE r1 \in Inserted(seqs, stus) /\ r2 \in Inserted(seqs, stus)
    <3>1. PICK i \in Known(stus) : r1 = [seq |-> seqs[i], stop |-> stus[i].stop, past |-> FALSE]
      BY <2>2, <2>4
    <3>2. PICK j \in Known(stus) : r2 = [seq |-> seqs[j], stop |-> stus[j].stop, past |-> FALSE]
      BY <2>2, <2>4
    <3>3. seqs[i] = seqs[j] /\ seqs[i] \in Nat /\ i \in Nat /\ j \in Nat
      BY <1>4, <3>1, <3>2 DEF Increasing, Known
    <3>4. ~(i < j) /\ ~(j < i)
      BY <3>3 DEF Increasing
    <3>5. i = j
      BY <3>3, <3>4
    <3>6. QED
      BY <3>1, <3>2, <3>5
  <2>5. CASE r1 \in Kept(rows, seqs, stus) /\ r2 \in Inserted(seqs, stus)
    BY <1>4, <2>1, <2>2, <2>5
  <2>6. CASE r1 \in Inserted(seqs, stus) /\ r2 \in Kept(rows, seqs, stus)
    BY <1>4, <2>1, <2>2, <2>6
  <2>7. QED
    BY <1>4, <2>3, <2>4, <2>5, <2>6
<1>5. QED
  BY <1>1, <1>3, <1>4 DEF UniqueSeqs

\* The rows an update writes have different sequences and stops that are known.
LEMMA WrittenRows ==
  ASSUME NEW stus \in Seq(StopTimeUpdates), NEW rows \in SUBSET StopTimes,
         NEW reassign \in BOOLEAN, UniqueSeqs(rows), KnownStops(rows)
  PROVE  LET W == Written(stus, rows, reassign)
         IN W \subseteq AnyRows /\ UniqueSeqs(W) /\ KnownStops(W)
<1> DEFINE seqs == Sequences(stus, rows, reassign)
           W == Written(stus, rows, reassign)
           before == Kept(rows, seqs, stus) \cup Inserted(seqs, stus)
           current == Current(seqs)
<1>1. Increasing(seqs, stus)
  BY SequencesIncrease
<1>2. W = {Marked(r, current) : r \in before}
  BY WrittenIs
<1>3. current \in Nat
  BY <1>1, CurrentIs
<1>4. before \subseteq AnyRows /\ UniqueSeqs(before) /\ KnownStops(before)
  BY <1>1, BeforeMarked DEF KnownStops, Kept
<1> HIDE DEF seqs, W, before, current
<1>5. \A w \in W : \E r \in before : w = Marked(r, current)
  BY <1>2
<1>6. \A r \in before : /\ Marked(r, current) \in AnyRows
                        /\ Marked(r, current).seq = r.seq
                        /\ Marked(r, current).stop = r.stop
  BY <1>3, <1>4, MarkedIs
<1>7. W \subseteq AnyRows /\ KnownStops(W)
  BY <1>4, <1>5, <1>6 DEF KnownStops
<1>8. ASSUME NEW w1 \in W, NEW w2 \in W, w1.seq = w2.seq PROVE w1 = w2
  <2>1. PICK r1 \in before : w1 = Marked(r1, current)
    BY <1>5
  <2>2. PICK r2 \in before : w2 = Marked(r2, current)
    BY <1>5
  <2>3. r1 = r2
    BY <1>4, <1>6, <1>8, <2>1, <2>2 DEF UniqueSeqs
  <2>4. QED
    BY <2>1, <2>2, <2>3
<1>9. QED
  BY <1>7, <1>8 DEF UniqueSeqs, W
-----------------------------------------------------------------------------
(***************************************************************************)
(* The inductive invariant of the stop times.                              *)
(***************************************************************************)

\* The stop times of a trip that was written since the stops last changed are
\* what an update makes of some stop times.
WrittenFrom(stus, rows, reassign) ==
  \E rows0 \in SUBSET StopTimes : rows = Written(stus, rows0, reassign)

RowsInv ==
  /\ TypeOK
  /\ \A t \in Stored : UniqueSeqs(trips[t].rows) /\ KnownStops(trips[t].rows)
  /\ \A t \in fresh :
       WrittenFrom(trips[t].stus, trips[t].rows, trips[t].feed \in Reassign)

\* What is written depends on no variable but the stops.
LEMMA WrittenUnchanged ==
  ASSUME stops' = stops, NEW stus, NEW rows, NEW reassign
  PROVE  Written(stus, rows, reassign)' = Written(stus, rows, reassign)
<1>1. LastSequences(stus, rows, reassign)' = LastSequences(stus, rows, reassign)
  BY DEF LastSequences
<1>2. Sequences(stus, rows, reassign)' = Sequences(stus, rows, reassign)
  BY <1>1 DEF Sequences
<1>3. Known(stus)' = Known(stus) /\ Made(stus)' = Made(stus)
  BY DEF Known, Made
<1>4. QED
  BY <1>2, <1>3 DEF Written

\* A trip of a message has the stop time updates of an entity.
LEMMA StusOfType ==
  ASSUME NEW f \in Feeds, NEW msg \in Messages[f], NEW t \in TripsIn(msg)
  PROVE  t \in Trips /\ StusOf(t, msg) \in Seq(StopTimeUpdates)
<1>1. msg \in Seq(Entities)
  BY MessagesAssumption
<1> DEFINE T == {i \in Active(msg) : msg[i].trip = t}
<1>2. T \subseteq Nat /\ T # {} /\ T \subseteq DOMAIN msg
  BY <1>1 DEF TripsIn, Active
<1>3. Min(T) \in T
  <2> HIDE DEF T
  <2>1. QED
    BY <1>2, MinIs
<1>4. msg[Min(T)] \in Entities /\ msg[Min(T)].trip = t /\ t # None
  BY <1>1, <1>2, <1>3 DEF Active
<1>5. StusOf(t, msg) = msg[Min(T)].stus
  BY DEF StusOf
<1> HIDE DEF T
<1>6. QED
  BY <1>4, <1>5 DEF Entities

\* How an update leaves each trip.
LEMMA UpdateTrips ==
  ASSUME NEW g \in Feeds, NEW msg \in Messages[g], Update(g, msg)
  PROVE  \E same \in SUBSET {t \in TripsIn(msg) : Has(g, t) /\ trips[t].stus = StusOf(t, msg)} :
           /\ Stored' = (Stored \ Stale(g, msg)) \cup TripsIn(msg)
           /\ fresh' = (fresh \ Stale(g, msg)) \cup (TripsIn(msg) \ same)
           /\ \A t \in TripsIn(msg) \ same :
                /\ trips'[t] = [feed |-> g, stus |-> StusOf(t, msg),
                                rows |-> Written(StusOf(t, msg), RowsOf(t), g \in Reassign)]
                /\ \A r \in trips'[t].rows : r.seq <= MaxSeq
           /\ \A t \in Stored' \ (TripsIn(msg) \ same) : t \in Stored /\ trips'[t] = trips[t]
<1>1. PICK same \in SUBSET {t \in TripsIn(msg) : Has(g, t) /\ trips[t].stus = StusOf(t, msg)} :
        /\ trips' = [t \in (Stored \ Stale(g, msg)) \cup TripsIn(msg) |->
             IF t \in TripsIn(msg) \ same
             THEN [feed |-> g, stus |-> StusOf(t, msg),
                   rows |-> Written(StusOf(t, msg), RowsOf(t), g \in Reassign)]
             ELSE trips[t]]
        /\ \A t \in TripsIn(msg) : \A r \in trips'[t].rows : r.seq <= MaxSeq
        /\ fresh' = (fresh \ Stale(g, msg)) \cup (TripsIn(msg) \ same)
  BY DEF Update
<1>2. Stored' = (Stored \ Stale(g, msg)) \cup TripsIn(msg)
  BY <1>1 DEF Stored
<1>3. ASSUME NEW t \in TripsIn(msg) \ same
      PROVE  /\ trips'[t] = [feed |-> g, stus |-> StusOf(t, msg),
                             rows |-> Written(StusOf(t, msg), RowsOf(t), g \in Reassign)]
             /\ \A r \in trips'[t].rows : r.seq <= MaxSeq
  BY <1>1, <1>2
<1>4. ASSUME NEW t \in Stored' \ (TripsIn(msg) \ same)
      PROVE  t \in Stored /\ trips'[t] = trips[t]
  <2>1. t \in same => t \in Stored
    BY DEF Has
  <2>2. t \in Stored
    BY <1>2, <2>1
  <2>3. QED
    BY <1>1, <1>2, <2>2
<1>5. QED
  BY <1>1, <1>2, <1>3, <1>4

\* The invariant is kept by an update.
LEMMA UpdateRowsInv ==
  ASSUME RowsInv, NEW g \in Feeds, NEW msg \in Messages[g], Update(g, msg)
  PROVE  RowsInv'
<1>1. PICK same \in SUBSET {t \in TripsIn(msg) : Has(g, t) /\ trips[t].stus = StusOf(t, msg)} :
        /\ Stored' = (Stored \ Stale(g, msg)) \cup TripsIn(msg)
        /\ fresh' = (fresh \ Stale(g, msg)) \cup (TripsIn(msg) \ same)
        /\ \A t \in TripsIn(msg) \ same :
             /\ trips'[t] = [feed |-> g, stus |-> StusOf(t, msg),
                             rows |-> Written(StusOf(t, msg), RowsOf(t), g \in Reassign)]
             /\ \A r \in trips'[t].rows : r.seq <= MaxSeq
        /\ \A t \in Stored' \ (TripsIn(msg) \ same) : t \in Stored /\ trips'[t] = trips[t]
  BY UpdateTrips
<1>2. stops' = stops /\ routes' = routes /\ seen' = [seen EXCEPT ![g] = TripsIn(msg)]
  BY DEF Update
<1>3. \A t \in TripsIn(msg) : t \in Trips /\ StusOf(t, msg) \in Seq(StopTimeUpdates)
  BY StusOfType
<1>4. ASSUME NEW t
      PROVE  /\ RowsOf(t) \in SUBSET StopTimes
             /\ UniqueSeqs(RowsOf(t)) /\ KnownStops(RowsOf(t))
  BY DEF RowsInv, TypeOK, StoredTrips, RowsOf, UniqueSeqs, KnownStops
<1>5. ASSUME NEW t \in TripsIn(msg) \ same
      PROVE  /\ trips'[t] \in StoredTrips
             /\ UniqueSeqs(trips'[t].rows) /\ KnownStops(trips'[t].rows)
             /\ WrittenFrom(trips'[t].stus, trips'[t].rows, trips'[t].feed \in Reassign)
  <2> DEFINE W == Written(StusOf(t, msg), RowsOf(t), g \in Reassign)
  <2>1. (g \in Reassign) \in BOOLEAN
    OBVIOUS
  <2>2. W \subseteq AnyRows /\ UniqueSeqs(W) /\ KnownStops(W)
    BY <1>3, <1>4, <2>1, WrittenRows
  <2>3. /\ trips'[t] = [feed |-> g, stus |-> StusOf(t, msg), rows |-> W]
        /\ \A r \in trips'[t].rows : r.seq <= MaxSeq
    BY <1>1
  <2>4. WrittenFrom(StusOf(t, msg), W, g \in Reassign)
    BY <1>4 DEF WrittenFrom
  <2> HIDE DEF W
  <2>5. W \in SUBSET StopTimes
    <3>1. \A r \in W : r \in AnyRows /\ r.seq <= MaxSeq
      BY <2>2, <2>3
    <3>2. QED
      BY <3>1, BoundAssumption DEF AnyRows, StopTimes
  <2>6. StusOf(t, msg) \in Seq(StopTimeUpdates)
    BY <1>3
  <2>7. trips'[t] \in StoredTrips
    BY <2>3, <2>5, <2>6 DEF StoredTrips
  <2>8. QED
    BY <2>2, <2>3, <2>4, <2>7
<1>6. ASSUME NEW t \in Stored' \ (TripsIn(msg) \ same)
      PROVE  /\ trips'[t] \in StoredTrips
             /\ UniqueSeqs(trips'[t].rows) /\ KnownStops(trips'[t].rows)
             /\ t \in fresh => WrittenFrom(trips'[t].stus, trips'[t].rows, trips'[t].feed \in Reassign)
  <2>1. t \in Stored /\ trips'[t] = trips[t]
    BY <1>1
  <2>2. QED
    BY <2>1 DEF RowsInv, TypeOK
<1>7. \A stus, rows, reassign :
        WrittenFrom(stus, rows, reassign) => WrittenFrom(stus, rows, reassign)'
  BY <1>2, WrittenUnchanged DEF WrittenFrom
<1>8. \A rows : KnownStops(rows) => KnownStops(rows)'
  BY <1>2 DEF KnownStops
<1>9. TypeOK'
  <2>1. Stored' \subseteq On(routes', Trips)
    <3>1. \A t \in TripsIn(msg) : RouteOf[t] \in routes
      BY DEF TripsIn, Active
    <3>2. QED
      BY <1>1, <1>2, <1>3, <3>1 DEF RowsInv, TypeOK, On
  <2>2. (\A t \in Stored : trips[t] \in StoredTrips)'
    BY <1>5, <1>6
  <2>3. seen' \in [Feeds -> SUBSET Trips]
    BY <1>2, <1>3 DEF RowsInv, TypeOK
  <2>4. fresh' \subseteq Stored'
    BY <1>1 DEF RowsInv, TypeOK
  <2>5. QED
    BY <1>2, <2>1, <2>2, <2>3, <2>4 DEF RowsInv, TypeOK
<1>10. (\A t \in Stored : UniqueSeqs(trips[t].rows) /\ KnownStops(trips[t].rows))'
  <2>1. ASSUME NEW t \in Stored' PROVE UniqueSeqs(trips'[t].rows) /\ KnownStops(trips'[t].rows)
    BY <1>5, <1>6
  <2>2. QED
    BY <1>8, <2>1 DEF UniqueSeqs
<1>11. (\A t \in fresh :
          WrittenFrom(trips[t].stus, trips[t].rows, trips[t].feed \in Reassign))'
  <2>1. ASSUME NEW t \in fresh'
        PROVE  WrittenFrom(trips'[t].stus, trips'[t].rows, trips'[t].feed \in Reassign)
    <3>1. CASE t \in TripsIn(msg) \ same
      BY <1>5, <3>1
    <3>2. CASE t \notin TripsIn(msg) \ same
      <4>1. t \in fresh /\ t \in Stored'
        BY <1>1, <3>2 DEF RowsInv, TypeOK
      <4>2. QED
        BY <1>6, <3>2, <4>1
    <3>3. QED
      BY <3>1, <3>2
  <2>2. QED
    BY <1>7, <2>1
<1>12. QED
  BY <1>9, <1>10, <1>11 DEF RowsInv

\* What a static update leaves of a trip.
LEMMA StaticKeeps ==
  ASSUME RowsInv, NEW S \in SUBSET Stops, NEW R \in SUBSET Routes, StaticUpdate(S, R),
         NEW t \in Stored'
  PROVE  /\ trips'[t] \in StoredTrips
         /\ trips'[t].rows \subseteq trips[t].rows
         /\ \A r \in trips'[t].rows : r.stop \in S
         /\ S = stops => trips'[t] = trips[t]
<1>1. trips' = [s \in On(R, Stored) |->
                  [trips[s] EXCEPT !.rows = {r \in @ : r.stop \in S}]]
  BY DEF StaticUpdate
<1>2. t \in Stored /\ trips'[t] = [trips[t] EXCEPT !.rows = {r \in trips[t].rows : r.stop \in S}]
  BY <1>1 DEF Stored, On
<1>3. trips[t] \in StoredTrips /\ KnownStops(trips[t].rows)
  BY <1>2 DEF RowsInv, TypeOK
<1>4. ASSUME S = stops PROVE {r \in trips[t].rows : r.stop \in S} = trips[t].rows
  BY <1>3, <1>4 DEF KnownStops
<1>5. S = stops => trips'[t] = trips[t]
  BY <1>2, <1>3, <1>4 DEF StoredTrips
<1>6. QED
  BY <1>2, <1>3, <1>5 DEF StoredTrips

\* The invariant is kept by the other steps, which take trips or stop times
\* away.
LEMMA StepRowsInv == RowsInv /\ [Next]_vars => RowsInv'
<1> SUFFICES ASSUME RowsInv, [Next]_vars PROVE RowsInv'
  OBVIOUS
<1>1. CASE \E g \in Feeds : \E msg \in Messages[g] : Update(g, msg)
  BY <1>1, UpdateRowsInv
<1>2. ASSUME NEW g \in Feeds, DeleteFeed(g) PROVE RowsInv'
  <2>1. /\ trips' = [t \in {t \in Stored : ~Has(g, t)} |-> trips[t]]
        /\ seen' = [seen EXCEPT ![g] = {}]
        /\ fresh' = {t \in fresh : ~Has(g, t)}
        /\ stops' = stops /\ routes' = routes
    BY <1>2 DEF DeleteFeed
  <2>2. Stored' = {t \in Stored : ~Has(g, t)}
    BY <2>1 DEF Stored
  <2>3. \A t \in Stored' : t \in Stored /\ trips'[t] = trips[t]
    BY <2>1, <2>2
  <2>4. TypeOK'
    <3>1. /\ Stored' \subseteq On(routes', Trips)
          /\ (\A t \in Stored : trips[t] \in StoredTrips)'
      BY <2>1, <2>2, <2>3 DEF RowsInv, TypeOK
    <3>2. fresh' \subseteq Stored' /\ stops' \in SUBSET Stops /\ routes' \in SUBSET Routes
      BY <2>1, <2>2 DEF RowsInv, TypeOK
    <3>3. seen' \in [Feeds -> SUBSET Trips]
      BY <2>1 DEF RowsInv, TypeOK
    <3>4. QED
      BY <3>1, <3>2, <3>3 DEF TypeOK
  <2>5. (\A t \in Stored : UniqueSeqs(trips[t].rows) /\ KnownStops(trips[t].rows))'
    BY <2>1, <2>3 DEF RowsInv, UniqueSeqs, KnownStops
  <2>6. \A stus, rows, reassign :
          WrittenFrom(stus, rows, reassign) => WrittenFrom(stus, rows, reassign)'
    BY <2>1, WrittenUnchanged DEF WrittenFrom
  <2>7. (\A t \in fresh :
           WrittenFrom(trips[t].stus, trips[t].rows, trips[t].feed \in Reassign))'
    <3>1. ASSUME NEW t \in fresh'
          PROVE  WrittenFrom(trips'[t].stus, trips'[t].rows, trips'[t].feed \in Reassign)
      <4>1. t \in fresh /\ trips'[t] = trips[t]
        BY <2>1, <2>3, <2>4 DEF TypeOK
      <4>2. QED
        BY <4>1 DEF RowsInv
    <3>2. QED
      BY <2>6, <3>1
  <2>8. QED
    BY <2>4, <2>5, <2>7 DEF RowsInv
<1>3. ASSUME NEW S \in SUBSET Stops, NEW R \in SUBSET Routes, StaticUpdate(S, R)
      PROVE  RowsInv'
  <2>1. /\ stops' = S /\ routes' = R
        /\ seen' = [f \in Feeds |-> On(R, seen[f])]
        /\ fresh' = IF S = stops THEN On(R, fresh) ELSE {}
        /\ trips' = [t \in On(R, Stored) |->
                       [trips[t] EXCEPT !.rows = {r \in @ : r.stop \in S}]]
    BY <1>3 DEF StaticUpdate
  <2>2. Stored' = On(R, Stored) /\ Stored' \subseteq Stored
    BY <2>1 DEF Stored, On
  <2>3. ASSUME NEW t \in Stored'
        PROVE  /\ trips'[t] \in StoredTrips
               /\ trips'[t].rows \subseteq trips[t].rows
               /\ \A r \in trips'[t].rows : r.stop \in S
               /\ S = stops => trips'[t] = trips[t]
    BY <1>3, StaticKeeps
  <2>4. TypeOK'
    <3>1. Stored' \subseteq On(routes', Trips)
      BY <2>1, <2>2 DEF RowsInv, TypeOK, On
    <3>2. (\A t \in Stored : trips[t] \in StoredTrips)'
      BY <2>3
    <3>3. seen' \in [Feeds -> SUBSET Trips]
      BY <2>1 DEF RowsInv, TypeOK, On
    <3>4. fresh' \subseteq Stored'
      BY <2>1, <2>2 DEF RowsInv, TypeOK, On
    <3>5. QED
      BY <2>1, <3>1, <3>2, <3>3, <3>4 DEF TypeOK
  <2>5. (\A t \in Stored : UniqueSeqs(trips[t].rows) /\ KnownStops(trips[t].rows))'
    <3>1. ASSUME NEW t \in Stored' PROVE UniqueSeqs(trips'[t].rows)
      BY <2>2, <2>3 DEF RowsInv, UniqueSeqs
    <3>2. \A t \in Stored' : \A r \in trips'[t].rows : r.stop \in stops'
      BY <2>1, <2>3
    <3>3. QED
      BY <3>1, <3>2 DEF UniqueSeqs, KnownStops
  <2>6. (\A t \in fresh :
           WrittenFrom(trips[t].stus, trips[t].rows, trips[t].feed \in Reassign))'
    <3>1. CASE S # stops
      BY <2>1, <3>1
    <3>2. CASE S = stops
      <4>1. \A stus, rows, reassign :
              WrittenFrom(stus, rows, reassign) => WrittenFrom(stus, rows, reassign)'
        BY <2>1, <3>2, WrittenUnchanged DEF WrittenFrom
      <4>2. ASSUME NEW t \in fresh'
            PROVE  WrittenFrom(trips'[t].stus, trips'[t].rows, trips'[t].feed \in Reassign)
        <5>1. t \in fresh /\ t \in Stored'
          BY <2>1, <2>4, <3>2 DEF TypeOK, On
        <5>2. trips'[t] = trips[t]
          BY <2>3, <3>2, <5>1
        <5>3. QED
          BY <5>1, <5>2 DEF RowsInv
      <4>3. QED
        BY <4>1, <4>2
    <3>3. QED
      BY <3>1, <3>2
  <2>7. QED
    BY <2>4, <2>5, <2>6 DEF RowsInv
<1>4. CASE UNCHANGED vars
  <2>1. stops' = stops /\ routes' = routes /\ trips' = trips /\ seen' = seen /\ fresh' = fresh
    BY <1>4 DEF vars
  <2>2. \A stus, rows, reassign :
          WrittenFrom(stus, rows, reassign) => WrittenFrom(stus, rows, reassign)'
    BY <2>1, WrittenUnchanged DEF WrittenFrom
  <2>3. TypeOK'
    BY <2>1 DEF RowsInv, TypeOK, Stored
  <2>4. (\A t \in Stored : UniqueSeqs(trips[t].rows) /\ KnownStops(trips[t].rows))'
    BY <2>1 DEF RowsInv, UniqueSeqs, KnownStops, Stored
  <2>5. (\A t \in fresh :
           WrittenFrom(trips[t].stus, trips[t].rows, trips[t].feed \in Reassign))'
    BY <2>1, <2>2 DEF RowsInv
  <2>6. QED
    BY <2>3, <2>4, <2>5 DEF RowsInv
<1>5. QED
  BY <1>1, <1>2, <1>3, <1>4 DEF Next

\* Initially there are no trips.
LEMMA InitRowsInv == Init => RowsInv
<1> SUFFICES ASSUME Init PROVE RowsInv
  OBVIOUS
<1>1. stops = {} /\ routes = {} /\ Stored = {} /\ fresh = {} /\ seen \in [Feeds -> SUBSET Trips]
  BY DEF Init, Stored
<1>2. QED
  BY <1>1 DEF RowsInv, TypeOK

\* The stop times of the updates are in every reachable state what the
\* invariant says.
LEMMA AlwaysRowsInv == Spec => []RowsInv
BY InitRowsInv, StepRowsInv, PTL DEF Spec

\* The variables have their types, and no two stop times of a trip have the
\* same sequence, whatever sequences the feeds give, repeat or leave out
\* (populateStopSequences).
THEOREM SequencesAreUnique == Spec => []UniqueSequences
<1>1. RowsInv => UniqueSequences
  BY DEF RowsInv, UniqueSequences, UniqueSeqs
<1>2. QED
  BY AlwaysRowsInv, <1>1, PTL
-----------------------------------------------------------------------------
(***************************************************************************)
(* The future stop times are those of the feed.                            *)
(***************************************************************************)

\* What is written is known up to the mark: the rows that are kept become
\* past, and the rows of the message are as they were inserted if none of
\* them is before the current sequence.
LEMMA WrittenApart ==
  ASSUME NEW stus \in Seq(StopTimeUpdates), NEW rows \in SUBSET StopTimes,
         NEW reassign \in BOOLEAN, NEW seqs, seqs = Sequences(stus, rows, reassign),
         \A i \in Known(stus) : Current(seqs) <= seqs[i]
  PROVE  LET W == Written(stus, rows, reassign)
         IN /\ {r \in W : ~r.past} = Inserted(seqs, stus)
            /\ {r \in W : r.past} = {[r EXCEPT !.past = TRUE] : r \in Kept(rows, seqs, stus)}
            /\ W = {[r EXCEPT !.past = TRUE] : r \in Kept(rows, seqs, stus)} \cup Inserted(seqs, stus)
<1> DEFINE W == Written(stus, rows, reassign)
           kept == Kept(rows, seqs, stus)
           inserted == Inserted(seqs, stus)
           current == Current(seqs)
<1>1. Increasing(seqs, stus)
  BY SequencesIncrease
<1>2. W = {Marked(r, current) : r \in kept \cup inserted}
  BY WrittenIs
<1>3. current \in Nat
  BY <1>1, CurrentIs
<1>4. kept \subseteq AnyRows /\ inserted \subseteq AnyRows /\ \A r \in inserted : ~r.past
  BY <1>1, BeforeMarked
<1>5. \A r \in kept : r.seq < current
  BY DEF Kept
<1>6. ASSUME NEW r \in inserted PROVE ~(r.seq < current)
  <2>1. PICK i \in Made(stus) : r = [seq |-> seqs[i], stop |-> stus[i].stop, past |-> FALSE]
    BY DEF Inserted
  <2>2. i \in Known(stus) /\ seqs[i] \in Nat /\ r.seq = seqs[i] /\ current <= seqs[i]
    BY <1>1, <2>1 DEF Made, Increasing
  <2> HIDE DEF current
  <2>3. QED
    BY <1>3, <2>2
<1> HIDE DEF W, kept, inserted, current
<1>7. \A r \in kept : Marked(r, current) = [r EXCEPT !.past = TRUE] /\ Marked(r, current).past
  BY <1>3, <1>4, <1>5, MarkedIs
<1>8. \A r \in inserted : Marked(r, current) = r /\ ~r.past
  BY <1>3, <1>4, <1>6, MarkedIs
<1>9. W = {[r EXCEPT !.past = TRUE] : r \in kept} \cup inserted
  BY <1>2, <1>7, <1>8
<1>10. \A r \in kept : [r EXCEPT !.past = TRUE].past
  BY <1>7
<1> DEFINE pasts == {[r EXCEPT !.past = TRUE] : r \in kept}
<1>11. W = pasts \cup inserted /\ \A r \in pasts : r.past
  BY <1>9, <1>10
<1> HIDE DEF pasts
<1>12. {r \in W : ~r.past} = inserted /\ {r \in W : r.past} = pasts
  BY <1>8, <1>11
<1>13. QED
  BY <1>9, <1>12 DEF W, kept, inserted, pasts

\* The first stop that is known has the current sequence, unless an unknown
\* stop before it has a sequence.
LEMMA CurrentIsFirst ==
  ASSUME NEW stus \in Seq(StopTimeUpdates), NEW seqs, Increasing(seqs, stus),
         LeadsWithKnown(stus)
  PROVE  \A i \in Known(stus) : Current(seqs) <= seqs[i]
<1> SUFFICES ASSUME NEW i \in Known(stus) PROVE Current(seqs) <= seqs[i]
  OBVIOUS
<1>1. Known(stus) \subseteq Nat /\ Known(stus) # {} /\ Known(stus) \subseteq DOMAIN stus
  BY DEF Known
<1>2. PICK k \in Known(stus) : \A j \in Known(stus) : k <= j
  BY <1>1, LeastNumber
<1>3. ASSUME NEW j \in DOMAIN stus, j < k PROVE seqs[j] = None
  <2>1. \A l \in 1..j : l \in DOMAIN stus /\ ~(k <= l)
    BY <1>1, <1>3
  <2>2. \A l \in 1..j : l \notin Known(stus) /\ stus[l].stop \notin stops
    BY <1>2, <2>1 DEF Known
  <2>3. stus[j].seq = None
    BY <2>2 DEF LeadsWithKnown
  <2>4. j \notin Known(stus)
    BY <2>2
  <2>5. QED
    BY <2>3, <2>4 DEF Increasing
<1>4. Current(seqs) = seqs[k]
  BY <1>3, CurrentIs
<1>5. seqs[k] \in Nat /\ seqs[i] \in Nat /\ (k < i => seqs[k] < seqs[i]) /\ k <= i
  BY <1>2 DEF Increasing
<1>6. k \in Nat /\ i \in Nat
  BY <1>1
<1>7. CASE k = i
  BY <1>4, <1>5, <1>7
<1>8. CASE k < i
  BY <1>4, <1>5, <1>8
<1>9. QED
  BY <1>5, <1>6, <1>7, <1>8

\* The future stop times of a trip are the stops of the feed that are known
\* and made, in the order of the feed (populateStopSequences,
\* calculateStopTimeChanges and MarkTripStopTimesPast).
THEOREM FutureStopsAreTheFeeds == Spec => []FutureIsTheFeed
<1>1. RowsInv => FutureIsTheFeed
  <2> SUFFICES ASSUME RowsInv, NEW t \in fresh, LeadsWithKnown(trips[t].stus)
               PROVE  InFeedOrder({r \in trips[t].rows : ~r.past}, trips[t].stus)
    BY DEF FutureIsTheFeed
  <2> DEFINE stus == trips[t].stus
             W == trips[t].rows
             reassign == trips[t].feed \in Reassign
  <2>1. stus \in Seq(StopTimeUpdates) /\ W \in SUBSET StopTimes /\ reassign \in BOOLEAN
    BY DEF RowsInv, TypeOK, StoredTrips
  <2>2. PICK rows \in SUBSET StopTimes : W = Written(stus, rows, reassign)
    BY DEF RowsInv, WrittenFrom
  <2> DEFINE seqs == Sequences(stus, rows, reassign)
             seq == [i \in Made(stus) |-> seqs[i]]
  <2> HIDE DEF stus, W, reassign
  <2>3. Increasing(seqs, stus)
    BY <2>1, SequencesIncrease
  <2>4. LeadsWithKnown(stus)
    BY DEF stus
  <2>5. \A i \in Known(stus) : Current(seqs) <= seqs[i]
    BY <2>1, <2>3, <2>4, CurrentIsFirst
  <2> HIDE DEF seqs
  <2>6. {r \in W : ~r.past} = Inserted(seqs, stus)
    BY <2>1, <2>2, <2>5, WrittenApart DEF seqs
  <2>7. ASSUME NEW i \in Made(stus) PROVE seqs[i] \in 0..MaxSeq
    <3>1. [seq |-> seqs[i], stop |-> stus[i].stop, past |-> FALSE] \in W
      BY <2>6 DEF Inserted
    <3>2. QED
      BY <2>1, <3>1 DEF StopTimes
  <2>8. seq \in [Made(stus) -> 0..MaxSeq]
    BY <2>7
  <2>9. \A i, j \in Made(stus) : i < j => seq[i] < seq[j]
    BY <2>3 DEF Increasing, Made
  <2>10. {r \in W : ~r.past} =
           {[seq |-> seq[i], stop |-> stus[i].stop, past |-> FALSE] : i \in Made(stus)}
    BY <2>6 DEF Inserted
  <2> HIDE DEF seq
  <2>11. InFeedOrder({r \in W : ~r.past}, stus)
    BY <2>8, <2>9, <2>10 DEF InFeedOrder
  <2>12. QED
    BY <2>11 DEF W, stus
<1>2. QED
  BY AlwaysRowsInv, <1>1, PTL
-----------------------------------------------------------------------------
(***************************************************************************)
(* An update with the stops of the one before.                             *)
(***************************************************************************)

\* The sequences are those of lastSequence.
LEMMA SequencesFromLast ==
  ASSUME NEW stus \in Seq(StopTimeUpdates), NEW rows, NEW reassign
  PROVE  /\ DOMAIN Sequences(stus, rows, reassign) = DOMAIN stus
         /\ Sequences(stus, rows, reassign) =
              [i \in DOMAIN stus |-> IF stus[i].stop \in stops
                                     THEN LastSequences(stus, rows, reassign)[i]
                                     ELSE stus[i].seq]
BY DEF Sequences

\* If every stop has a sequence in the message and they increase, they are
\* used, whatever the existing stop times.
LEMMA GivenAreUsed ==
  ASSUME NEW stus \in Seq(StopTimeUpdates), NEW rows \in SUBSET StopTimes,
         NEW f, SequencesGiven(f, stus)
  PROVE  Sequences(stus, rows, f \in Reassign) = [i \in DOMAIN stus |-> stus[i].seq]
<1> DEFINE n == Len(stus)
           last == LastSequences(stus, rows, f \in Reassign)
           Good(i) == \A k \in Known(stus) : i < k => last[i] < stus[k].seq
           P == {i \in 0..n : Good(i)}
<1>1. n \in Nat /\ DOMAIN stus = 1..n
  OBVIOUS
<1>2. (f \in Reassign) \in BOOLEAN /\ ~(f \in Reassign)
  BY DEF SequencesGiven
<1>3. IsLast(last, stus, rows, f \in Reassign)
  BY <1>2, LastSequencesAre
<1>4. \A k \in Known(stus) : k \in 1..n /\ stus[k].seq # None /\ stus[k].seq \in Nat
  <2>1. ASSUME NEW k \in Known(stus) PROVE stus[k] \in StopTimeUpdates /\ k \in 1..n
    BY DEF Known
  <2>2. QED
    BY <2>1, BoundAssumption DEF SequencesGiven, StopTimeUpdates
<1> HIDE DEF last
<1>5. ASSUME NEW i \in 1..n, i - 1 \in P, i \in Known(stus) PROVE last[i] = stus[i].seq
  <2>1. last[i-1] < stus[i].seq
    BY <1>5
  <2>2. last[i] = Sequence(last[i-1], stus[i], rows, f \in Reassign)
    BY <1>3, <1>5 DEF IsLast, Known
  <2> HIDE DEF n, P
  <2>3. QED
    BY <1>2, <1>4, <1>5, <2>1, <2>2 DEF Sequence
<1>6. P = 0..n
  <2>1. 0 \in P
    <3>1. last[0] = -1
      BY <1>3 DEF IsLast
    <3>2. QED
      BY <1>1, <1>4, <3>1
  <2>2. ASSUME NEW i \in 1..n, i - 1 \in P PROVE i \in P
    <3>1. CASE i \in Known(stus)
      <4>1. last[i] = stus[i].seq
        BY <1>5, <2>2, <3>1
      <4>2. \A k \in Known(stus) : i < k => stus[i].seq < stus[k].seq
        BY <3>1 DEF SequencesGiven
      <4>3. i \in 0..n
        BY <1>1
      <4>4. QED
        BY <4>1, <4>2, <4>3
    <3>2. CASE i \notin Known(stus)
      <4>1. last[i] = last[i-1]
        BY <1>1, <1>3, <3>2 DEF IsLast, Known
      <4>2. \A k \in Known(stus) : i - 1 < k => last[i-1] < stus[k].seq
        BY <2>2
      <4>3. i \in 0..n /\ \A k \in Known(stus) : i < k => i - 1 < k
        BY <1>1, <1>4
      <4> HIDE DEF n
      <4>4. QED
        BY <4>1, <4>2, <4>3
    <3>3. QED
      BY <3>1, <3>2
  <2>3. P \in SUBSET (0..n)
    OBVIOUS
  <2> HIDE DEF P, n
  <2>4. QED
    BY <1>1, <2>1, <2>2, <2>3, Induction
<1>7. ASSUME NEW i \in DOMAIN stus, stus[i].stop \in stops PROVE last[i] = stus[i].seq
  <2>1. i \in 1..n /\ i - 1 \in 0..n /\ i \in Known(stus)
    BY <1>1, <1>7 DEF Known
  <2> HIDE DEF n, P
  <2>2. QED
    BY <1>5, <1>6, <2>1
<1>8. QED
  BY <1>7, SequencesFromLast DEF last

\* If the stop times can be told apart by their stops and the message is
\* written in full, each stop takes over the sequence it was written with.
LEMMA MatchedAreUsed ==
  ASSUME NEW stus \in Seq(StopTimeUpdates), NEW rows \in SUBSET StopTimes,
         NEW reassign \in BOOLEAN, NEW W \in SUBSET StopTimes,
         W = Written(stus, rows, reassign), Matchable(stus, W)
  PROVE  Sequences(stus, W, reassign) = Sequences(stus, rows, reassign)
<1> DEFINE n == Len(stus)
           seqs == Sequences(stus, rows, reassign)
           last == LastSequences(stus, rows, reassign)
           last2 == LastSequences(stus, W, reassign)
           P == {i \in 0..n : last2[i] = last[i]}
<1>1. n \in Nat /\ DOMAIN stus = 1..n
  OBVIOUS
<1>2. IsLast(last, stus, rows, reassign) /\ IsLast(last2, stus, W, reassign)
  BY LastSequencesAre
<1>3. Increasing(seqs, stus)
  BY SequencesIncrease
<1>4. \A i \in Known(stus) : i \in 1..n /\ seqs[i] = last[i] /\ last[i] \in Nat
  <2>1. \A i \in Known(stus) : i \in 1..n /\ seqs[i] = last[i]
    BY SequencesFromLast DEF Known
  <2>2. QED
    BY <1>3, <2>1 DEF Increasing
<1>5. ASSUME NEW i \in Known(stus)
      PROVE  \E r \in W : r.stop = stus[i].stop /\ r.seq = last[i]
  <2> DEFINE r == [seq |-> seqs[i], stop |-> stus[i].stop, past |-> FALSE]
  <2>1. i \in Made(stus)
    BY DEF Matchable
  <2>2. r \in Inserted(seqs, stus)
    BY <2>1 DEF Inserted
  <2>3. r \in AnyRows /\ Current(seqs) \in Nat
    BY <1>3, <2>2, CurrentIs, BeforeMarked
  <2>4. Marked(r, Current(seqs)) \in W
    BY <2>2, WrittenIs
  <2>5. r.seq = last[i] /\ r.stop = stus[i].stop
    BY <1>4
  <2> HIDE DEF r, seqs, last
  <2>6. Marked(r, Current(seqs)).seq = r.seq /\ Marked(r, Current(seqs)).stop = r.stop
    BY <2>3, MarkedIs
  <2>7. QED
    BY <2>4, <2>5, <2>6
<1> HIDE DEF last, last2, seqs
<1>6. ASSUME NEW i \in Known(stus), NEW l \in Int, l < last[i]
      PROVE  {r.seq : r \in {r \in W : r.stop = stus[i].stop /\ r.seq > l /\ UniqueStops(W)}}
               = {last[i]}
  <2>1. PICK w \in W : w.stop = stus[i].stop /\ w.seq = last[i]
    BY <1>5
  <2>2. \A r \in W : r.stop = stus[i].stop => r = w
    BY <2>1 DEF Matchable, UniqueStops
  <2>3. w.seq > l /\ UniqueStops(W)
    BY <1>4, <1>6, <2>1 DEF Matchable
  <2>4. {r \in W : r.stop = stus[i].stop /\ r.seq > l /\ UniqueStops(W)} = {w}
    BY <2>1, <2>2, <2>3
  <2>5. QED
    BY <2>1, <2>4
<1>7. ASSUME NEW i \in 1..n, i - 1 \in P PROVE i \in P
  <2>1. last2[i-1] = last[i-1] /\ i \in 0..n
    BY <1>1, <1>7
  <2>2. CASE i \notin Known(stus)
    <3>1. last2[i] = last2[i-1] /\ last[i] = last[i-1]
      BY <1>1, <1>2, <2>2 DEF IsLast, Known
    <3>2. QED
      BY <2>1, <3>1
  <2>3. CASE i \in Known(stus)
    <3> DEFINE l == last[i-1]
    <3>1. i - 1 \in 0..n /\ i \in (i-1)..n /\ i - 1 < i
      BY <1>1
    <3>2. l \in Int /\ l < last[i]
      BY <1>2, <2>3, <3>1, LastIncreases
    <3>3. last2[i] = Sequence(l, stus[i], W, reassign) /\ last[i] = Sequence(l, stus[i], rows, reassign)
      BY <1>2, <2>1, <2>3 DEF IsLast, Known
    <3> HIDE DEF l, n
    <3> DEFINE given == ~reassign /\ stus[i].seq # None /\ l < stus[i].seq
    <3>4. CASE given
      BY <3>3, <3>4 DEF Sequence
    <3>5. CASE ~given
      <4> DEFINE matched == {r.seq : r \in {r \in W : r.stop = stus[i].stop /\ r.seq > l /\ UniqueStops(W)}}
      <4>1. matched = {last[i]}
        BY <1>6, <2>3, <3>2
      <4>2. Sequence(l, stus[i], W, reassign) =
              IF matched # {} THEN CHOOSE m \in matched : TRUE ELSE l + 1
        BY <3>5 DEF Sequence
      <4> HIDE DEF matched
      <4>3. QED
        BY <2>1, <3>3, <4>1, <4>2
    <3>6. QED
      BY <2>1, <3>4, <3>5
  <2>4. QED
    BY <2>2, <2>3
<1>8. P = 0..n
  <2>1. 0 \in P
    BY <1>1, <1>2 DEF IsLast
  <2>2. P \in SUBSET (0..n)
    OBVIOUS
  <2> HIDE DEF P, n
  <2>3. QED
    BY <1>1, <1>7, <2>1, <2>2, Induction
<1>9. \A i \in DOMAIN stus : last2[i] = last[i]
  <2>1. \A i \in DOMAIN stus : i \in 0..n
    BY <1>1
  <2> HIDE DEF n
  <2>2. QED
    BY <1>8, <2>1
<1>10. QED
  BY <1>9, SequencesFromLast DEF last, last2

\* Writing what was written changes nothing if the sequences are the same.
LEMMA WrittenAgain ==
  ASSUME NEW stus \in Seq(StopTimeUpdates), NEW rows \in SUBSET StopTimes,
         NEW reassign \in BOOLEAN, NEW W \in SUBSET StopTimes,
         W = Written(stus, rows, reassign),
         Sequences(stus, W, reassign) = Sequences(stus, rows, reassign)
  PROVE  Written(stus, W, reassign) = W
<1> DEFINE seqs == Sequences(stus, rows, reassign)
           current == Current(seqs)
           replaced == {seqs[i] : i \in Known(stus)}
           kept == Kept(rows, seqs, stus)
           kept2 == Kept(W, seqs, stus)
           inserted == Inserted(seqs, stus)
           M(R) == {Marked(r, current) : r \in R}
<1>1. Increasing(seqs, stus)
  BY SequencesIncrease
<1>2. W = M(kept \cup inserted) /\ Written(stus, W, reassign) = M(kept2 \cup inserted)
  BY WrittenIs
<1>3. current \in Nat
  BY <1>1, CurrentIs
<1>4. kept \subseteq AnyRows /\ kept2 \subseteq AnyRows /\ inserted \subseteq AnyRows
  BY <1>1, BeforeMarked
<1>5. \A r \in kept : r.seq \notin replaced /\ r.seq < current
  BY DEF Kept
<1>6. kept2 = {r \in W : r.seq \notin replaced /\ r.seq < current}
  BY DEF Kept
<1>7. \A r \in inserted : r.seq \in replaced
  BY DEF Inserted, Made
<1> HIDE DEF seqs, current, replaced, kept, kept2, inserted
<1>8. \A r \in AnyRows : Marked(r, current) \in AnyRows /\ Marked(r, current).seq = r.seq
  BY <1>3, MarkedIs
<1>9. kept2 = M(kept)
  <2>1. ASSUME NEW w \in kept2 PROVE w \in M(kept)
    <3>1. w \in W /\ w.seq \notin replaced
      BY <1>6
    <3>2. PICK r \in kept \cup inserted : w = Marked(r, current)
      BY <1>2, <3>1
    <3>3. r.seq \notin replaced
      BY <1>4, <1>8, <3>1, <3>2
    <3>4. QED
      BY <1>7, <3>2, <3>3
  <2>2. ASSUME NEW r \in kept PROVE Marked(r, current) \in kept2
    <3>1. Marked(r, current).seq = r.seq
      BY <1>4, <1>8
    <3>2. Marked(r, current) \in W
      BY <1>2
    <3>3. QED
      BY <1>5, <1>6, <3>1, <3>2
  <2>3. QED
    BY <2>1, <2>2
<1>10. \A r \in kept : Marked(Marked(r, current), current) = Marked(r, current)
  <2> SUFFICES ASSUME NEW r \in kept
               PROVE  Marked(Marked(r, current), current) = Marked(r, current)
    OBVIOUS
  <2>1. r \in AnyRows /\ r.seq < current
    BY <1>4, <1>5
  <2> DEFINE m == Marked(r, current)
  <2>2. m = [r EXCEPT !.past = TRUE] /\ m \in AnyRows
    BY <1>3, <2>1, MarkedIs
  <2>3. m.past /\ m.past = TRUE
    BY <2>1, <2>2 DEF AnyRows
  <2> HIDE DEF m
  <2>4. Marked(m, current) = [m EXCEPT !.past = TRUE]
    BY <1>3, <2>2, <2>3, MarkedIs
  <2>5. [m EXCEPT !.past = TRUE] = m
    BY <2>2, <2>3 DEF AnyRows
  <2>6. QED
    BY <2>4, <2>5 DEF m
<1>11. M(kept2) = M(kept)
  BY <1>9, <1>10
<1>12. M(kept2 \cup inserted) = M(kept2) \cup M(inserted) /\ M(kept \cup inserted) = M(kept) \cup M(inserted)
  OBVIOUS
<1>13. QED
  BY <1>2, <1>11, <1>12

\* A step of the system that leaves the stops as they are, for one trip that is
\* stored before and after it: the trip is not changed, or an update writes it.
LEMMA TripSteps ==
  ASSUME RowsInv, [Next]_vars, NEW t \in Stored \cap Stored', stops' = stops
  PROVE  \/ trips'[t] = trips[t]
         \/ \E g \in Feeds : \E msg \in Messages[g] :
              /\ t \in TripsIn(msg)
              /\ trips'[t] = [feed |-> g, stus |-> StusOf(t, msg),
                              rows |-> Written(StusOf(t, msg), RowsOf(t), g \in Reassign)]
<1>1. CASE \E g \in Feeds : \E msg \in Messages[g] : Update(g, msg)
  <2>0. PICK g \in Feeds : \E msg \in Messages[g] : Update(g, msg)
    BY <1>1
  <2>1. PICK msg \in Messages[g] : Update(g, msg)
    BY <2>0
  <2>2. PICK same \in SUBSET {s \in TripsIn(msg) : Has(g, s) /\ trips[s].stus = StusOf(s, msg)} :
          /\ \A s \in TripsIn(msg) \ same :
               trips'[s] = [feed |-> g, stus |-> StusOf(s, msg),
                            rows |-> Written(StusOf(s, msg), RowsOf(s), g \in Reassign)]
          /\ \A s \in Stored' \ (TripsIn(msg) \ same) : s \in Stored /\ trips'[s] = trips[s]
    BY <2>1, UpdateTrips
  <2>3. CASE t \in TripsIn(msg) \ same
    BY <2>2, <2>3
  <2>4. CASE t \notin TripsIn(msg) \ same
    BY <2>2, <2>4
  <2>5. QED
    BY <2>3, <2>4
<1>2. ASSUME NEW g \in Feeds, DeleteFeed(g) PROVE trips'[t] = trips[t]
  BY <1>2 DEF DeleteFeed, Stored
<1>3. ASSUME NEW S \in SUBSET Stops, NEW R \in SUBSET Routes, StaticUpdate(S, R)
      PROVE  trips'[t] = trips[t]
  <2>1. S = stops
    BY <1>3 DEF StaticUpdate
  <2>2. QED
    BY <1>3, <2>1, StaticKeeps
<1>4. CASE UNCHANGED vars
  BY <1>4 DEF vars
<1>5. QED
  BY <1>1, <1>2, <1>3, <1>4 DEF Next

\* A message with the stops of the one before leaves the stop times as they
\* are, so that skipping a trip with the same hash is the same as updating it.
THEOREM RepeatsAreHarmless == Spec => RepeatsChangeNothing
<1>1. ASSUME RowsInv, [Next]_vars, NEW t \in fresh, stops' = stops, t \in Stored',
             trips'[t].feed = trips[t].feed, trips'[t].stus = trips[t].stus,
             \/ Matchable(trips[t].stus, trips[t].rows)
             \/ SequencesGiven(trips[t].feed, trips[t].stus)
      PROVE  trips'[t].rows = trips[t].rows
  <2> DEFINE f == trips[t].feed
             stus == trips[t].stus
             W == trips[t].rows
             reassign == f \in Reassign
  <2>1. t \in Stored
    BY <1>1 DEF RowsInv, TypeOK
  <2>2. stus \in Seq(StopTimeUpdates) /\ W \in SUBSET StopTimes /\ reassign \in BOOLEAN
    BY <1>1, <2>1 DEF RowsInv, TypeOK, StoredTrips
  <2>3. PICK rows \in SUBSET StopTimes : W = Written(stus, rows, reassign)
    BY <1>1 DEF RowsInv, WrittenFrom
  <2>4. CASE trips'[t] = trips[t]
    BY <2>4
  <2>5. ASSUME trips'[t].rows = Written(stus, W, reassign) PROVE trips'[t].rows = W
    <3>1. Matchable(stus, W) \/ SequencesGiven(f, stus)
      BY <1>1
    <3> HIDE DEF stus, W, f
    <3>2. Sequences(stus, W, reassign) = Sequences(stus, rows, reassign)
      <4>1. CASE Matchable(stus, W)
        <5> HIDE DEF reassign
        <5>1. QED
          BY <2>2, <2>3, <4>1, MatchedAreUsed
      <4>2. CASE SequencesGiven(f, stus)
        BY <2>2, <4>2, GivenAreUsed
      <4>3. QED
        BY <3>1, <4>1, <4>2
    <3> HIDE DEF reassign
    <3>3. Written(stus, W, reassign) = W
      BY <2>2, <2>3, <3>2, WrittenAgain
    <3>4. QED
      BY <2>5, <3>3
  <2>6. ASSUME NEW g \in Feeds, NEW msg \in Messages[g],
               trips'[t] = [feed |-> g, stus |-> StusOf(t, msg),
                            rows |-> Written(StusOf(t, msg), RowsOf(t), g \in Reassign)]
        PROVE  trips'[t].rows = Written(stus, W, reassign)
    <3>1. g = f /\ StusOf(t, msg) = stus /\ RowsOf(t) = W
      BY <1>1, <2>1, <2>6 DEF RowsOf
    <3>2. trips'[t].rows = Written(StusOf(t, msg), RowsOf(t), g \in Reassign)
      BY <2>6
    <3>3. QED
      BY <3>1, <3>2
  <2>7. \/ trips'[t] = trips[t]
        \/ \E g \in Feeds : \E msg \in Messages[g] :
             trips'[t] = [feed |-> g, stus |-> StusOf(t, msg),
                          rows |-> Written(StusOf(t, msg), RowsOf(t), g \in Reassign)]
    BY <1>1, <2>1, TripSteps
  <2>8. QED
    BY <2>4, <2>5, <2>6, <2>7
<1>2. RowsInv /\ [Next]_vars =>
        [\A t \in fresh :
           /\ stops' = stops /\ t \in Stored'
           /\ trips'[t].feed = trips[t].feed /\ trips'[t].stus = trips[t].stus
           /\ \/ Matchable(trips[t].stus, trips[t].rows)
              \/ SequencesGiven(trips[t].feed, trips[t].stus)
           => trips'[t].rows = trips[t].rows]_vars
  BY <1>1
<1>3. QED
  BY AlwaysRowsInv, <1>2, PTL DEF Spec, RepeatsChangeNothing

\* A message that begins with a stop the trip has keeps every stop time before
\* it and marks it as past, and marks no other.
THEOREM PastStopsAreKept == Spec => PastIsKept
<1>1. ASSUME RowsInv, [Next]_vars, NEW t \in Stored \cap Stored',
             trips'[t] # trips[t], stops' = stops, trips'[t].stus # <<>>,
             NEW at \in trips[t].rows, at.stop = trips'[t].stus[1].stop,
             UniqueStops(trips[t].rows),
             trips'[t].feed \in Reassign \/ trips'[t].stus[1].seq \in {None, at.seq}
      PROVE  {r \in trips'[t].rows : r.past} =
               {[r EXCEPT !.past = TRUE] : r \in {r \in trips[t].rows : r.seq < at.seq}}
  <2>0. PICK g \in Feeds : \E msg \in Messages[g] :
          /\ t \in TripsIn(msg)
          /\ trips'[t] = [feed |-> g, stus |-> StusOf(t, msg),
                          rows |-> Written(StusOf(t, msg), RowsOf(t), g \in Reassign)]
    BY <1>1, TripSteps
  <2>1. PICK msg \in Messages[g] :
          /\ t \in TripsIn(msg)
          /\ trips'[t] = [feed |-> g, stus |-> StusOf(t, msg),
                          rows |-> Written(StusOf(t, msg), RowsOf(t), g \in Reassign)]
    BY <2>0
  <2> DEFINE stus == StusOf(t, msg)
             rows == trips[t].rows
             reassign == g \in Reassign
             last == LastSequences(stus, rows, reassign)
             seqs == Sequences(stus, rows, reassign)
  <2>2. /\ trips'[t].feed = g /\ trips'[t].stus = stus
        /\ trips'[t].rows = Written(stus, rows, reassign)
    BY <1>1, <2>1 DEF RowsOf
  <2>3. stus \in Seq(StopTimeUpdates) /\ stus # <<>>
    BY <1>1, <2>1, <2>2, StusOfType
  <2>4. rows \in SUBSET StopTimes /\ KnownStops(rows) /\ reassign \in BOOLEAN
    BY <1>1 DEF RowsInv, TypeOK, StoredTrips
  <2>5. at \in rows /\ at.seq \in Nat /\ at.stop = stus[1].stop /\ UniqueStops(rows)
    BY <1>1, <2>2, <2>4, BoundAssumption DEF StopTimes
  <2>6. reassign \/ stus[1].seq \in {None, at.seq}
    BY <1>1, <2>2
  <2> HIDE DEF stus, rows, reassign, seqs, last
  <2>7. 1 \in DOMAIN stus /\ 1 \in Known(stus) /\ 1 \in 1..Len(stus) /\ stus[1] \in StopTimeUpdates
    <3>1. 1 \in DOMAIN stus /\ stus[1] \in StopTimeUpdates /\ 1 \in 1..Len(stus)
      BY <2>3
    <3>2. stus[1].stop \in stops
      BY <2>4, <2>5 DEF KnownStops
    <3>3. QED
      BY <3>1, <3>2 DEF Known
  <2>8. IsLast(last, stus, rows, reassign) /\ Increasing(seqs, stus)
    BY <2>3, <2>4, LastSequencesAre, SequencesIncrease DEF last, seqs
  <2>9. seqs[1] = Sequence(-1, stus[1], rows, reassign)
    <3>1. seqs[1] = last[1]
      BY <2>3, <2>7, SequencesFromLast DEF seqs, last, Known
    <3>2. last[1] = Sequence(last[0], stus[1], rows, reassign) /\ last[0] = -1
      BY <2>7, <2>8 DEF IsLast, Known
    <3>3. QED
      BY <3>1, <3>2
  <2>10. seqs[1] = at.seq
    <3> DEFINE matched == {r.seq : r \in {r \in rows : /\ r.stop = stus[1].stop
                                                       /\ r.seq > -1
                                                       /\ UniqueStops(rows)}}
    <3>1. \A r \in rows : r.stop = stus[1].stop => r = at
      BY <2>5 DEF UniqueStops
    <3>2. at.seq > -1
      BY <2>5
    <3>3. {r \in rows : r.stop = stus[1].stop /\ r.seq > -1 /\ UniqueStops(rows)} = {at}
      BY <2>5, <3>1, <3>2
    <3>4. matched = {at.seq}
      BY <3>3
    <3>5. Sequence(-1, stus[1], rows, reassign) =
            IF ~reassign /\ stus[1].seq # None /\ -1 < stus[1].seq THEN stus[1].seq
            ELSE IF matched # {} THEN CHOOSE m \in matched : TRUE ELSE -1 + 1
      BY DEF Sequence
    <3> HIDE DEF matched
    <3>6. QED
      BY <2>6, <2>9, <3>4, <3>5
  <2>11. Current(seqs) = at.seq
    <3>1. \A j \in DOMAIN stus : ~(j < 1)
      BY <2>3
    <3>2. Current(seqs) = seqs[1]
      BY <2>3, <2>7, <2>8, <3>1, CurrentIs
    <3>3. QED
      BY <2>10, <3>2
  <2>12. \A i \in Known(stus) : seqs[i] \in Nat /\ at.seq <= seqs[i]
    <3>1. ASSUME NEW i \in Known(stus) PROVE seqs[i] \in Nat /\ at.seq <= seqs[i]
      <4>1. i \in Nat /\ (i = 1 \/ 1 < i)
        BY <2>3 DEF Known
      <4>2. seqs[i] \in Nat /\ (1 < i => seqs[1] < seqs[i])
        BY <2>7, <2>8 DEF Increasing
      <4>3. QED
        BY <2>5, <2>10, <4>1, <4>2
    <3>2. QED
      BY <3>1
  <2>13. Kept(rows, seqs, stus) = {r \in rows : r.seq < at.seq}
    <3>1. \A r \in rows : r.seq \in Nat
      BY <2>4, BoundAssumption DEF StopTimes
    <3>2. ASSUME NEW r \in rows, r.seq < at.seq, NEW i \in Known(stus) PROVE r.seq # seqs[i]
      BY <2>5, <2>12, <3>1, <3>2
    <3>3. QED
      BY <2>11, <3>2 DEF Kept
  <2>14. {r \in Written(stus, rows, reassign) : r.past} =
           {[r EXCEPT !.past = TRUE] : r \in Kept(rows, seqs, stus)}
    BY <2>3, <2>4, <2>11, <2>12, WrittenApart DEF seqs
  <2>15. QED
    BY <2>2, <2>13, <2>14 DEF rows
<1>2. RowsInv /\ [Next]_vars =>
        [\A t \in Stored \cap Stored' :
           trips'[t] # trips[t] /\ stops' = stops /\ trips'[t].stus # <<>> =>
           LET first == trips'[t].stus[1]
               reassigned == trips'[t].feed \in Reassign
               past == {r \in trips'[t].rows : r.past}
           IN \A at \in trips[t].rows :
                /\ at.stop = first.stop /\ UniqueStops(trips[t].rows)
                /\ reassigned \/ first.seq \in {None, at.seq}
                => past = {[r EXCEPT !.past = TRUE] : r \in {r \in trips[t].rows : r.seq < at.seq}}]_vars
  BY <1>1
<1>3. QED
  BY AlwaysRowsInv, <1>2, PTL DEF Spec, PastIsKept
=============================================================================
