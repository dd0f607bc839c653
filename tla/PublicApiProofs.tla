--------------------------- MODULE PublicApiProofs ---------------------------
(***************************************************************************)
(* Theorems about the requests to the public API, for any tables and any   *)
(* updates of them: StopRequests and PublicRequests.                       *)
(***************************************************************************)
EXTENDS PublicApi, FiniteSetTheorems, TLAPS

\* A set of numbers has a least one.
LEMMA LeastNumber ==
  ASSUME NEW T, T \subseteq Nat, T # {}
  PROVE  \E x \in T : \A y \in T : x <= y
<1>1. \E R : /\ IsWellFoundedOn(R, Nat)
             /\ \A x, y \in Nat : <<y, x>> \in R <=> y < x
  <2> DEFINE R == OpToRel(<, Nat)
  <2>1. IsWellFoundedOn(R, Nat)
    BY NatLessThanWellFounded
  <2>2. \A x, y \in Nat : <<y, x>> \in R <=> y < x
    BY DEF OpToRel
  <2> HIDE DEF R
  <2>3. QED
    BY <2>1, <2>2
<1>2. PICK R : /\ IsWellFoundedOn(R, Nat)
               /\ \A x, y \in Nat : <<y, x>> \in R <=> y < x
  BY <1>1
<1>3. PICK x \in T : \A y \in T : ~ (<<y, x>> \in R)
  BY <1>2, WFMin
<1>4. ASSUME NEW y \in T PROVE x <= y
  <2>1. x \in Nat /\ y \in Nat /\ <<y, x>> \notin R
    BY <1>3
  <2>2. ~(y < x)
    BY <1>2, <2>1
  <2>3. QED
    BY <2>1, <2>2
<1>5. QED
  BY <1>4

\* The IDs of the stops of a database are finitely many numbers.
LEMMA StopIDsAre ==
  ASSUME NEW d, WellFormed(d)
  PROVE  IsFiniteSet({s.id : s \in d.stops}) /\ {s.id : s \in d.stops} \subseteq Nat
<1> DEFINE ids == {s.id : s \in d.stops}
           f == [s \in d.stops |-> s.id]
<1>1. IsFiniteSet(d.stops) /\ ids \subseteq Nat
  <2>1. \A s \in d.stops : s.id \in IDs
    BY DEF WellFormed
  <2>2. \A i \in IDs : i \in Nat
    BY LimitsAssumption
  <2>3. QED
    BY <2>1, <2>2 DEF WellFormed
<1>2. f \in Surjection(d.stops, ids)
  BY DEF Surjection
<1> HIDE DEF f
<1>3. IsFiniteSet(ids)
  BY <1>1, <1>2, FS_Surjection
<1>4. QED
  BY <1>1, <1>3
-----------------------------------------------------------------------------
(***************************************************************************)
(* The pages of a list.                                                    *)
(***************************************************************************)

\* In order, a number has a higher rank than those before it.
LEMMA RankIncreases ==
  ASSUME NEW ids \in SUBSET Nat, IsFiniteSet(ids)
  PROVE  /\ \A x \in ids : Rank(ids, x) \in Nat
         /\ \A x, y \in ids : x < y <=> Rank(ids, x) < Rank(ids, y)
<1> DEFINE before(x) == {j \in ids : j < x}
<1>1. ASSUME NEW x PROVE IsFiniteSet(before(x)) /\ Rank(ids, x) = Cardinality(before(x)) /\ Rank(ids, x) \in Nat
  BY FS_Subset, FS_CardinalityType DEF Rank
<1>2. ASSUME NEW x \in ids, NEW y \in ids, x < y PROVE Rank(ids, x) < Rank(ids, y)
  <2>1. x \notin before(x) /\ before(x) \cup {x} \subseteq before(y)
    <3>1. \A j \in ids : j \in Nat
      OBVIOUS
    <3>2. \A j \in ids : j < x => j < y
      BY <1>2, <3>1
    <3>3. ~(x < x)
      BY <3>1
    <3>4. QED
      BY <1>2, <3>2, <3>3
  <2>2. IsFiniteSet(before(x)) /\ IsFiniteSet(before(y))
    BY <1>1
  <2> HIDE DEF before
  <2>3. Cardinality(before(x) \cup {x}) = Cardinality(before(x)) + 1
    BY <2>1, <2>2, FS_AddElement
  <2>4. Cardinality(before(x) \cup {x}) <= Cardinality(before(y))
    BY <2>1, <2>2, FS_Subset
  <2>5. QED
    BY <1>1, <2>3, <2>4
<1>3. ASSUME NEW x \in ids, NEW y \in ids, Rank(ids, x) < Rank(ids, y) PROVE x < y
  <2>1. Rank(ids, x) \in Nat /\ Rank(ids, y) \in Nat
    BY <1>1
  <2>2. ~(y < x)
    BY <1>2, <1>3, <2>1
  <2>3. x # y
    BY <1>3, <2>1
  <2>4. QED
    BY <2>2, <2>3
<1>4. QED
  BY <1>1, <1>2, <1>3

LEMMA BelowAre ==
  ASSUME NEW n \in Nat
  PROVE  IsFiniteSet(0..(n - 1)) /\ Cardinality(0..(n - 1)) = n
<1> DEFINE m == n - 1
<1>1. m \in Int /\ 0 \in Int
  OBVIOUS
<1>2. IsFiniteSet(0..m) /\ Cardinality(0..m) = IF 0 > m THEN 0 ELSE m - 0 + 1
  <2> HIDE DEF m
  <2>1. QED
    BY <1>1, FS_Interval
<1>3. QED
  BY <1>2

\* If one has a rank of at least n, one has the rank n.
LEMMA RanksAreDense ==
  ASSUME NEW ids \in SUBSET Nat, IsFiniteSet(ids), NEW n \in Nat,
         NEW y \in ids, Rank(ids, y) >= n
  PROVE  \E x \in ids : Rank(ids, x) = n
<1> DEFINE high == {x \in ids : Rank(ids, x) >= n}
<1>1. PICK x \in high : \A z \in high : x <= z
  <2>1. high \subseteq Nat /\ high # {}
    OBVIOUS
  <2> HIDE DEF high
  <2>2. QED
    BY <2>1, LeastNumber
<1> DEFINE before == {j \in ids : j < x}
           f == [j \in before |-> Rank(ids, j)]
<1>2. IsFiniteSet(before) /\ Rank(ids, x) = Cardinality(before) /\ Rank(ids, x) \in Nat
  BY FS_Subset, FS_CardinalityType DEF Rank
<1>3. \A j \in before : Rank(ids, j) \in 0..(n - 1)
  <2> SUFFICES ASSUME NEW j \in before PROVE Rank(ids, j) \in 0..(n - 1)
    OBVIOUS
  <2>1. j \notin high
    BY <1>1
  <2>2. Rank(ids, j) \in Nat /\ ~(Rank(ids, j) >= n)
    BY <2>1, RankIncreases
  <2>3. QED
    BY <2>2
<1>4. \A i, j \in before : Rank(ids, i) = Rank(ids, j) => i = j
  <2> SUFFICES ASSUME NEW i \in before, NEW j \in before, Rank(ids, i) = Rank(ids, j) PROVE i = j
    OBVIOUS
  <2>1. ~(i < j) /\ ~(j < i)
    BY RankIncreases
  <2>2. QED
    BY <2>1
<1>5. f \in Injection(before, 0..(n - 1))
  <2> HIDE DEF before
  <2>1. QED
    BY <1>3, <1>4 DEF Injection, IsInjective
<1>6. IsFiniteSet(0..(n - 1)) /\ Cardinality(0..(n - 1)) = n
  BY BelowAre
<1> HIDE DEF f, before
<1>7. Cardinality(before) <= n
  BY <1>5, <1>6, FS_Injection
<1>8. Rank(ids, x) = n
  BY <1>1, <1>2, <1>7
<1>9. QED
  BY <1>1, <1>8

\* A page has what comes before the first ID of the next page, or all.
LEMMA PageIsFirst ==
  ASSUME NEW ids \in SUBSET Nat, IsFiniteSet(ids), NEW limit \in Nat
  PROVE  LET page == NextPage(ids, limit)
         IN /\ page.ids \subseteq ids /\ page.next \in ids \cup {None}
            /\ \A x \in ids : x \in page.ids <=> page.next = None \/ x < page.next
<1> DEFINE page == NextPage(ids, limit)
<1>1. /\ page.ids = {x \in ids : Rank(ids, x) < limit}
      /\ page.next = IF \E x \in ids : Rank(ids, x) = limit
                     THEN CHOOSE x \in ids : Rank(ids, x) = limit ELSE None
  BY DEF NextPage
<1> HIDE DEF page
<1>2. CASE \E x \in ids : Rank(ids, x) = limit
  <2>1. page.next \in ids /\ Rank(ids, page.next) = limit /\ page.next # None
    BY <1>1, <1>2, NoneAssumption
  <2>2. \A x \in ids : x < page.next <=> Rank(ids, x) < limit
    BY <2>1, RankIncreases
  <2>3. QED
    BY <1>1, <2>1, <2>2 DEF page
<1>3. CASE ~\E x \in ids : Rank(ids, x) = limit
  <2>1. page.next = None
    BY <1>1, <1>3
  <2>2. \A x \in ids : Rank(ids, x) < limit
    BY <1>3, RankIncreases, RanksAreDense
  <2>3. QED
    BY <1>1, <2>1, <2>2 DEF page
<1>4. QED
  BY <1>2, <1>3
-----------------------------------------------------------------------------
(***************************************************************************)
(* The invariant of a listing.  The page that a request has read begins    *)
(* where the pages before it end, and has what comes before the next one.  *)
(***************************************************************************)

QueryNames == ToSet(Queries)

\* A request has a page and a next one of any kind, and rows of any kind.
IsRequest(r) ==
  r \in [page : {r.page}, next : {r.next}, skip : Skips, list : BOOLEAN,
         todo : SUBSET QueriesWithout(r.skip), rows : [QueryNames -> {r.rows[q] : q \in QueryNames}]]

TypeOK ==
  /\ db \in Databases
  /\ request # None => IsRequest(request)
  /\ listing # None => listing \in Listings

\* The pages so far end before the first ID of the next one, and have every stop
\* before it that is still there.
PagesSoFar(d, l) ==
  /\ \A i, j \in DOMAIN l.listed : i < j => \A x \in l.listed[i], y \in l.listed[j] : x < y
  /\ l.done => l.there \subseteq UNION ToSet(l.listed)
  /\ ~l.done => /\ l.there \subseteq {s.id : s \in d.stops} \cap l.wanted
                /\ \A i \in DOMAIN l.listed : \A x \in l.listed[i] : x < l.first
                /\ \A x \in l.there : x < l.first => x \in UNION ToSet(l.listed)

\* The page that a request has read.
PageIsNext(r, l) ==
  LET ids == {s.id : s \in r.page}
  IN /\ ~l.done /\ ids \subseteq Nat /\ r.next \in Nat \cup {None}
     /\ \A x \in ids : l.first <= x /\ (r.next # None => x < r.next)
     /\ r.next # None => l.first <= r.next
     /\ \A x \in l.there : l.first <= x /\ (r.next = None \/ x < r.next) => x \in ids

PagesInv ==
  /\ listing # None => PagesSoFar(db, listing)
  /\ request # None /\ request.list => listing # None /\ PageIsNext(request, listing)

LEMMA NewRequestIs ==
  ASSUME NEW page, NEW n, NEW skip \in Skips, NEW list \in BOOLEAN
  PROVE  LET r == NewRequest(page, n, skip, list)
         IN /\ IsRequest(r)
            /\ r.page = page /\ r.next = n /\ r.skip = skip /\ r.list = list
            /\ r.todo = QueriesWithout(skip) /\ r.rows = [q \in QueryNames |-> {}]
BY DEF NewRequest, IsRequest, NoRows, QueryNames

\* A query changes only its rows and what there is to do.
Asked(r, q, rows) == [r EXCEPT !.todo = @ \ {q}, !.rows = [@ EXCEPT ![q] = rows]]

LEMMA QueryIs ==
  ASSUME NEW r, IsRequest(r), NEW q \in r.todo, NEW rows
  PROVE  /\ IsRequest(Asked(r, q, rows))
         /\ Asked(r, q, rows).page = r.page /\ Asked(r, q, rows).next = r.next
         /\ Asked(r, q, rows).skip = r.skip /\ Asked(r, q, rows).list = r.list
         /\ Asked(r, q, rows).todo = r.todo \ {q}
         /\ Asked(r, q, rows).rows = [r.rows EXCEPT ![q] = rows]
<1> DEFINE new == [r.rows EXCEPT ![q] = rows]
           t == Asked(r, q, rows)
<1>1. /\ t.page = r.page /\ t.next = r.next /\ t.skip = r.skip /\ t.list = r.list
      /\ t.todo = r.todo \ {q} /\ t.rows = new
  BY DEF IsRequest, Asked
<1>2. new \in [QueryNames -> {new[x] : x \in QueryNames}]
  BY DEF IsRequest
<1>3. t = [r EXCEPT !.todo = @ \ {q}, !.rows = new]
  BY DEF IsRequest, Asked
<1> HIDE DEF new
<1>4. IsRequest(t)
  <2> HIDE DEF t
  <2>1. t \in [page : {r.page}, next : {r.next}, skip : Skips, list : BOOLEAN,
               todo : SUBSET QueriesWithout(r.skip), rows : [QueryNames -> {new[x] : x \in QueryNames}]]
    BY <1>2, <1>3 DEF IsRequest
  <2>2. QED
    BY <1>1, <2>1 DEF IsRequest
<1>5. QED
  BY <1>1, <1>4 DEF new

LEMMA InitPages == Init => TypeOK /\ PagesInv
BY DEF Init, TypeOK, PagesInv

LEMMA StartListingPages ==
  ASSUME TypeOK, PagesInv, NEW limit \in Limits, NEW wanted \in Filters, StartListing(limit, wanted)
  PROVE  TypeOK' /\ PagesInv'
<1>1. {s.id : s \in db.stops} \subseteq Nat
  BY StopIDsAre, DatabasesAssumption DEF TypeOK
<1>2. /\ listing' = [limit |-> limit, wanted |-> wanted, first |-> 0, listed |-> <<>>,
                     there |-> {s.id : s \in db.stops} \cap wanted, done |-> FALSE]
      /\ request = None /\ request' = request /\ db' = db
  BY DEF StartListing
<1> DEFINE there == {s.id : s \in db.stops} \cap wanted
<1>3. there \subseteq Nat /\ there \subseteq {s.id : s \in db.stops} \cap wanted
  BY <1>1
<1>4. PagesSoFar(db, listing')
  <2>1. \A x \in there : ~(x < 0)
    BY <1>3
  <2>2. listing'.listed = <<>> /\ listing'.first = 0 /\ listing'.there = there
        /\ listing'.wanted = wanted /\ ~listing'.done
    BY <1>2
  <2>3. DOMAIN listing'.listed = {}
    BY <2>2
  <2> HIDE DEF there
  <2>4. QED
    BY <1>3, <2>1, <2>2, <2>3 DEF PagesSoFar, there
<1>5. listing' \in Listings
  <2> HIDE DEF there
  <2>1. <<>> \in Seq(SUBSET Nat)
    OBVIOUS
  <2>2. QED
    BY <1>2, <1>3, <2>1 DEF Listings, there
<1>6. QED
  BY <1>2, <1>4, <1>5 DEF TypeOK, PagesInv

LEMMA ListStopsPages ==
  ASSUME TypeOK, PagesInv, NEW skip \in Skips, ListStops(skip)
  PROVE  TypeOK' /\ PagesInv'
<1> DEFINE all == {s.id : s \in db.stops} \cap listing.wanted
           ids == {i \in all : i >= listing.first}
           page == NextPage(ids, listing.limit)
<1>1. /\ request = None /\ listing # None /\ ~listing.done
      /\ request' = NewRequest({s \in db.stops : s.id \in page.ids}, page.next, skip, TRUE)
      /\ db' = db /\ listing' = listing
  BY DEF ListStops
<1>2. listing \in Listings /\ PagesSoFar(db, listing) /\ WellFormed(db)
  BY <1>1, DatabasesAssumption DEF TypeOK, PagesInv
<1>3. ids \subseteq Nat /\ IsFiniteSet(ids)
  BY <1>2, StopIDsAre, FS_Subset
<1>4. listing.limit \in Nat /\ listing.first \in Nat
  BY <1>2, LimitsAssumption DEF Listings
<1>5. \A x \in ids : listing.first <= x /\ x \in {s.id : s \in db.stops}
  BY <1>3, <1>4
<1>6. \A x \in listing.there : listing.first <= x => x \in ids
  BY <1>1, <1>2 DEF PagesSoFar, Listings
<1> HIDE DEF ids
<1>7. /\ page.ids \subseteq ids /\ page.next \in ids \cup {None}
      /\ \A x \in ids : x \in page.ids <=> page.next = None \/ x < page.next
  BY <1>3, <1>4, PageIsFirst
<1> HIDE DEF page
<1>8. /\ IsRequest(request')
      /\ request'.page = {s \in db.stops : s.id \in page.ids} /\ request'.next = page.next
  <2> DEFINE read == {s \in db.stops : s.id \in page.ids}
  <2>1. request' = NewRequest(read, page.next, skip, TRUE)
    BY <1>1
  <2> HIDE DEF read
  <2>2. LET r == NewRequest(read, page.next, skip, TRUE)
        IN IsRequest(r) /\ r.page = read /\ r.next = page.next
    <3> DEFINE n == page.next
    <3> HIDE DEF n
    <3>1. \A list \in BOOLEAN :
            LET r == NewRequest(read, n, skip, list) IN IsRequest(r) /\ r.page = read /\ r.next = n
      BY NewRequestIs
    <3>2. QED
      BY <3>1 DEF n
  <2>3. QED
    BY <2>1, <2>2 DEF read
<1>9. {s.id : s \in request'.page} = page.ids
  BY <1>5, <1>7, <1>8
<1>10. PageIsNext(request', listing)
  <2> DEFINE read == {s.id : s \in request'.page}
  <2>1. read = page.ids /\ request'.next = page.next
    BY <1>8, <1>9
  <2>2. page.ids \subseteq Nat /\ page.next \in Nat \cup {None}
    BY <1>3, <1>7
  <2>3. \A x \in page.ids : listing.first <= x /\ (page.next # None => x < page.next)
    BY <1>5, <1>7
  <2>4. page.next # None => listing.first <= page.next
    BY <1>5, <1>7
  <2>5. \A x \in listing.there : listing.first <= x /\ (page.next = None \/ x < page.next) => x \in page.ids
    BY <1>6, <1>7
  <2> HIDE DEF read
  <2>6. QED
    BY <1>1, <2>1, <2>2, <2>3, <2>4, <2>5 DEF PageIsNext, read
<1>11. QED
  BY <1>1, <1>2, <1>8, <1>10 DEF TypeOK, PagesInv

LEMMA GetStopPages ==
  ASSUME TypeOK, PagesInv, NEW id \in IDs, NEW skip \in Skips, GetStop(id, skip)
  PROVE  TypeOK' /\ PagesInv'
<1>1. PICK s \in db.stops : request' = NewRequest({s}, None, skip, FALSE)
  BY DEF GetStop
<1>2. \A list \in BOOLEAN :
        LET r == NewRequest({s}, None, skip, list) IN IsRequest(r) /\ r.list = list
  BY NewRequestIs
<1>3. IsRequest(request') /\ request'.list = FALSE
  BY <1>1, <1>2
<1>4. QED
  BY <1>3 DEF GetStop, TypeOK, PagesInv

LEMMA QueryPages ==
  ASSUME TypeOK, PagesInv, Query
  PROVE  TypeOK' /\ PagesInv'
<1>1. PICK q \in request.todo : request' = Asked(request, q, Rows(q, db, request))
  BY DEF Query, Asked
<1>2. request # None /\ IsRequest(request) /\ db' = db /\ listing' = listing
  BY DEF Query, TypeOK
<1>3. IsRequest(request') /\ request'.page = request.page /\ request'.next = request.next
      /\ request'.list = request.list
  <2>1. IsRequest(request')
    BY <1>1, <1>2, QueryIs
  <2>2. QED
    BY <1>1, <1>2 DEF Asked, IsRequest
<1>4. QED
  BY <1>2, <1>3 DEF TypeOK, PagesInv, PageIsNext

LEMMA AnswerPages ==
  ASSUME TypeOK, PagesInv, Answer
  PROVE  TypeOK' /\ PagesInv'
<1>1. request # None /\ request' = None /\ db' = db
  BY DEF Answer
<1>2. CASE ~request.list
  BY <1>1, <1>2 DEF Answer, TypeOK, PagesInv
<1>3. CASE request.list
  <2> DEFINE ids == {s.id : s \in request.page}
  <2>1. listing \in Listings /\ PagesSoFar(db, listing) /\ PageIsNext(request, listing)
    BY <1>1, <1>3 DEF TypeOK, PagesInv
  <2>2. listing' = [listing EXCEPT
                      !.listed = Append(@, ids),
                      !.first = IF request.next = None THEN @ ELSE request.next,
                      !.done = request.next = None]
    BY <1>3 DEF Answer
  <2>3. /\ ids \subseteq Nat /\ request.next \in Nat \cup {None}
        /\ \A x \in ids : listing.first <= x /\ (request.next # None => x < request.next)
        /\ request.next # None => listing.first <= request.next
        /\ \A x \in listing.there : listing.first <= x /\ (request.next = None \/ x < request.next) => x \in ids
    BY <2>1 DEF PageIsNext
  <2> HIDE DEF ids
  <2>4. /\ listing.first \in Nat /\ listing.listed \in Seq(SUBSET Nat) /\ listing.there \subseteq Nat
        /\ ~listing.done
    BY <2>1 DEF Listings, PageIsNext
  <2>5. /\ listing'.listed = Append(listing.listed, ids)
        /\ listing'.first = (IF request.next = None THEN listing.first ELSE request.next)
        /\ listing'.done = (request.next = None)
        /\ listing'.there = listing.there /\ listing'.wanted = listing.wanted
    BY <2>1, <2>2 DEF Listings
  <2>6. listing' \in Listings
    <3>1. /\ Append(listing.listed, ids) \in Seq(SUBSET Nat)
          /\ (IF request.next = None THEN listing.first ELSE request.next) \in Nat
          /\ (request.next = None) \in BOOLEAN
      BY <2>3, <2>4
    <3>2. QED
      BY <2>1, <2>2, <3>1 DEF Listings
  <2>7. UNION ToSet(listing'.listed) = (UNION ToSet(listing.listed)) \cup ids
    <3>1. ToSet(listing'.listed) = ToSet(listing.listed) \cup {ids}
      BY <2>3, <2>4, <2>5 DEF ToSet
    <3>2. QED
      BY <3>1
  <2>8. \A i, j \in DOMAIN listing'.listed :
          i < j => \A x \in listing'.listed[i], y \in listing'.listed[j] : x < y
    <3> SUFFICES ASSUME NEW i \in DOMAIN listing'.listed, NEW j \in DOMAIN listing'.listed, i < j,
                        NEW x \in listing'.listed[i], NEW y \in listing'.listed[j]
                 PROVE  x < y
      OBVIOUS
    <3>1. i \in DOMAIN listing.listed /\ listing'.listed[i] = listing.listed[i]
      BY <2>3, <2>4, <2>5
    <3>2. x \in Nat /\ x < listing.first
      BY <2>1, <2>4, <3>1 DEF PagesSoFar
    <3>3. CASE j \in DOMAIN listing.listed
      <4>1. listing'.listed[j] = listing.listed[j]
        BY <2>3, <2>4, <2>5, <3>3
      <4>2. QED
        BY <2>1, <3>1, <3>3, <4>1 DEF PagesSoFar
    <3>4. CASE j \notin DOMAIN listing.listed
      <4>1. listing'.listed[j] = ids
        BY <2>3, <2>4, <2>5, <3>4
      <4>2. y \in Nat /\ listing.first <= y
        BY <2>3, <4>1
      <4>3. QED
        BY <2>4, <3>2, <4>2
    <3>5. QED
      BY <3>3, <3>4
  <2>9. CASE request.next = None
    <3>1. listing'.there \subseteq UNION ToSet(listing'.listed)
      <4> SUFFICES ASSUME NEW x \in listing.there PROVE x \in (UNION ToSet(listing.listed)) \cup ids
        BY <2>5, <2>7
      <4>1. x \in Nat /\ (x < listing.first => x \in UNION ToSet(listing.listed))
        BY <2>1, <2>4 DEF PagesSoFar
      <4>2. listing.first <= x => x \in ids
        BY <2>3, <2>9
      <4>3. QED
        BY <2>4, <4>1, <4>2
    <3>2. PagesSoFar(db, listing')
      BY <2>5, <2>8, <2>9, <3>1 DEF PagesSoFar
    <3>3. QED
      BY <1>1, <2>6, <3>2 DEF TypeOK, PagesInv
  <2>10. CASE request.next # None
    <3>1. listing'.first = request.next /\ request.next \in Nat /\ listing.first <= request.next
      BY <2>3, <2>5, <2>10
    <3>2. \A i \in DOMAIN listing'.listed : \A x \in listing'.listed[i] : x < listing'.first
      <4> SUFFICES ASSUME NEW i \in DOMAIN listing'.listed, NEW x \in listing'.listed[i]
                   PROVE  x < request.next
        BY <3>1
      <4>1. CASE i \in DOMAIN listing.listed
        <5>1. listing'.listed[i] = listing.listed[i]
          BY <2>3, <2>4, <2>5, <4>1
        <5>2. x \in Nat /\ x < listing.first
          BY <2>1, <2>4, <4>1, <5>1 DEF PagesSoFar
        <5>3. QED
          BY <2>4, <3>1, <5>2
      <4>2. CASE i \notin DOMAIN listing.listed
        <5>1. listing'.listed[i] = ids
          BY <2>3, <2>4, <2>5, <4>2
        <5>2. QED
          BY <2>3, <2>10, <5>1
      <4>3. QED
        BY <4>1, <4>2
    <3>3. \A x \in listing'.there : x < listing'.first => x \in UNION ToSet(listing'.listed)
      <4> SUFFICES ASSUME NEW x \in listing.there, x < request.next
                   PROVE  x \in (UNION ToSet(listing.listed)) \cup ids
        BY <2>5, <2>7, <3>1
      <4>1. x \in Nat /\ (x < listing.first => x \in UNION ToSet(listing.listed))
        BY <2>1, <2>4 DEF PagesSoFar
      <4>2. listing.first <= x => x \in ids
        BY <2>3
      <4>3. QED
        BY <2>4, <4>1, <4>2
    <3>4. listing'.there \subseteq {s.id : s \in db.stops} \cap listing'.wanted
      BY <2>1, <2>4, <2>5 DEF PagesSoFar
    <3>5. ~listing'.done
      BY <2>5, <2>10
    <3>6. PagesSoFar(db, listing')
      BY <2>8, <3>2, <3>3, <3>4, <3>5 DEF PagesSoFar
    <3>7. QED
      BY <1>1, <2>6, <3>6 DEF TypeOK, PagesInv
  <2>11. QED
    BY <2>9, <2>10
<1>4. QED
  BY <1>2, <1>3

\* Fewer stops are there all along.
LEMMA CommitPages ==
  ASSUME TypeOK, PagesInv, NEW d \in Databases, Commit(d)
  PROVE  TypeOK' /\ PagesInv'
<1>1. db' = d /\ request' = request
  BY DEF Commit
<1>2. CASE listing = None
  BY <1>1, <1>2 DEF Commit, TypeOK, PagesInv
<1>3. CASE listing # None /\ listing.done
  <2>1. listing' = listing
    BY <1>3 DEF Commit
  <2>2. QED
    BY <1>1, <1>3, <2>1 DEF TypeOK, PagesInv, PagesSoFar
<1>4. CASE listing # None /\ ~listing.done
  <2> DEFINE there == listing.there \cap {s.id : s \in d.stops}
  <2>1. listing' = [listing EXCEPT !.there = there]
    BY <1>4 DEF Commit
  <2>2. listing \in Listings /\ PagesSoFar(db, listing)
    BY <1>4 DEF TypeOK, PagesInv
  <2>3. there \subseteq listing.there /\ there \subseteq {s.id : s \in d.stops}
    OBVIOUS
  <2> HIDE DEF there
  <2>4. /\ listing' \in Listings
        /\ listing'.there = there /\ listing'.listed = listing.listed /\ listing'.first = listing.first
        /\ listing'.done = listing.done /\ listing'.wanted = listing.wanted
    BY <2>1, <2>2, <2>3 DEF Listings
  <2>5. PagesSoFar(d, listing')
    BY <1>4, <2>2, <2>3, <2>4 DEF PagesSoFar
  <2>6. request # None /\ request.list => PageIsNext(request, listing')
    BY <2>3, <2>4 DEF PagesInv, PageIsNext
  <2>7. listing' # None
    BY <2>4, NoneAssumption
  <2>8. QED
    BY <1>1, <2>4, <2>5, <2>6, <2>7 DEF TypeOK, PagesInv
<1>5. QED
  BY <1>2, <1>3, <1>4

LEMMA PagesStep ==
  ASSUME TypeOK, PagesInv, [Next]_vars
  PROVE  TypeOK' /\ PagesInv'
<1>1. CASE Fail
  BY <1>1 DEF Fail, TypeOK, PagesInv
<1>2. CASE FinishListing
  BY <1>2 DEF FinishListing, TypeOK, PagesInv
<1>3. CASE UNCHANGED vars
  BY <1>3 DEF vars, TypeOK, PagesInv
<1>4. QED
  BY <1>1, <1>2, <1>3, GetStopPages, StartListingPages, ListStopsPages, QueryPages, AnswerPages,
     CommitPages DEF Next

\* The pages of a list are in order and list no stop twice, and a stop that is
\* there all along is on one of them, whatever commits between two pages
\* (listStops in stop.go with ListStops of stop_queries.sql).
THEOREM PagesComplete == Spec => []PagesAreComplete
<1>1. TypeOK /\ PagesInv => PagesAreComplete
  BY DEF PagesInv, PagesSoFar, PagesAreComplete
<1>2. QED
  BY <1>1, InitPages, PagesStep, PTL DEF Spec
-----------------------------------------------------------------------------
(***************************************************************************)
(* The queries of a request are made in order: one that another depends on *)
(* is made, or left out, when that one is.                                 *)
(***************************************************************************)

Before(p, q) == \E i, j \in DOMAIN Queries : i < j /\ p = Queries[i] /\ q = Queries[j]

Done(r) == QueriesWithout(r.skip) \ r.todo

Ordered(r) ==
  /\ \A p \in r.todo, q \in Done(r) : ~Before(p, q)
  /\ \A q \in QueryNames \ Done(r) : r.rows[q] = {}

LEMMA QueriesDiffer ==
  /\ DOMAIN Queries = 1..11
  /\ \A i, j \in 1..11 : Queries[i] = Queries[j] => i = j
<1>1. DOMAIN Queries = 1..11
  BY DEF Queries
<1>2. ASSUME NEW i \in 1..11, NEW j \in 1..11, i < j PROVE Queries[i] # Queries[j]
  BY <1>2 DEF Queries
<1>3. QED
  BY <1>1, <1>2

LEMMA QueryNamesAre ==
  QueryNames = {"children", "descendents", "transfers", "alerts", "times", "destinations",
                "maps", "configs", "rules", "stops", "routes"}
BY DEF QueryNames, ToSet, Queries

LEMMA OrderIs ==
  /\ Before("children", "descendents")
  /\ \A q \in {"transfers", "alerts", "times", "rules", "stops"} : Before("descendents", q)
  /\ Before("transfers", "stops") /\ Before("destinations", "stops")
  /\ Before("times", "destinations") /\ Before("times", "routes")
  /\ Before("maps", "configs") /\ Before("maps", "routes")
<1>1. /\ Queries[1] = "children" /\ Queries[2] = "descendents" /\ Queries[3] = "transfers"
      /\ Queries[4] = "alerts" /\ Queries[5] = "times" /\ Queries[6] = "destinations"
      /\ Queries[7] = "maps" /\ Queries[8] = "configs" /\ Queries[9] = "rules"
      /\ Queries[10] = "stops" /\ Queries[11] = "routes"
  BY DEF Queries
<1>2. \A i, j \in 1..11 : i < j => Before(Queries[i], Queries[j])
  BY QueriesDiffer DEF Before
<1>3. /\ Before(Queries[1], Queries[2])
      /\ Before(Queries[2], Queries[3]) /\ Before(Queries[2], Queries[4])
      /\ Before(Queries[2], Queries[5]) /\ Before(Queries[2], Queries[9])
      /\ Before(Queries[2], Queries[10]) /\ Before(Queries[3], Queries[10])
      /\ Before(Queries[6], Queries[10]) /\ Before(Queries[5], Queries[6])
      /\ Before(Queries[5], Queries[11]) /\ Before(Queries[7], Queries[8])
      /\ Before(Queries[7], Queries[11])
  BY <1>2
<1>4. QED
  BY <1>1, <1>3

\* What is next depends on nothing that is left to do, itself included.
LEMMA NextIsFirst ==
  ASSUME NEW todo, NEW q, IsNext(q, todo), NEW p \in todo
  PROVE  ~Before(p, q)
<1>1. PICK i \in DOMAIN Queries : q = Queries[i] /\ \A j \in 1..(i - 1) : Queries[j] \notin todo
  BY DEF IsNext
<1>2. SUFFICES ASSUME NEW j \in 1..11, NEW k \in 1..11, j < k, p = Queries[j], q = Queries[k] PROVE FALSE
  BY QueriesDiffer DEF Before
<1>3. k = i
  BY <1>1, <1>2, QueriesDiffer
<1>4. QED
  BY <1>1, <1>2, <1>3

LEMMA NewRequestIsOrdered ==
  ASSUME NEW page, NEW n, NEW skip \in Skips, NEW list \in BOOLEAN
  PROVE  LET r == NewRequest(page, n, skip, list) IN Ordered(r) /\ Done(r) = {}
<1> DEFINE r == NewRequest(page, n, skip, list)
<1>1. r.skip = skip /\ r.todo = QueriesWithout(skip) /\ r.rows = [q \in QueryNames |-> {}]
  BY DEF NewRequest, NoRows, QueryNames
<1> HIDE DEF r
<1>2. Ordered(r) /\ Done(r) = {}
  BY <1>1 DEF Ordered, Done
<1>3. QED
  BY <1>2 DEF r

\* Asking the next query is done in order, and leaves the rows of the others.
LEMMA AskedIsOrdered ==
  ASSUME NEW r, IsRequest(r), Ordered(r), NEW q \in r.todo, IsNext(q, r.todo), NEW rows
  PROVE  LET t == Asked(r, q, rows)
         IN /\ Ordered(t) /\ Done(t) = Done(r) \cup {q}
            /\ t.page = r.page /\ t.skip = r.skip
            /\ t.rows[q] = rows /\ \A p \in QueryNames \ {q} : t.rows[p] = r.rows[p]
<1> DEFINE t == Asked(r, q, rows)
<1>1. /\ t.page = r.page /\ t.skip = r.skip /\ t.todo = r.todo \ {q}
      /\ t.rows = [r.rows EXCEPT ![q] = rows]
  BY DEF IsRequest, Asked
<1>2. /\ r.todo \subseteq QueriesWithout(r.skip) /\ QueriesWithout(r.skip) \subseteq QueryNames
      /\ DOMAIN r.rows = QueryNames
  BY DEF IsRequest, QueriesWithout, QueryNames
<1> HIDE DEF t
<1>3. t.rows[q] = rows /\ \A p \in QueryNames \ {q} : t.rows[p] = r.rows[p]
  BY <1>1, <1>2
<1>4. Done(t) = Done(r) \cup {q}
  BY <1>1, <1>2 DEF Done
<1>5. \A p \in t.todo, s \in Done(t) : ~Before(p, s)
  BY <1>1, <1>4, NextIsFirst DEF Ordered
<1>6. Ordered(t)
  BY <1>3, <1>4, <1>5 DEF Ordered
<1>7. QED
  BY <1>1, <1>3, <1>4, <1>6 DEF t
-----------------------------------------------------------------------------
(***************************************************************************)
(* The rows of a request during which nothing is committed.                *)
(***************************************************************************)

\* The rows of a query depend on the page and on the rows of queries before it.
LEMMA RowsDepend ==
  ASSUME NEW d, NEW q \in QueryNames, NEW r, NEW t, t.page = r.page,
         \A p \in QueryNames : Before(p, q) => t.rows[p] = r.rows[p]
  PROVE  Rows(q, d, t) = Rows(q, d, r)
<1>1. PageOf(t) = PageOf(r) /\ Roots(t) = Roots(r)
  BY DEF PageOf, Roots
<1>2. Before("descendents", q) => Descendents(t) = Descendents(r)
  BY QueryNamesAre DEF Descendents
<1>3. CASE q \in {"children", "descendents", "maps", "configs"}
  BY <1>1, <1>3 DEF Rows
<1>4. CASE q \in {"transfers", "alerts", "times", "rules"}
  BY <1>1, <1>2, <1>4, OrderIs DEF Rows
<1>5. CASE q = "destinations"
  BY <1>5, OrderIs, QueryNamesAre DEF Rows
<1>6. CASE q = "stops"
  <2>1. StopsReferredTo(t) = StopsReferredTo(r)
    BY <1>2, <1>6, OrderIs, QueryNamesAre DEF StopsReferredTo
  <2>2. QED
    BY <1>6, <2>1 DEF Rows
<1>7. CASE q = "routes"
  <2>1. RoutesReferredTo(t) = RoutesReferredTo(r)
    BY <1>7, OrderIs, QueryNamesAre DEF RoutesReferredTo
  <2>2. QED
    BY <1>7, <2>1 DEF Rows
<1>8. QED
  BY <1>3, <1>4, <1>5, <1>6, <1>7, QueryNamesAre

\* The page and the rows of the queries made are what the tables have.
Current(d, r) ==
  /\ r.page \subseteq d.stops
  /\ \A q \in Done(r) : r.rows[q] = Rows(q, d, r)

LEMMA AskedIsCurrent ==
  ASSUME NEW d, NEW r, IsRequest(r), Ordered(r), Current(d, r),
         NEW q \in r.todo, IsNext(q, r.todo)
  PROVE  Current(d, Asked(r, q, Rows(q, d, r)))
<1> DEFINE rows == Rows(q, d, r)
<1> HIDE DEF rows
<1> DEFINE t == Asked(r, q, rows)
<1>1. /\ Done(t) = Done(r) \cup {q} /\ t.page = r.page
      /\ t.rows[q] = rows /\ \A p \in QueryNames \ {q} : t.rows[p] = r.rows[p]
  BY AskedIsOrdered
<1>2. q \in QueryNames /\ Done(r) \subseteq QueryNames /\ q \notin Done(r)
  BY DEF IsRequest, Done, QueriesWithout, QueryNames
<1> HIDE DEF t
<1>3. Rows(q, d, t) = rows
  <2>1. ~Before(q, q)
    BY NextIsFirst
  <2>2. \A p \in QueryNames : Before(p, q) => t.rows[p] = r.rows[p]
    BY <1>1, <2>1
  <2>3. QED
    BY <1>1, <1>2, <2>2, RowsDepend DEF rows
<1>4. ASSUME NEW p \in Done(r) PROVE t.rows[p] = Rows(p, d, t)
  <2>1. ~Before(q, p)
    BY DEF Ordered
  <2>2. \A s \in QueryNames : Before(s, p) => t.rows[s] = r.rows[s]
    BY <1>1, <2>1
  <2>3. p \in QueryNames /\ p # q
    BY <1>2
  <2>4. Rows(p, d, t) = Rows(p, d, r)
    BY <1>1, <2>2, <2>3, RowsDepend
  <2>5. t.rows[p] = r.rows[p] /\ r.rows[p] = Rows(p, d, r)
    BY <1>1, <2>3 DEF Current
  <2>6. QED
    BY <2>4, <2>5
<1>5. t.page \subseteq d.stops
  BY <1>1 DEF Current
<1>6. Current(d, t)
  BY <1>1, <1>3, <1>4, <1>5 DEF Current
<1>7. QED
  BY <1>6 DEF t, rows

\* All the queries of a request during which nothing was committed are made.
Complete(d, r) ==
  WellFormed(d) /\ IsRequest(r) /\ Ordered(r) /\ Current(d, r) /\ r.todo = {}

LEMMA WhatIsDone ==
  ASSUME NEW r, IsRequest(r), r.todo = {}
  PROVE  /\ {"children", "descendents", "rules", "stops", "routes"} \subseteq Done(r)
         /\ \A q \in {"transfers", "alerts", "times", "maps"} : q \in Done(r) <=> q \notin r.skip
         /\ "destinations" \in Done(r) <=> "times" \notin r.skip
         /\ "configs" \in Done(r) <=> "maps" \notin r.skip
<1>1. r.skip \subseteq {"transfers", "alerts", "times", "maps"}
  BY SkipsAssumption DEF IsRequest
<1>2. Done(r) = QueriesWithout(r.skip)
  BY DEF Done
<1>3. \A q \in QueryNames \ {"destinations", "configs"} : q \in Done(r) <=> q \notin r.skip
  BY <1>2, QueryNamesAre DEF QueriesWithout, QueryNames
<1>4. /\ "destinations" \in Done(r) <=> "times" \notin r.skip
      /\ "configs" \in Done(r) <=> "maps" \notin r.skip
  BY <1>1, <1>2, QueryNamesAre DEF QueriesWithout, QueryNames
<1>5. QED
  BY <1>1, <1>3, <1>4, QueryNamesAre

LEMMA RowsAre ==
  ASSUME NEW d, NEW r, Complete(d, r), NEW q \in QueryNames
  PROVE  r.rows[q] = IF q \in Done(r) THEN Rows(q, d, r) ELSE {}
BY DEF Complete, Current, Ordered

LEMMA IdIs ==
  ASSUME NEW d, WellFormed(d), NEW s \in d.stops
  PROVE  IdOf(d, s.pk) = s.id
<1>1. \A t \in d.stops : t.pk = s.pk => t = s
  BY DEF WellFormed
<1>2. (CHOOSE t \in d.stops : t.pk = s.pk) = s
  BY <1>1
<1>3. QED
  BY <1>2 DEF IdOf

\* A reference to a stop is its ID.
LEMMA RefIs ==
  ASSUME NEW d, NEW r, Complete(d, r), NEW pk \in StopsReferredTo(r) \cap StopPks(d)
  PROVE  StopRef(r, pk) = IdOf(d, pk)
<1>1. r.rows.stops = {<<s.pk, s.id>> : s \in {t \in d.stops : t.pk \in StopsReferredTo(r)}}
  BY WhatIsDone, RowsAre, QueryNamesAre DEF Complete, Rows
<1>2. PICK s \in d.stops : s.pk = pk
  BY DEF StopPks
<1>3. \A t \in d.stops : t.pk = pk => t = s
  BY <1>2 DEF Complete, WellFormed
<1>4. <<pk, s.id>> \in r.rows.stops /\ \A x \in r.rows.stops : x[1] = pk => x = <<pk, s.id>>
  BY <1>1, <1>2, <1>3
<1>5. StopRef(r, pk) = s.id
  BY <1>4 DEF StopRef
<1>6. QED
  BY <1>2, <1>5, IdIs DEF Complete

\* No reference is none.
LEMMA NoRefIs ==
  ASSUME NEW d, NEW r, Complete(d, r)
  PROVE  StopRef(r, None) = None
<1>1. r.rows.stops = {<<s.pk, s.id>> : s \in {t \in d.stops : t.pk \in StopsReferredTo(r)}}
  BY WhatIsDone, RowsAre, QueryNamesAre DEF Complete, Rows
<1>2. \A s \in d.stops : s.pk # None
  BY DEF Complete, WellFormed, StopPks, Pks
<1>3. QED
  BY <1>1, <1>2 DEF StopRef

\* Below a stop are the stop and its children.
LEMMA BelowIs ==
  ASSUME NEW d, NEW pk \in StopPks(d)
  PROVE  /\ Below(d, pk) \subseteq StopPks(d) /\ pk \in Below(d, pk)
         /\ \A t \in d.stops : t.parent = pk => t.pk \in Below(d, pk)
BY DEF Below, StopPks

LEMMA DescendentsAre ==
  ASSUME NEW d, NEW r, Complete(d, r)
  PROVE  /\ Descendents(r) \subseteq StopPks(d)
         /\ \A s \in r.page :
              /\ s.pk \in StopPks(d) /\ s.pk \in PageOf(r) /\ Below(d, s.pk) \subseteq Descendents(r)
              /\ \A pk : Lifted(r, s, pk) <=> pk \in Below(d, s.pk)
<1>1. r.rows.descendents = UNION {{pk} \X Below(d, pk) : pk \in PageOf(r) \cap StopPks(d)}
  <2>1. r.rows["descendents"] = Rows("descendents", d, r)
    BY WhatIsDone, RowsAre, QueryNamesAre DEF Complete
  <2>2. Rows("descendents", d, r) = UNION {{pk} \X Below(d, pk) : pk \in PageOf(r) \cap StopPks(d)}
    BY Zenon DEF Rows
  <2>3. QED
    BY <2>1, <2>2
<1>2. \A x \in r.rows.descendents :
        \E pk \in PageOf(r) \cap StopPks(d) : x = <<pk, x[2]>> /\ x[2] \in Below(d, pk)
  BY <1>1
<1>3. \A pk \in PageOf(r) \cap StopPks(d) : \A q \in Below(d, pk) : <<pk, q>> \in r.rows.descendents
  BY <1>1
<1>4. Descendents(r) \subseteq StopPks(d)
  BY <1>2, BelowIs DEF Descendents
<1>5. ASSUME NEW s \in r.page PROVE s.pk \in StopPks(d) /\ s.pk \in PageOf(r)
  BY DEF Complete, Current, StopPks, PageOf
<1>6. ASSUME NEW s \in r.page PROVE Below(d, s.pk) \subseteq Descendents(r)
  <2> SUFFICES ASSUME NEW q \in Below(d, s.pk) PROVE q \in Descendents(r)
    OBVIOUS
  <2>1. <<s.pk, q>> \in r.rows.descendents
    BY <1>3, <1>5
  <2>2. <<s.pk, q>>[2] = q
    OBVIOUS
  <2>3. QED
    BY <2>1, <2>2 DEF Descendents
<1>7. ASSUME NEW s \in r.page, NEW pk PROVE Lifted(r, s, pk) <=> pk \in Below(d, s.pk)
  BY <1>2, <1>3, <1>5 DEF Lifted
<1>8. QED
  BY <1>4, <1>5, <1>6, <1>7

\* A trip with a stop time has a last one.
LEMMA LastTime ==
  ASSUME NEW d, WellFormed(d), NEW t \in d.times
  PROVE  LET u == LastOf(d, t.trip)
         IN /\ u \in d.times /\ u.trip = t.trip
            /\ \A v \in d.times : v.trip = t.trip => v.seq <= u.seq
            /\ \A x \in LastTimes(d, {t.trip}) : x = u
<1> DEFINE ofTrip == {v \in d.times : v.trip = t.trip}
           later(u) == {v \in ofTrip : v.seq > u.seq}
           counts == {Cardinality(later(u)) : u \in ofTrip}
<1>1. \A u \in ofTrip : u.seq \in Nat
  BY DEF WellFormed
<1>2. \A u \in ofTrip : IsFiniteSet(later(u)) /\ Cardinality(later(u)) \in Nat
  <2>1. IsFiniteSet(d.times)
    BY DEF WellFormed
  <2>2. \A u \in ofTrip : later(u) \subseteq d.times
    OBVIOUS
  <2> HIDE DEF later, ofTrip
  <2>3. QED
    BY <2>1, <2>2, FS_Subset, FS_CardinalityType
<1>3. PICK u \in ofTrip : \A v \in ofTrip : Cardinality(later(u)) <= Cardinality(later(v))
  <2> HIDE DEF later
  <2>1. counts \subseteq Nat /\ counts # {}
    BY <1>2
  <2>2. PICK x \in counts : \A y \in counts : x <= y
    <3> HIDE DEF counts
    <3>1. QED
      BY <2>1, LeastNumber
  <2>3. QED
    BY <2>2
<1>4. ASSUME NEW v \in ofTrip, v.seq > u.seq PROVE FALSE
  <2>1. v \in later(u) /\ v \notin later(v) /\ later(v) \subseteq later(u)
    BY <1>1, <1>4
  <2> HIDE DEF later, ofTrip
  <2>2. Cardinality(later(v) \cup {v}) = Cardinality(later(v)) + 1
    BY <1>2, <2>1, FS_AddElement
  <2>3. later(v) \cup {v} \subseteq later(u)
    BY <2>1
  <2>4. Cardinality(later(v) \cup {v}) <= Cardinality(later(u))
    BY <1>2, <2>3, FS_Subset
  <2>5. QED
    BY <1>2, <1>3, <2>2, <2>4
<1>5. \A v \in d.times : v.trip = t.trip => v.seq <= u.seq
  BY <1>1, <1>4
<1>6. \A x \in d.times : x.trip = t.trip /\ (\A v \in d.times : v.trip = t.trip => v.seq <= x.seq) => x = u
  <2> SUFFICES ASSUME NEW x \in ofTrip, \A v \in d.times : v.trip = t.trip => v.seq <= x.seq PROVE x = u
    OBVIOUS
  <2>1. x.seq = u.seq
    BY <1>1, <1>5
  <2>2. QED
    BY <2>1 DEF WellFormed
<1>7. LastOf(d, t.trip) = u
  BY <1>5, <1>6 DEF LastOf
<1>8. \A x \in LastTimes(d, {t.trip}) : x = u
  BY <1>6 DEF LastTimes
<1>9. QED
  BY <1>5, <1>7, <1>8

\* The destination of a trip is the stop of its last stop time.
LEMMA DestinationIs ==
  ASSUME NEW d, NEW r, Complete(d, r), NEW t \in r.rows.times
  PROVE  Destination(r, t.trip) = IdOf(d, LastOf(d, t.trip).stop)
<1>1. "times" \in Done(r) /\ "destinations" \in Done(r)
  BY WhatIsDone, RowsAre, QueryNamesAre DEF Complete
<1>2. t \in d.times
  <2>1. r.rows["times"] = Rows("times", d, r)
    BY <1>1, RowsAre, QueryNamesAre
  <2>2. Rows("times", d, r) \subseteq d.times
    BY DEF Rows
  <2>3. QED
    BY <2>1, <2>2
<1>3. r.rows["destinations"] = Rows("destinations", d, r)
  BY <1>1, RowsAre, QueryNamesAre
<1> DEFINE trips == {u.trip : u \in r.rows.times}
           last == LastOf(d, t.trip)
<1>4. r.rows.destinations = {<<u.trip, u.stop>> : u \in LastTimes(d, trips)}
  BY <1>3 DEF Rows
<1>5. /\ last \in d.times /\ last.trip = t.trip
      /\ \A v \in d.times : v.trip = t.trip => v.seq <= last.seq
      /\ \A x \in LastTimes(d, {t.trip}) : x = last
  BY <1>2, LastTime DEF Complete
<1> HIDE DEF last
<1>6. last \in LastTimes(d, trips) /\ \A u \in LastTimes(d, trips) : u.trip = t.trip => u = last
  <2>1. t.trip \in trips
    OBVIOUS
  <2> HIDE DEF trips
  <2>2. last \in LastTimes(d, trips)
    BY <1>5, <2>1 DEF LastTimes
  <2>3. \A u \in LastTimes(d, trips) : u.trip = t.trip => u \in LastTimes(d, {t.trip})
    BY DEF LastTimes
  <2>4. QED
    BY <1>5, <2>2, <2>3
<1> HIDE DEF trips
<1>7. /\ <<t.trip, last.stop>> \in r.rows.destinations
      /\ \A x \in r.rows.destinations : x[1] = t.trip => x = <<t.trip, last.stop>>
  BY <1>4, <1>5, <1>6
<1>8. Destination(r, t.trip) = StopRef(r, last.stop)
  BY <1>7 DEF Destination
<1>9. last.stop \in StopsReferredTo(r) \cap StopPks(d)
  <2>1. last.stop \in StopPks(d)
    BY <1>5 DEF Complete, WellFormed
  <2>2. last.stop \in {x[2] : x \in r.rows.destinations}
    BY <1>7
  <2>3. QED
    BY <2>1, <2>2 DEF StopsReferredTo
<1>10. QED
  BY <1>8, <1>9, RefIs DEF last

LEMMA RowsOfAll ==
  ASSUME NEW d, NEW r, Complete(d, r)
  PROVE  /\ r.rows.children = {<<s.parent, s.pk>> : s \in {t \in d.stops : t.parent \in PageOf(r)}}
         /\ r.rows.transfers = IF "transfers" \in r.skip THEN {}
                               ELSE {x \in d.transfers : x[1] \in Descendents(r)}
         /\ r.rows.alerts = IF "alerts" \in r.skip THEN {}
                            ELSE {x \in d.alerts : x.stop \in Descendents(r)}
         /\ r.rows.times = IF "times" \in r.skip THEN {}
                           ELSE {t \in d.times : t.stop \in Descendents(r) /\ ~t.past}
         /\ r.rows.maps = IF "maps" \in r.skip THEN {} ELSE {m \in d.maps : m.stop \in Roots(r)}
         /\ r.rows.configs = IF "maps" \in r.skip THEN {} ELSE (Roots(r) \cap StopPks(d)) \X d.configs
         /\ r.rows.rules = {x \in d.rules : x.stop \in Descendents(r)}
         /\ r.rows.routes = d.routes \cap RoutesReferredTo(r)
<1>1. /\ "children" \in Done(r) /\ "rules" \in Done(r) /\ "routes" \in Done(r)
      /\ \A q \in {"transfers", "alerts", "times", "maps"} : q \in Done(r) <=> q \notin r.skip
      /\ "configs" \in Done(r) <=> "maps" \notin r.skip
  BY WhatIsDone DEF Complete
<1>2. \A q \in QueryNames : r.rows[q] = IF q \in Done(r) THEN Rows(q, d, r) ELSE {}
  BY RowsAre
<1>3. r.rows["transfers"] = IF "transfers" \in r.skip THEN {} ELSE Rows("transfers", d, r)
  BY <1>1, <1>2, QueryNamesAre
<1>4. r.rows["alerts"] = IF "alerts" \in r.skip THEN {} ELSE Rows("alerts", d, r)
  BY <1>1, <1>2, QueryNamesAre
<1>5. r.rows["times"] = IF "times" \in r.skip THEN {} ELSE Rows("times", d, r)
  BY <1>1, <1>2, QueryNamesAre
<1>6. r.rows["maps"] = IF "maps" \in r.skip THEN {} ELSE Rows("maps", d, r)
  BY <1>1, <1>2, QueryNamesAre
<1>7. r.rows["configs"] = IF "maps" \in r.skip THEN {} ELSE Rows("configs", d, r)
  BY <1>1, <1>2, QueryNamesAre
<1>8. /\ r.rows["children"] = Rows("children", d, r) /\ r.rows["rules"] = Rows("rules", d, r)
      /\ r.rows["routes"] = Rows("routes", d, r)
  BY <1>1, <1>2, QueryNamesAre
<1>9. /\ Rows("children", d, r) = {<<s.parent, s.pk>> : s \in {t \in d.stops : t.parent \in PageOf(r)}}
      /\ Rows("transfers", d, r) = {x \in d.transfers : x[1] \in Descendents(r)}
      /\ Rows("alerts", d, r) = {x \in d.alerts : x.stop \in Descendents(r)}
      /\ Rows("times", d, r) = {t \in d.times : t.stop \in Descendents(r) /\ ~t.past}
      /\ Rows("maps", d, r) = {m \in d.maps : m.stop \in Roots(r)}
      /\ Rows("configs", d, r) = (Roots(r) \cap StopPks(d)) \X d.configs
      /\ Rows("rules", d, r) = {x \in d.rules : x.stop \in Descendents(r)}
      /\ Rows("routes", d, r) = d.routes \cap RoutesReferredTo(r)
  BY DEF Rows
<1>10. QED
  BY <1>3, <1>4, <1>5, <1>6, <1>7, <1>8, <1>9

\* With all rows of the same tables, an answer does not panic and is the one
\* that the tables call for.
LEMMA AnswerIsExpected ==
  ASSUME NEW d, NEW r, Complete(d, r), NEW s \in r.page
  PROVE  StopAnswer(r, s) = Expected(d, s, r.skip)
<1> DEFINE below == Below(d, s.pk)
<1>1. /\ s \in d.stops /\ s.pk \in StopPks(d) /\ s.pk \in PageOf(r)
      /\ below \subseteq Descendents(r) /\ Descendents(r) \subseteq StopPks(d)
      /\ \A pk : Lifted(r, s, pk) <=> pk \in below
  BY DescendentsAre DEF Complete, Current
<1> HIDE DEF below
<1>2. \A pk \in Descendents(r) : StopRef(r, pk) = IdOf(d, pk)
  BY <1>1, RefIs DEF StopsReferredTo
<1> DEFINE parent == StopRef(r, s.parent)
           parentE == IF s.parent = None THEN None ELSE IdOf(d, s.parent)
<1>3. parent = parentE
  <2>1. CASE s.parent = None
    BY <2>1, NoRefIs
  <2>2. CASE s.parent # None
    <3>1. s.parent \in StopPks(d)
      BY <1>1, <2>2 DEF Complete, WellFormed
    <3>2. s.parent \in StopsReferredTo(r)
      BY <2>2 DEF StopsReferredTo
    <3>3. QED
      BY <2>2, <3>1, <3>2, RefIs
  <2>3. QED
    BY <2>1, <2>2
<1> DEFINE children == {StopRef(r, x[2]) : x \in {y \in r.rows.children : y[1] = s.pk}}
           childrenE == {t.id : t \in {u \in d.stops : u.parent = s.pk}}
<1>4. children = childrenE
  <2>1. r.rows.children = {<<t.parent, t.pk>> : t \in {u \in d.stops : u.parent \in PageOf(r)}}
    BY RowsOfAll
  <2>2. \A t \in d.stops : t.parent = s.pk => StopRef(r, t.pk) = t.id
    BY <1>1, <1>2, BelowIs, IdIs DEF Complete, below
  <2>3. children = {StopRef(r, t.pk) : t \in {u \in d.stops : u.parent = s.pk}}
    <3>1. \A x \in r.rows.children : x[1] = s.pk => \E t \in d.stops : t.parent = s.pk /\ x[2] = t.pk
      BY <2>1
    <3>2. \A t \in d.stops : t.parent = s.pk =>
            /\ <<s.pk, t.pk>> \in r.rows.children
            /\ <<s.pk, t.pk>>[1] = s.pk /\ <<s.pk, t.pk>>[2] = t.pk
      BY <1>1, <2>1
    <3> DEFINE refs == {StopRef(r, t.pk) : t \in {u \in d.stops : u.parent = s.pk}}
    <3>3. \A x \in {y \in r.rows.children : y[1] = s.pk} : StopRef(r, x[2]) \in refs
      BY <3>1
    <3>4. \A t \in {u \in d.stops : u.parent = s.pk} : StopRef(r, t.pk) \in children
      <4> SUFFICES ASSUME NEW t \in d.stops, t.parent = s.pk
                   PROVE  \E x \in {y \in r.rows.children : y[1] = s.pk} : StopRef(r, t.pk) = StopRef(r, x[2])
        OBVIOUS
      <4>1. <<s.pk, t.pk>> \in {y \in r.rows.children : y[1] = s.pk}
        BY <3>2
      <4> WITNESS <<s.pk, t.pk>> \in {y \in r.rows.children : y[1] = s.pk}
      <4>2. QED
        BY <3>2
    <3>5. children \subseteq refs
      BY <3>3
    <3>6. refs \subseteq children
      BY <3>4
    <3>7. QED
      BY <3>5, <3>6
  <2>4. QED
    BY <2>2, <2>3
<1> DEFINE transfers == {<<StopRef(r, x[1]), StopRef(r, x[2])>> : x \in {y \in r.rows.transfers : Lifted(r, s, y[1])}}
           transfersE == {<<IdOf(d, x[1]), IdOf(d, x[2])>> : x \in {y \in d.transfers : y[1] \in below}}
<1>5. transfers = IF "transfers" \in r.skip THEN {} ELSE transfersE
  <2>1. r.rows.transfers = IF "transfers" \in r.skip THEN {} ELSE {x \in d.transfers : x[1] \in Descendents(r)}
    BY RowsOfAll
  <2>2. \A x \in r.rows.transfers : StopRef(r, x[1]) = IdOf(d, x[1]) /\ StopRef(r, x[2]) = IdOf(d, x[2])
    <3> SUFFICES ASSUME NEW x \in r.rows.transfers
                 PROVE  StopRef(r, x[1]) = IdOf(d, x[1]) /\ StopRef(r, x[2]) = IdOf(d, x[2])
      OBVIOUS
    <3>1. x \in d.transfers /\ x[1] \in Descendents(r)
      BY <2>1
    <3>2. x[2] \in StopPks(d)
      BY <3>1 DEF Complete, WellFormed
    <3>3. x[2] \in StopsReferredTo(r)
      BY DEF StopsReferredTo
    <3>4. QED
      BY <1>2, <3>1, <3>2, <3>3, RefIs
  <2>3. {y \in r.rows.transfers : Lifted(r, s, y[1])}
          = IF "transfers" \in r.skip THEN {} ELSE {y \in d.transfers : y[1] \in below}
    BY <1>1, <2>1
  <2>4. transfers = {<<IdOf(d, x[1]), IdOf(d, x[2])>> : x \in {y \in r.rows.transfers : Lifted(r, s, y[1])}}
    BY <2>2
  <2>5. QED
    BY <2>3, <2>4
<1> DEFINE alerts == {x.id : x \in {y \in r.rows.alerts : Lifted(r, s, y.stop)}}
           alertsE == {x.id : x \in {y \in d.alerts : y.stop \in below}}
<1>6. alerts = IF "alerts" \in r.skip THEN {} ELSE alertsE
  <2>1. r.rows.alerts = IF "alerts" \in r.skip THEN {} ELSE {x \in d.alerts : x.stop \in Descendents(r)}
    BY RowsOfAll
  <2>2. {y \in r.rows.alerts : Lifted(r, s, y.stop)}
          = IF "alerts" \in r.skip THEN {} ELSE {y \in d.alerts : y.stop \in below}
    BY <1>1, <2>1
  <2>3. QED
    BY <2>2
<1> DEFINE times == {[trip |-> t.trip, route |-> RouteRef(r, t.route), stop |-> StopRef(r, t.stop),
                      destination |-> Destination(r, t.trip)] :
                        t \in {u \in r.rows.times : Lifted(r, s, u.stop)}}
           timesE == {[trip |-> t.trip, route |-> t.route, stop |-> IdOf(d, t.stop),
                       destination |-> IdOf(d, LastOf(d, t.trip).stop)] :
                        t \in {u \in d.times : u.stop \in below /\ ~u.past}}
<1>7. times = IF "times" \in r.skip THEN {} ELSE timesE
  <2>1. r.rows.times = IF "times" \in r.skip THEN {} ELSE {t \in d.times : t.stop \in Descendents(r) /\ ~t.past}
    BY RowsOfAll
  <2>2. ASSUME NEW t \in r.rows.times
        PROVE  /\ RouteRef(r, t.route) = t.route /\ StopRef(r, t.stop) = IdOf(d, t.stop)
               /\ Destination(r, t.trip) = IdOf(d, LastOf(d, t.trip).stop)
    <3>1. t \in d.times /\ t.stop \in Descendents(r)
      BY <2>1
    <3>2. t.route \in d.routes
      BY <3>1 DEF Complete, WellFormed
    <3>3. t.route \in r.rows.routes
      <4>1. t.route \in RoutesReferredTo(r)
        BY DEF RoutesReferredTo
      <4>2. r.rows.routes = d.routes \cap RoutesReferredTo(r)
        BY RowsOfAll
      <4>3. QED
        BY <3>2, <4>1, <4>2
    <3>4. QED
      BY <1>2, <3>1, <3>3, DestinationIs DEF RouteRef
  <2>3. {u \in r.rows.times : Lifted(r, s, u.stop)}
          = IF "times" \in r.skip THEN {} ELSE {u \in d.times : u.stop \in below /\ ~u.past}
    BY <1>1, <2>1
  <2>4. times = {[trip |-> t.trip, route |-> t.route, stop |-> IdOf(d, t.stop),
                  destination |-> IdOf(d, LastOf(d, t.trip).stop)] :
                    t \in {u \in r.rows.times : Lifted(r, s, u.stop)}}
    BY <2>2
  <2>5. QED
    BY <2>3, <2>4
<1> DEFINE maps == {[config |-> c, routes |-> {RouteRef(r, m.route) :
                       m \in {n \in r.rows.maps : n.stop = s.pk /\ n.config = c}}] : c \in ConfigsOf(r, s)}
           mapsE == IF s.parent # None THEN {}
                    ELSE {[config |-> c, routes |-> {m.route : m \in {n \in d.maps :
                             n.config = c /\ n.stop = s.pk}}] : c \in d.configs}
<1>8. maps = IF "maps" \in r.skip THEN {} ELSE mapsE
  <2>1. /\ r.rows.maps = IF "maps" \in r.skip THEN {} ELSE {m \in d.maps : m.stop \in Roots(r)}
        /\ r.rows.configs = IF "maps" \in r.skip THEN {} ELSE (Roots(r) \cap StopPks(d)) \X d.configs
    BY RowsOfAll
  <2>2. s.pk \in Roots(r) <=> s.parent = None
    BY DEF Roots, Complete, Current, WellFormed
  <2>3. ConfigsOf(r, s) = IF "maps" \in r.skip \/ s.parent # None THEN {} ELSE d.configs
    <3>1. CASE "maps" \in r.skip
      BY <2>1, <3>1 DEF ConfigsOf
    <3>2. CASE "maps" \notin r.skip /\ s.parent # None
      <4>1. /\ \A y \in r.rows.configs : y[1] # s.pk
            /\ \A n \in r.rows.maps : n.stop # s.pk
        BY <2>1, <2>2, <3>2
      <4>2. QED
        BY <3>2, <4>1 DEF ConfigsOf
    <3>3. CASE "maps" \notin r.skip /\ s.parent = None
      <4>1. \A c \in d.configs : <<s.pk, c>> \in r.rows.configs /\ <<s.pk, c>>[1] = s.pk /\ <<s.pk, c>>[2] = c
        BY <1>1, <2>1, <2>2, <3>3
      <4>2. \A x \in r.rows.configs : x[2] \in d.configs
        BY <2>1, <3>3
      <4>3. \A m \in r.rows.maps : m.config \in d.configs
        BY <2>1, <3>3 DEF Complete, WellFormed
      <4>4. ConfigsOf(r, s) \subseteq d.configs
        BY <4>2, <4>3 DEF ConfigsOf
      <4>5. \A c \in d.configs : c \in ConfigsOf(r, s)
        BY <4>1 DEF ConfigsOf
      <4>6. QED
        BY <3>3, <4>4, <4>5
    <3>4. QED
      BY <3>1, <3>2, <3>3
  <2>4. CASE "maps" \in r.skip \/ s.parent # None
    BY <2>3, <2>4
  <2>5. CASE "maps" \notin r.skip /\ s.parent = None
    <3>1. \A m \in r.rows.maps : RouteRef(r, m.route) = m.route
      <4> SUFFICES ASSUME NEW m \in r.rows.maps PROVE RouteRef(r, m.route) = m.route
        OBVIOUS
      <4>1. m.route \in d.routes
        BY <2>1, <2>5 DEF Complete, WellFormed
      <4>2. m.route \in r.rows.routes
        <5>1. m.route \in RoutesReferredTo(r)
          BY DEF RoutesReferredTo
        <5>2. r.rows.routes = d.routes \cap RoutesReferredTo(r)
          BY RowsOfAll
        <5>3. QED
          BY <4>1, <5>1, <5>2
      <4>3. QED
        BY <4>2 DEF RouteRef
    <3>2. ASSUME NEW c
          PROVE  {RouteRef(r, m.route) : m \in {n \in r.rows.maps : n.stop = s.pk /\ n.config = c}}
                   = {m.route : m \in {n \in d.maps : n.config = c /\ n.stop = s.pk}}
      <4>1. {n \in r.rows.maps : n.stop = s.pk /\ n.config = c} = {n \in d.maps : n.config = c /\ n.stop = s.pk}
        BY <2>1, <2>2, <2>5
      <4>2. {RouteRef(r, m.route) : m \in {n \in r.rows.maps : n.stop = s.pk /\ n.config = c}}
              = {m.route : m \in {n \in r.rows.maps : n.stop = s.pk /\ n.config = c}}
        BY <3>1
      <4>3. QED
        BY <4>1, <4>2
    <3>3. QED
      BY <2>3, <2>5, <3>2
  <2>6. QED
    BY <2>4, <2>5
<1> DEFINE rules == {<<x.id, StopRef(r, x.stop)>> : x \in {y \in r.rows.rules : Lifted(r, s, y.stop)}}
           rulesE == {<<x.id, IdOf(d, x.stop)>> : x \in {y \in d.rules : y.stop \in below}}
<1>9. rules = rulesE
  <2>1. r.rows.rules = {x \in d.rules : x.stop \in Descendents(r)}
    BY RowsOfAll
  <2>2. {y \in r.rows.rules : Lifted(r, s, y.stop)} = {y \in d.rules : y.stop \in below}
    BY <1>1, <2>1
  <2>3. \A x \in r.rows.rules : StopRef(r, x.stop) = IdOf(d, x.stop)
    BY <1>2, <2>1
  <2>4. rules = {<<x.id, IdOf(d, x.stop)>> : x \in {y \in r.rows.rules : Lifted(r, s, y.stop)}}
    BY <2>3
  <2>5. QED
    BY <2>2, <2>4
<1> DEFINE answer == [id |-> s.id, parent |-> parent, children |-> children, transfers |-> transfers,
                      alerts |-> alerts, times |-> times, maps |-> maps, rules |-> rules]
           expected == [id |-> s.id, parent |-> parentE, children |-> childrenE, transfers |-> transfersE,
                        alerts |-> alertsE, times |-> timesE, maps |-> mapsE, rules |-> rulesE]
<1>10. StopAnswer(r, s) = answer
  BY DEF StopAnswer
<1>11. Expected(d, s, r.skip) = [field \in DOMAIN expected |-> IF field \in r.skip THEN {} ELSE expected[field]]
  BY DEF Expected, below
<1>12. r.skip \subseteq {"transfers", "alerts", "times", "maps"}
  BY SkipsAssumption DEF Complete, IsRequest
<1> HIDE DEF parent, parentE, children, childrenE, transfers, transfersE, alerts, alertsE,
             times, timesE, maps, mapsE, rules, rulesE
<1>13. answer = [field \in DOMAIN expected |-> IF field \in r.skip THEN {} ELSE expected[field]]
  <2>1. \A field \in {"id", "parent", "children", "rules"} : field \notin r.skip
    BY <1>12
  <2>2. QED
    BY <1>3, <1>4, <1>5, <1>6, <1>7, <1>8, <1>9, <2>1
<1>14. QED
  BY <1>10, <1>11, <1>13

LEMMA CompleteDoesNotPanic ==
  ASSUME NEW d, NEW r, Complete(d, r)
  PROVE  ~Panics(r)
<1>1. ASSUME NEW m \in r.rows.maps PROVE \E x \in r.rows.configs : x[1] = m.stop
  <2>1. /\ m \in d.maps /\ m.stop \in Roots(r)
        /\ r.rows.configs = (Roots(r) \cap StopPks(d)) \X d.configs
    <3>1. /\ r.rows.maps = IF "maps" \in r.skip THEN {} ELSE {n \in d.maps : n.stop \in Roots(r)}
          /\ r.rows.configs = IF "maps" \in r.skip THEN {} ELSE (Roots(r) \cap StopPks(d)) \X d.configs
      BY RowsOfAll
    <3>2. QED
      BY <3>1
  <2>2. m.config \in d.configs /\ m.stop \in StopPks(d)
    BY <2>1 DEF Complete, WellFormed
  <2>3. <<m.stop, m.config>> \in r.rows.configs /\ <<m.stop, m.config>>[1] = m.stop
    BY <2>1, <2>2
  <2>4. QED
    BY <2>3
<1>2. ASSUME NEW t \in r.rows.times PROVE t.route \in r.rows.routes
  <2>1. t \in d.times
    <3>1. r.rows.times = IF "times" \in r.skip THEN {} ELSE {u \in d.times : u.stop \in Descendents(r) /\ ~u.past}
      BY RowsOfAll
    <3>2. QED
      BY <3>1
  <2>2. t.route \in d.routes
    BY <2>1 DEF Complete, WellFormed
  <2>3. t.route \in RoutesReferredTo(r)
    BY DEF RoutesReferredTo
  <2>4. r.rows.routes = d.routes \cap RoutesReferredTo(r)
    BY RowsOfAll
  <2>5. QED
    BY <2>2, <2>3, <2>4
<1>3. QED
  BY <1>1, <1>2 DEF Panics

\* As long as nothing is committed, the rows are what the tables have.
CurrentInv ==
  request # None => Ordered(request) /\ (changed = "no" => Current(db, request))

LEMMA NewRequestIsCurrent ==
  ASSUME NEW page \in SUBSET db.stops, NEW n, NEW skip \in Skips, NEW list \in BOOLEAN
  PROVE  LET r == NewRequest(page, n, skip, list) IN Ordered(r) /\ Current(db, r)
<1> DEFINE r == NewRequest(page, n, skip, list)
<1>1. Ordered(r) /\ Done(r) = {}
  BY NewRequestIsOrdered
<1>2. r.page = page
  BY DEF NewRequest
<1> HIDE DEF r
<1>3. Ordered(r) /\ Current(db, r)
  BY <1>1, <1>2 DEF Current
<1>4. QED
  BY <1>3 DEF r

LEMMA CurrentStep ==
  ASSUME TypeOK, CurrentInv, [Next]_vars
  PROVE  CurrentInv'
<1>1. ASSUME NEW id \in IDs, NEW skip \in Skips, GetStop(id, skip) PROVE CurrentInv'
  <2>1. PICK s \in db.stops : request' = NewRequest({s}, None, skip, FALSE)
    BY <1>1 DEF GetStop
  <2>2. \A list \in BOOLEAN : LET r == NewRequest({s}, None, skip, list) IN Ordered(r) /\ Current(db, r)
    BY NewRequestIsCurrent
  <2>3. Ordered(request') /\ Current(db, request')
    BY <2>1, <2>2
  <2>4. QED
    BY <1>1, <2>3 DEF GetStop, CurrentInv
<1>2. ASSUME NEW skip \in Skips, ListStops(skip) PROVE CurrentInv'
  <2>1. PICK page, n : page \in SUBSET db.stops /\ request' = NewRequest(page, n, skip, TRUE)
    <3>1. \E ids, n : request' = NewRequest({s \in db.stops : s.id \in ids}, n, skip, TRUE)
      BY <1>2 DEF ListStops
    <3>2. QED
      BY <3>1
  <2>2. \A list \in BOOLEAN : LET r == NewRequest(page, n, skip, list) IN Ordered(r) /\ Current(db, r)
    BY <2>1, NewRequestIsCurrent
  <2>3. Ordered(request') /\ Current(db, request')
    BY <2>1, <2>2
  <2>4. QED
    BY <1>2, <2>3 DEF ListStops, CurrentInv
<1>3. CASE Query
  <2>1. PICK q \in request.todo :
          IsNext(q, request.todo) /\ request' = Asked(request, q, Rows(q, db, request))
    BY <1>3 DEF Query, Asked
  <2>2. request # None /\ IsRequest(request) /\ Ordered(request) /\ db' = db /\ changed' = changed
    BY <1>3 DEF Query, TypeOK, CurrentInv
  <2>3. Ordered(request')
    BY <2>1, <2>2, AskedIsOrdered
  <2>4. changed = "no" => Current(db, request')
    BY <2>1, <2>2, AskedIsCurrent DEF CurrentInv
  <2>5. QED
    BY <2>2, <2>3, <2>4 DEF CurrentInv
<1>4. ASSUME NEW d \in Databases, Commit(d) PROVE CurrentInv'
  BY <1>4 DEF Commit, CurrentInv
<1>5. CASE \/ Answer \/ Fail \/ FinishListing \/ UNCHANGED vars
           \/ \E limit \in Limits, wanted \in Filters : StartListing(limit, wanted)
  BY <1>5 DEF Answer, Fail, FinishListing, StartListing, vars, CurrentInv
<1>6. QED
  BY <1>1, <1>2, <1>3, <1>4, <1>5 DEF Next

LEMMA InvariantHolds == Spec => [](TypeOK /\ PagesInv /\ CurrentInv)
<1>1. Init => CurrentInv
  BY DEF Init, CurrentInv
<1>2. QED
  BY <1>1, InitPages, PagesStep, CurrentStep, PTL DEF Spec

\* A request during which nothing commits answers what the tables say, field by
\* field (getRawStopData and buildStopsResponse in stop.go).
THEOREM AnswersCurrent == Spec => []AnswersAreCurrent
<1>1. TypeOK /\ CurrentInv => AnswersAreCurrent
  <2> SUFFICES ASSUME TypeOK, CurrentInv, Answering, changed = "no"
               PROVE  /\ ~Panics(request)
                      /\ \A s \in request.page : StopAnswer(request, s) = Expected(db, s, request.skip)
    BY DEF AnswersAreCurrent
  <2>1. Complete(db, request)
    BY DatabasesAssumption DEF Complete, TypeOK, CurrentInv, Answering
  <2>2. QED
    BY <2>1, CompleteDoesNotPanic, AnswerIsExpected
<1>2. QED
  BY <1>1, InvariantHolds, PTL
-----------------------------------------------------------------------------
(***************************************************************************)
(* The references of a request during which nothing but additions (of      *)
(* stops, routes and configurations) is committed.                         *)
(***************************************************************************)

\* The stops that an answer names, but for destinations.
Named(r) ==
  Descendents(r) \cup {x[2] : x \in r.rows.transfers} \cup ({s.parent : s \in r.page} \ {None})

\* What the rows of a query refer to is in the tables, or in the rows before.
RefsOf(query, d, r) ==
  CASE query = "children"    -> \A x \in r.rows.children : \E t \in d.stops :
                                  x = <<t.parent, t.pk>> /\ t.parent \in PageOf(r)
    [] query = "descendents" -> /\ r.rows.children \subseteq r.rows.descendents
                                /\ Descendents(r) \subseteq StopPks(d)
    [] query = "transfers"   -> \A x \in r.rows.transfers : x[1] \in Descendents(r) /\ x[2] \in StopPks(d)
    [] query = "times"       -> \A t \in r.rows.times : t.stop \in Descendents(r) /\ t.route \in d.routes
    [] query = "maps"        -> \A m \in r.rows.maps :
                                  /\ m.stop \in Roots(r) \cap StopPks(d) /\ m.route \in d.routes
                                  /\ d.configs # {}
    [] query = "configs"     -> \A m \in r.rows.maps : \E x \in r.rows.configs : x[1] = m.stop
    [] query = "rules"       -> \A x \in r.rows.rules : x.stop \in Descendents(r)
    [] query = "stops"       -> /\ \A pk \in Named(r) : \E x \in r.rows.stops : x[1] = pk
                                /\ \A x \in r.rows.stops : x[2] # None
    [] query = "routes"      -> RoutesReferredTo(r) \subseteq r.rows.routes
    [] OTHER                 -> TRUE

Refs(d, r) ==
  /\ r.page \subseteq d.stops
  /\ \A q \in Done(r) : RefsOf(q, d, r)

\* They depend on the rows of the query and of those before it.
LEMMA RefsDepend ==
  ASSUME NEW d, NEW q \in QueryNames, NEW r, NEW t, t.page = r.page, RefsOf(q, d, r),
         \A p \in QueryNames : p = q \/ Before(p, q) => t.rows[p] = r.rows[p]
  PROVE  RefsOf(q, d, t)
<1>1. PageOf(t) = PageOf(r) /\ Roots(t) = Roots(r)
  BY DEF PageOf, Roots
<1>2. q = "descendents" \/ Before("descendents", q) => Descendents(t) = Descendents(r)
  BY QueryNamesAre DEF Descendents
<1>3. CASE q \in {"children", "maps", "configs"}
  BY <1>1, <1>3, OrderIs, QueryNamesAre DEF RefsOf
<1>4. CASE q = "descendents"
  BY <1>2, <1>4, OrderIs, QueryNamesAre DEF RefsOf
<1>5. CASE q \in {"transfers", "times", "rules"}
  BY <1>2, <1>5, OrderIs, QueryNamesAre DEF RefsOf
<1>6. CASE q = "stops"
  <2>1. Named(t) = Named(r)
    BY <1>2, <1>6, OrderIs, QueryNamesAre DEF Named
  <2>2. QED
    BY <1>6, <2>1 DEF RefsOf
<1>7. CASE q = "routes"
  <2>1. RoutesReferredTo(t) = RoutesReferredTo(r)
    BY <1>7, OrderIs, QueryNamesAre DEF RoutesReferredTo
  <2>2. QED
    BY <1>7, <2>1 DEF RefsOf
<1>8. CASE q \in {"alerts", "destinations"}
  BY <1>8 DEF RefsOf
<1>9. QED
  BY <1>3, <1>4, <1>5, <1>6, <1>7, <1>8, QueryNamesAre

\* Additions keep them.
LEMMA RefsRemain ==
  ASSUME NEW d, NEW e, OnlyAdds(d, e), NEW q \in QueryNames, NEW r, RefsOf(q, d, r)
  PROVE  RefsOf(q, e, r)
<1>1. StopPks(d) \subseteq StopPks(e) /\ d.stops \subseteq e.stops /\ d.routes \subseteq e.routes
      /\ d.configs \subseteq e.configs
  BY DEF OnlyAdds, StopPks
<1>2. CASE q \in {"children", "descendents", "transfers", "times"}
  BY <1>1, <1>2 DEF RefsOf
<1>3. CASE q = "maps"
  BY <1>1, <1>3 DEF RefsOf
<1>4. CASE q \in {"configs", "rules", "stops", "routes", "alerts", "destinations"}
  BY <1>4 DEF RefsOf
<1>5. QED
  BY <1>2, <1>3, <1>4, QueryNamesAre

\* The rows of the next query refer to what is in the tables.
LEMMA NextRefs ==
  ASSUME NEW d, WellFormed(d), NEW r, IsRequest(r), Ordered(r), Refs(d, r),
         NEW q \in r.todo, IsNext(q, r.todo), NEW t, t.page = r.page,
         t.rows[q] = Rows(q, d, r), \A p \in QueryNames \ {q} : t.rows[p] = r.rows[p]
  PROVE  RefsOf(q, d, t)
<1>1. q \in QueryNames
  BY DEF IsRequest, QueriesWithout, QueryNames
<1>2. ASSUME NEW p \in QueryNames, Before(p, q)
      PROVE  p # q /\ t.rows[p] = r.rows[p] /\ (RefsOf(p, d, r) \/ r.rows[p] = {})
  BY <1>2, NextIsFirst DEF Refs, Ordered
<1>3. PageOf(t) = PageOf(r) /\ Roots(t) = Roots(r)
  BY DEF PageOf, Roots
<1>4. PageOf(r) \subseteq StopPks(d)
  BY DEF Refs, PageOf, StopPks
<1>5. ASSUME Before("descendents", q)
      PROVE  Descendents(t) = Descendents(r) /\ Descendents(r) \subseteq StopPks(d)
  <2>1. t.rows["descendents"] = r.rows["descendents"]
        /\ (RefsOf("descendents", d, r) \/ r.rows["descendents"] = {})
    BY <1>2, <1>5, QueryNamesAre
  <2>2. QED
    BY <2>1 DEF Descendents, RefsOf
<1>6. CASE q = "children"
  <2>1. t.rows["children"] = {<<s.parent, s.pk>> : s \in {u \in d.stops : u.parent \in PageOf(r)}}
    BY <1>6 DEF Rows
  <2>2. QED
    BY <1>3, <1>6, <2>1 DEF RefsOf
<1>7. CASE q = "descendents"
  <2>1. t.rows["descendents"] = UNION {{pk} \X Below(d, pk) : pk \in PageOf(r) \cap StopPks(d)}
    <3>1. Rows("descendents", d, r) = UNION {{pk} \X Below(d, pk) : pk \in PageOf(r) \cap StopPks(d)}
      BY Zenon DEF Rows
    <3>2. QED
      BY <1>7, <3>1
  <2>2. t.rows["children"] = r.rows["children"] /\ (RefsOf("children", d, r) \/ r.rows["children"] = {})
    BY <1>2, <1>7, OrderIs, QueryNamesAre
  <2>3. \A x \in r.rows["children"] : \E u \in d.stops : x = <<u.parent, u.pk>> /\ u.parent \in PageOf(r)
    BY <2>2 DEF RefsOf
  <2>4. \A pk \in PageOf(r) \cap StopPks(d) : \A p \in Below(d, pk) : <<pk, p>> \in t.rows["descendents"]
    BY <2>1
  <2>5. \A u \in d.stops : u.parent \in PageOf(r) => <<u.parent, u.pk>> \in t.rows["descendents"]
    BY <1>4, <2>4, BelowIs
  <2>6. t.rows["children"] \subseteq t.rows["descendents"]
    BY <2>2, <2>3, <2>5
  <2>7. \A x \in t.rows["descendents"] : \E pk \in StopPks(d) : x[2] \in Below(d, pk)
    BY <2>1
  <2>8. Descendents(t) \subseteq StopPks(d)
    BY <2>7, BelowIs DEF Descendents
  <2>9. QED
    BY <1>7, <2>6, <2>8 DEF RefsOf
<1>8. CASE q = "transfers"
  <2>1. t.rows["transfers"] = {x \in d.transfers : x[1] \in Descendents(r)}
    BY <1>8 DEF Rows
  <2>2. \A x \in d.transfers : x[2] \in StopPks(d)
    BY DEF WellFormed
  <2>3. QED
    BY <1>5, <1>8, <2>1, <2>2, OrderIs DEF RefsOf
<1>9. CASE q = "times"
  <2>1. t.rows["times"] = {x \in d.times : x.stop \in Descendents(r) /\ ~x.past}
    BY <1>9 DEF Rows
  <2>2. \A x \in d.times : x.route \in d.routes
    BY DEF WellFormed
  <2>3. QED
    BY <1>5, <1>9, <2>1, <2>2, OrderIs DEF RefsOf
<1>10. CASE q = "maps"
  <2>1. t.rows["maps"] = {m \in d.maps : m.stop \in Roots(r)}
    BY <1>10 DEF Rows
  <2>2. \A m \in d.maps : m.config \in d.configs /\ m.route \in d.routes /\ m.stop \in StopPks(d)
    BY DEF WellFormed
  <2>3. QED
    BY <1>3, <1>10, <2>1, <2>2 DEF RefsOf
<1>11. CASE q = "configs"
  <2>1. t.rows["configs"] = (Roots(r) \cap StopPks(d)) \X d.configs
    BY <1>11 DEF Rows
  <2>2. t.rows["maps"] = r.rows["maps"] /\ (RefsOf("maps", d, r) \/ r.rows["maps"] = {})
    BY <1>2, <1>11, OrderIs, QueryNamesAre
  <2>3. \A m \in r.rows["maps"] : m.stop \in Roots(r) \cap StopPks(d) /\ d.configs # {}
    BY <2>2 DEF RefsOf
  <2>4. ASSUME NEW m \in t.rows["maps"] PROVE \E x \in t.rows["configs"] : x[1] = m.stop
    <3>1. PICK c \in d.configs : TRUE
      BY <2>2, <2>3
    <3>2. <<m.stop, c>> \in t.rows["configs"] /\ <<m.stop, c>>[1] = m.stop
      BY <2>1, <2>2, <2>3
    <3>3. QED
      BY <3>2
  <2>5. QED
    BY <1>11, <2>4 DEF RefsOf
<1>12. CASE q = "rules"
  <2>1. t.rows["rules"] = {x \in d.rules : x.stop \in Descendents(r)}
    BY <1>12 DEF Rows
  <2>2. QED
    BY <1>5, <1>12, <2>1, OrderIs DEF RefsOf
<1>13. CASE q = "stops"
  <2>1. t.rows["stops"] = {<<s.pk, s.id>> : s \in {u \in d.stops : u.pk \in StopsReferredTo(r)}}
    BY <1>13 DEF Rows
  <2>2. t.rows["transfers"] = r.rows["transfers"] /\ (RefsOf("transfers", d, r) \/ r.rows["transfers"] = {})
    BY <1>2, <1>13, OrderIs, QueryNamesAre
  <2>3. \A x \in r.rows["transfers"] : x[2] \in StopPks(d)
    BY <2>2 DEF RefsOf
  <2>4. \A s \in r.page : s.parent # None => s.parent \in StopPks(d)
    BY DEF Refs, WellFormed
  <2>5. Descendents(t) = Descendents(r) /\ Descendents(r) \subseteq StopPks(d)
    BY <1>5, <1>13, OrderIs
  <2>6. Named(t) \subseteq StopPks(d) /\ Named(t) \subseteq StopsReferredTo(r)
    BY <2>2, <2>3, <2>4, <2>5 DEF Named, StopsReferredTo
  <2>7. ASSUME NEW pk \in Named(t) PROVE \E x \in t.rows["stops"] : x[1] = pk
    <3>1. PICK s \in d.stops : s.pk = pk
      BY <2>6 DEF StopPks
    <3>2. <<s.pk, s.id>> \in t.rows["stops"] /\ <<s.pk, s.id>>[1] = pk
      BY <2>1, <2>6, <3>1
    <3>3. QED
      BY <3>2
  <2>8. \A s \in d.stops : s.id # None
    BY LimitsAssumption, NoneAssumption DEF WellFormed
  <2>9. \A x \in t.rows["stops"] : x[2] # None
    BY <2>1, <2>8
  <2>10. QED
    BY <1>13, <2>7, <2>9 DEF RefsOf
<1>14. CASE q = "routes"
  <2>1. t.rows["routes"] = d.routes \cap RoutesReferredTo(r)
    BY <1>14 DEF Rows
  <2>2. t.rows["maps"] = r.rows["maps"] /\ (RefsOf("maps", d, r) \/ r.rows["maps"] = {})
    BY <1>2, <1>14, OrderIs, QueryNamesAre
  <2>3. t.rows["times"] = r.rows["times"] /\ (RefsOf("times", d, r) \/ r.rows["times"] = {})
    BY <1>2, <1>14, OrderIs, QueryNamesAre
  <2>4. \A m \in r.rows["maps"] : m.route \in d.routes
    BY <2>2 DEF RefsOf
  <2>5. \A u \in r.rows["times"] : u.route \in d.routes
    BY <2>3 DEF RefsOf
  <2>6. RoutesReferredTo(t) = RoutesReferredTo(r) /\ RoutesReferredTo(r) \subseteq d.routes
    BY <2>2, <2>3, <2>4, <2>5 DEF RoutesReferredTo
  <2>7. QED
    BY <1>14, <2>1, <2>6 DEF RefsOf
<1>15. CASE q \in {"alerts", "destinations"}
  BY <1>15 DEF RefsOf
<1>16. QED
  BY <1>1, <1>6, <1>7, <1>8, <1>9, <1>10, <1>11, <1>12, <1>13, <1>14, <1>15, QueryNamesAre

LEMMA AskedRefs ==
  ASSUME NEW d, WellFormed(d), NEW r, IsRequest(r), Ordered(r), Refs(d, r),
         NEW q \in r.todo, IsNext(q, r.todo)
  PROVE  Refs(d, Asked(r, q, Rows(q, d, r)))
<1> DEFINE rows == Rows(q, d, r)
<1> HIDE DEF rows
<1> DEFINE t == Asked(r, q, rows)
<1>1. /\ Done(t) = Done(r) \cup {q} /\ t.page = r.page
      /\ t.rows[q] = rows /\ \A p \in QueryNames \ {q} : t.rows[p] = r.rows[p]
  BY AskedIsOrdered
<1>2. Done(r) \subseteq QueryNames /\ q \notin Done(r)
  BY DEF Done, QueriesWithout, QueryNames
<1> HIDE DEF t
<1>3. RefsOf(q, d, t)
  BY <1>1, NextRefs DEF rows
<1>4. ASSUME NEW p \in Done(r) PROVE RefsOf(p, d, t)
  <2>1. ~Before(q, p)
    BY DEF Ordered
  <2>2. p \in QueryNames /\ p # q
    BY <1>2
  <2>3. \A s \in QueryNames : s = p \/ Before(s, p) => t.rows[s] = r.rows[s]
    BY <1>1, <2>1, <2>2
  <2>4. RefsOf(p, d, r)
    BY DEF Refs
  <2>5. QED
    BY <1>1, <2>2, <2>3, <2>4, RefsDepend
<1>5. t.page \subseteq d.stops
  BY <1>1 DEF Refs
<1>6. Refs(d, t)
  BY <1>1, <1>3, <1>4, <1>5 DEF Refs
<1>7. QED
  BY <1>6 DEF t, rows

RefsInv == request # None /\ changed # "more" => Refs(db, request)

LEMMA NewRequestRefs ==
  ASSUME NEW page \in SUBSET db.stops, NEW n, NEW skip \in Skips, NEW list \in BOOLEAN
  PROVE  Refs(db, NewRequest(page, n, skip, list))
<1> DEFINE r == NewRequest(page, n, skip, list)
<1>1. Done(r) = {}
  BY NewRequestIsOrdered
<1>2. r.page = page
  BY DEF NewRequest
<1> HIDE DEF r
<1>3. Refs(db, r)
  BY <1>1, <1>2 DEF Refs
<1>4. QED
  BY <1>3 DEF r

LEMMA RefsStep ==
  ASSUME TypeOK, CurrentInv, RefsInv, [Next]_vars
  PROVE  RefsInv'
<1>1. ASSUME NEW id \in IDs, NEW skip \in Skips, GetStop(id, skip) PROVE RefsInv'
  <2>1. PICK s \in db.stops : request' = NewRequest({s}, None, skip, FALSE)
    BY <1>1 DEF GetStop
  <2>2. \A list \in BOOLEAN : Refs(db, NewRequest({s}, None, skip, list))
    BY NewRequestRefs
  <2>3. Refs(db, request')
    BY <2>1, <2>2
  <2>4. QED
    BY <1>1, <2>3 DEF GetStop, RefsInv
<1>2. ASSUME NEW skip \in Skips, ListStops(skip) PROVE RefsInv'
  <2>1. PICK page, n : page \in SUBSET db.stops /\ request' = NewRequest(page, n, skip, TRUE)
    <3>1. \E ids, n : request' = NewRequest({s \in db.stops : s.id \in ids}, n, skip, TRUE)
      BY <1>2 DEF ListStops
    <3>2. QED
      BY <3>1
  <2>2. \A list \in BOOLEAN : Refs(db, NewRequest(page, n, skip, list))
    BY <2>1, NewRequestRefs
  <2>3. Refs(db, request')
    BY <2>1, <2>2
  <2>4. QED
    BY <1>2, <2>3 DEF ListStops, RefsInv
<1>3. CASE Query
  <2>1. PICK q \in request.todo :
          IsNext(q, request.todo) /\ request' = Asked(request, q, Rows(q, db, request))
    BY <1>3 DEF Query, Asked
  <2>2. /\ request # None /\ IsRequest(request) /\ Ordered(request) /\ WellFormed(db)
        /\ db' = db /\ changed' = changed
    BY <1>3, DatabasesAssumption DEF Query, TypeOK, CurrentInv
  <2>3. changed # "more" => Refs(db, request')
    BY <2>1, <2>2, AskedRefs DEF RefsInv
  <2>4. QED
    BY <2>2, <2>3 DEF RefsInv
<1>4. ASSUME NEW d \in Databases, Commit(d) PROVE RefsInv'
  <2> SUFFICES ASSUME request # None, changed # "more", OnlyAdds(db, d)
               PROVE  Refs(d, request)
    BY <1>4 DEF Commit, RefsInv
  <2>1. Refs(db, request)
    BY DEF RefsInv
  <2>2. Done(request) \subseteq QueryNames
    BY DEF Done, QueriesWithout, QueryNames
  <2>3. \A q \in Done(request) : RefsOf(q, d, request)
    BY <2>1, <2>2, RefsRemain DEF Refs
  <2>4. QED
    BY <2>1, <2>3 DEF Refs, OnlyAdds
<1>5. CASE \/ Answer \/ Fail \/ FinishListing \/ UNCHANGED vars
           \/ \E limit \in Limits, wanted \in Filters : StartListing(limit, wanted)
  BY <1>5 DEF Answer, Fail, FinishListing, StartListing, vars, RefsInv
<1>6. QED
  BY <1>1, <1>2, <1>3, <1>4, <1>5 DEF Next

\* The references of an answer are found, and it does not panic, whatever commits
\* between its queries as long as it deletes no stop, route or configuration.
LEMMA RefsAreFound ==
  ASSUME NEW d, WellFormed(d), NEW r, IsRequest(r), Ordered(r), Refs(d, r), r.todo = {}
  PROVE  /\ ~Panics(r)
         /\ \A s \in r.page :
              LET answer == StopAnswer(r, s)
              IN /\ s.parent # None => answer.parent # None
                 /\ None \notin answer.children
                 /\ \A x \in answer.transfers : None \notin {x[1], x[2]}
                 /\ \A t \in answer.times : None \notin {t.route, t.stop}
                 /\ \A m \in answer.maps : None \notin m.routes
                 /\ \A x \in answer.rules : x[2] # None
<1>1. \A q \in QueryNames : RefsOf(q, d, r) \/ r.rows[q] = {}
  BY DEF Refs, Ordered
<1>2. /\ RefsOf("children", d, r) /\ RefsOf("descendents", d, r) /\ RefsOf("rules", d, r)
      /\ RefsOf("stops", d, r) /\ RefsOf("routes", d, r)
  BY WhatIsDone DEF Refs
<1>3. /\ \A pk \in Named(r) : \E x \in r.rows.stops : x[1] = pk
      /\ \A x \in r.rows.stops : x[2] # None
  BY <1>2 DEF RefsOf
<1>4. \A pk \in Named(r) : StopRef(r, pk) # None
  BY <1>3 DEF StopRef
<1>5. r.rows.children \subseteq r.rows.descendents
  BY <1>2 DEF RefsOf
<1>6. \A x \in r.rows.children : x[2] \in Named(r)
  BY <1>5 DEF Named, Descendents
<1>7. \A x \in r.rows.transfers : x[1] \in Named(r) /\ x[2] \in Named(r)
  <2>1. RefsOf("transfers", d, r) \/ r.rows["transfers"] = {}
    BY <1>1, QueryNamesAre
  <2>2. \A x \in r.rows.transfers : x[1] \in Descendents(r)
    BY <2>1 DEF RefsOf
  <2>3. QED
    BY <2>2 DEF Named
<1>8. \A t \in r.rows.times : t.stop \in Named(r) /\ t.route \in d.routes
  <2>1. RefsOf("times", d, r) \/ r.rows["times"] = {}
    BY <1>1, QueryNamesAre
  <2>2. \A t \in r.rows.times : t.stop \in Descendents(r) /\ t.route \in d.routes
    BY <2>1 DEF RefsOf
  <2>3. QED
    BY <2>2 DEF Named
<1>9. \A m \in r.rows.maps : m.route \in d.routes
  <2>1. RefsOf("maps", d, r) \/ r.rows["maps"] = {}
    BY <1>1, QueryNamesAre
  <2>2. QED
    BY <2>1 DEF RefsOf
<1>10. \A x \in r.rows.rules : x.stop \in Named(r)
  BY <1>2 DEF RefsOf, Named
<1>11. \A pk \in RoutesReferredTo(r) : pk \in r.rows.routes
  BY <1>2 DEF RefsOf
<1>12. None \notin d.routes
  BY DEF WellFormed, Pks
<1>13. \A t \in r.rows.times : RouteRef(r, t.route) # None
  BY <1>8, <1>11, <1>12 DEF RouteRef, RoutesReferredTo
<1>14. \A m \in r.rows.maps : RouteRef(r, m.route) # None
  BY <1>9, <1>11, <1>12 DEF RouteRef, RoutesReferredTo
<1>15. ~Panics(r)
  <2>1. \A m \in r.rows.maps : \E x \in r.rows.configs : x[1] = m.stop
    <3>1. CASE "maps" \in r.skip
      <4>1. r.rows["maps"] = {}
        BY <3>1, WhatIsDone, QueryNamesAre DEF Ordered
      <4>2. QED
        BY <4>1
    <3>2. CASE "maps" \notin r.skip
      <4>1. RefsOf("configs", d, r)
        BY <3>2, WhatIsDone DEF Refs
      <4>2. QED
        BY <4>1 DEF RefsOf
    <3>3. QED
      BY <3>1, <3>2
  <2>2. \A t \in r.rows.times : t.route \in r.rows.routes
    BY <1>11 DEF RoutesReferredTo
  <2>3. QED
    BY <2>1, <2>2 DEF Panics
<1>16. ASSUME NEW s \in r.page
       PROVE  LET answer == StopAnswer(r, s)
              IN /\ s.parent # None => answer.parent # None
                 /\ None \notin answer.children
                 /\ \A x \in answer.transfers : None \notin {x[1], x[2]}
                 /\ \A t \in answer.times : None \notin {t.route, t.stop}
                 /\ \A m \in answer.maps : None \notin m.routes
                 /\ \A x \in answer.rules : x[2] # None
  <2> DEFINE answer == StopAnswer(r, s)
  <2>1. s.parent # None => answer.parent # None
    <3>1. answer.parent = StopRef(r, s.parent)
      BY DEF StopAnswer
    <3>2. QED
      BY <1>4, <3>1 DEF Named
  <2>2. None \notin answer.children
    <3>1. answer.children = {StopRef(r, x[2]) : x \in {y \in r.rows.children : y[1] = s.pk}}
      BY DEF StopAnswer
    <3>2. QED
      BY <1>4, <1>6, <3>1
  <2>3. \A x \in answer.transfers : None \notin {x[1], x[2]}
    <3>1. answer.transfers = {<<StopRef(r, x[1]), StopRef(r, x[2])>> :
                                x \in {y \in r.rows.transfers : Lifted(r, s, y[1])}}
      BY DEF StopAnswer
    <3>2. QED
      BY <1>4, <1>7, <3>1
  <2>4. \A t \in answer.times : None \notin {t.route, t.stop}
    <3>1. answer.times = {[trip |-> t.trip, route |-> RouteRef(r, t.route), stop |-> StopRef(r, t.stop),
                           destination |-> Destination(r, t.trip)] :
                             t \in {u \in r.rows.times : Lifted(r, s, u.stop)}}
      BY DEF StopAnswer
    <3>2. QED
      BY <1>4, <1>8, <1>13, <3>1
  <2>5. \A m \in answer.maps : None \notin m.routes
    <3>1. answer.maps = {[config |-> c, routes |-> {RouteRef(r, m.route) :
                            m \in {n \in r.rows.maps : n.stop = s.pk /\ n.config = c}}] : c \in ConfigsOf(r, s)}
      BY DEF StopAnswer
    <3>2. QED
      BY <1>14, <3>1
  <2>6. \A x \in answer.rules : x[2] # None
    <3>1. answer.rules = {<<x.id, StopRef(r, x.stop)>> : x \in {y \in r.rows.rules : Lifted(r, s, y.stop)}}
      BY DEF StopAnswer
    <3>2. QED
      BY <1>4, <1>10, <3>1
  <2> HIDE DEF answer
  <2>7. QED
    BY <2>1, <2>2, <2>3, <2>4, <2>5, <2>6 DEF answer
<1>17. QED
  BY <1>15, <1>16

\* While a request is answered, updates that delete no stop, route or
\* configuration take none of its references away but destinations, and never
\* make it panic (getRawStopData and buildStopsResponse in stop.go).
THEOREM ReferencesFound == Spec => []ReferencesAreFound
<1>1. TypeOK /\ CurrentInv /\ RefsInv => ReferencesAreFound
  <2> SUFFICES ASSUME TypeOK, CurrentInv, RefsInv, Answering, changed # "more"
               PROVE  ReferencesAreFound
    BY DEF ReferencesAreFound
  <2>1. /\ WellFormed(db) /\ IsRequest(request) /\ Ordered(request) /\ Refs(db, request)
        /\ request.todo = {}
    BY DatabasesAssumption DEF TypeOK, CurrentInv, RefsInv, Answering
  <2>2. QED
    BY <2>1, RefsAreFound DEF ReferencesAreFound
<1>2. Init => RefsInv
  BY DEF Init, RefsInv
<1>3. Spec => []RefsInv
  BY <1>2, RefsStep, InvariantHolds, PTL DEF Spec
<1>4. QED
  BY <1>1, <1>3, InvariantHolds, PTL
-----------------------------------------------------------------------------
(***************************************************************************)
(* The other requests, for any tables and times: PublicRequests.           *)
(***************************************************************************)
\* The keys of the schema hold, and times are numbers.
TablesInv ==
  /\ Public!WellFormed(tables) /\ now \in Nat
  /\ \A m \in during : Public!WellFormed(m[1]) /\ m[2] \in Nat

LEMMA TablesInit == Public!Init => TablesInv
BY DEF Public!Init, TablesInv

LEMMA TablesStep ==
  ASSUME TablesInv, [Public!Next]_Public!vars
  PROVE  TablesInv'
<1>1. ASSUME NEW kind \in Public!Kinds, NEW skip \in LeftOut, Public!Request(kind, skip) PROVE TablesInv'
  BY <1>1 DEF Public!Request, TablesInv
<1>2. CASE Public!Query
  BY <1>2 DEF Public!Query, TablesInv
<1>3. CASE Public!Finish
  BY <1>3 DEF Public!Finish, TablesInv
<1>4. ASSUME NEW d \in AllTables, Public!Commit(d) PROVE TablesInv'
  <2>1. tables' = d /\ now' = now /\ Public!WellFormed(d) /\ during' \subseteq during \cup {<<d, now>>}
    BY <1>4 DEF Public!Commit, Public!Since
  <2>2. QED
    BY <2>1 DEF TablesInv
<1>5. CASE Public!Tick
  <2>1. tables' = tables /\ now' = now + 1 /\ during' \subseteq during \cup {<<tables, now + 1>>}
    BY <1>5 DEF Public!Tick, Public!Since
  <2>2. QED
    BY <2>1 DEF TablesInv
<1>6. CASE UNCHANGED Public!vars
  BY <1>6 DEF Public!vars, TablesInv
<1>7. QED
  BY <1>1, <1>2, <1>3, <1>4, <1>5, <1>6 DEF Public!Next

LEMMA TablesHold == Public!Spec => []TablesInv
BY TablesInit, TablesStep, PTL DEF Public!Spec

\* The alerts that routes, trips and agencies have, and the periods that alerts have.
PreviewOf(d, t, x) == {y[2][2] : y \in {z \in Public!ActiveAlerts(d, t, {x[2]}) : z[2][1] = x[1]}}
PeriodsOf(d, t, x) == {y[2][1] : y \in {z \in Public!ActivePeriods(d, t, {x[1]}) : z[2][2]}}

LEMMA AlertsAgree ==
  ASSUME NEW d, Public!WellFormed(d), NEW t \in Nat, NEW x \in d.links
  PROVE  /\ PreviewOf(d, t, x) \subseteq PeriodsOf(d, t, x)
         /\ \A p \in PeriodsOf(d, t, x) \ PreviewOf(d, t, x) : t \in {p.starts, p.ends}
<1> DEFINE rows == Public!ActiveAlerts(d, t, {x[2]})
           preview == {y[2][2] : y \in {z \in rows : z[2][1] = x[1]}}
           periods == Public!ActivePeriods(d, t, {x[1]})
           current == {y[2][1] : y \in {z \in periods : z[2][2]}}
<1>1. \A y \in rows : \E k, a : \E p \in d.periods :
        y = <<k, <<a, p>>>> /\ p.alert = a /\ Public!Active(p, t)
  BY DEF Public!ActiveAlerts
<1>2. \A p \in d.periods : p.alert = x[1] /\ Public!Active(p, t) => <<x[2], <<x[1], p>>>> \in rows
  BY DEF Public!ActiveAlerts
<1>3. \A y \in periods : \E p \in d.periods :
        y = <<x[1], <<p, Public!IsCurrent(p, t)>>>> /\ p.alert = x[1]
  BY DEF Public!ActivePeriods
<1>4. \A p \in d.periods : p.alert = x[1] => <<x[1], <<p, Public!IsCurrent(p, t)>>>> \in periods
  BY DEF Public!ActivePeriods
<1>5. \A p \in d.periods : {p.starts, p.ends} \subseteq Nat \cup {None}
  BY DEF Public!WellFormed
<1>6. \A p \in d.periods : Public!Active(p, t) => Public!IsCurrent(p, t)
  BY <1>5 DEF Public!Active, Public!IsCurrent
<1>7. \A p \in d.periods : Public!IsCurrent(p, t) /\ ~Public!Active(p, t) => t \in {p.starts, p.ends}
  BY <1>5 DEF Public!Active, Public!IsCurrent
<1> HIDE DEF rows, periods
<1>8. ASSUME NEW p \in preview PROVE p \in current
  <2>1. p \in d.periods /\ p.alert = x[1] /\ Public!Active(p, t)
    BY <1>1
  <2>2. <<x[1], <<p, Public!IsCurrent(p, t)>>>> \in periods /\ Public!IsCurrent(p, t)
    BY <1>4, <1>6, <2>1
  <2> DEFINE is == Public!IsCurrent(p, t)
             y == <<x[1], <<p, is>>>>
  <2>3. y[2][1] = p /\ y[2][2] = is
    BY Zenon
  <2> HIDE DEF is
  <2>4. y \in {z \in periods : z[2][2]}
    BY <2>2, <2>3 DEF is
  <2> HIDE DEF y
  <2>5. QED
    BY <2>3, <2>4
<1>9. ASSUME NEW p \in current \ preview PROVE t \in {p.starts, p.ends}
  <2>1. p \in d.periods /\ p.alert = x[1] /\ Public!IsCurrent(p, t)
    BY <1>3
  <2>2. ~Public!Active(p, t)
    <3> SUFFICES ASSUME Public!Active(p, t) PROVE p \in preview
      OBVIOUS
    <3>1. <<x[2], <<x[1], p>>>> \in rows
      BY <1>2, <2>1
    <3>2. QED
      BY <3>1
  <2>3. QED
    BY <1>7, <2>1, <2>2
<1>10. QED
  BY <1>8, <1>9, Zenon DEF rows, periods, PreviewOf, PeriodsOf

\* The trips of a list, and their vehicles and shapes.
LEMMA TripRows ==
  ASSUME NEW d, Public!WellFormed(d), NEW route
  PROVE  LET rows == Public!ListTrips(d, route)
             shapes(t) == IF Public!ShapesOf(d, t.id) = {} THEN {None} ELSE Public!ShapesOf(d, t.id)
         IN /\ \A x \in rows : \E t \in d.trips : t.route = route /\ \E shape \in shapes(t) :
                 x = [pk |-> t.pk, shape |-> shape, vehicle |-> Public!VehicleOf(d, t.pk)]
            /\ \A t \in d.trips : t.route = route => \A shape \in shapes(t) :
                 [pk |-> t.pk, shape |-> shape, vehicle |-> Public!VehicleOf(d, t.pk)] \in rows
<1> DEFINE shapes(t) == IF Public!ShapesOf(d, t.id) = {} THEN {None} ELSE Public!ShapesOf(d, t.id)
           row(x) == [pk |-> x[1].pk, shape |-> x[2], vehicle |-> Public!VehicleOf(d, x[1].pk)]
           pairs == UNION {{t} \X shapes(t) : t \in {u \in d.trips : u.route = route}}
           rows == Public!ListTrips(d, route)
<1>1. rows = {row(x) : x \in pairs}
  BY DEF Public!ListTrips
<1> HIDE DEF rows, shapes
<1>2. \A x \in pairs : \E t \in d.trips : t.route = route /\ \E shape \in shapes(t) : x = <<t, shape>>
  OBVIOUS
<1>3. \A t \in d.trips : t.route = route => \A shape \in shapes(t) : <<t, shape>> \in pairs
  OBVIOUS
<1> HIDE DEF pairs
<1>4. ASSUME NEW x \in rows
      PROVE  \E t \in d.trips : t.route = route /\ \E shape \in shapes(t) :
               x = [pk |-> t.pk, shape |-> shape, vehicle |-> Public!VehicleOf(d, t.pk)]
  <2>1. PICK y \in pairs : x = row(y)
    BY <1>1
  <2>2. PICK t \in d.trips : t.route = route /\ \E shape \in shapes(t) : y = <<t, shape>>
    BY <1>2
  <2>3. QED
    BY <2>1, <2>2
<1>5. ASSUME NEW t \in d.trips, t.route = route, NEW shape \in shapes(t)
      PROVE  [pk |-> t.pk, shape |-> shape, vehicle |-> Public!VehicleOf(d, t.pk)] \in rows
  <2>1. row(<<t, shape>>) = [pk |-> t.pk, shape |-> shape, vehicle |-> Public!VehicleOf(d, t.pk)]
    OBVIOUS
  <2>2. <<t, shape>> \in pairs
    BY <1>3, <1>5
  <2> HIDE DEF row
  <2>3. \A x \in pairs : row(x) \in rows
    BY <1>1
  <2>4. row(<<t, shape>>) \in rows
    BY <2>2, <2>3
  <2>5. QED
    BY <2>1, <2>4
<1>6. QED
  BY <1>4, <1>5 DEF rows, shapes

LEMMA ShapesAre ==
  ASSUME NEW d, NEW id, NEW shape \in Public!ShapesOf(d, id)
  PROVE  shape # None /\ \E a \in d.scheduled : a.id = id /\ a.shape = shape
BY DEF Public!ShapesOf

\* A trip has a vehicle if the vehicle has the trip.
LEMMA VehiclesAgree ==
  ASSUME NEW d, Public!WellFormed(d), NEW route \in Public!Keys(d.routes)
  PROVE  {<<t.pk, t.vehicle>> : t \in {u \in Public!ListTrips(d, route) : u.vehicle # None}}
           = {<<v.trip, v.pk>> : v \in {u \in Public!ListVehicles(d) : u.route = route}}
<1> DEFINE trips == Public!ListTrips(d, route)
           vehicles == Public!ListVehicles(d)
           left == {<<t.pk, t.vehicle>> : t \in {u \in trips : u.vehicle # None}}
           right == {<<v.trip, v.pk>> : v \in {u \in vehicles : u.route = route}}
<1>1. /\ route # None
      /\ \A t \in d.trips : t.pk # None /\ t.pk \in Public!Keys(d.trips)
      /\ \A t, u \in d.trips : t.pk = u.pk => t = u
      /\ \A v, w \in d.vehicles : v.id # None /\ (v.trip = w.trip /\ v.trip # None => v = w)
  BY DEF Public!WellFormed, Public!Pks, Public!Keys
<1>2. ASSUME NEW t \in d.trips, NEW v \in d.vehicles, v.trip = t.pk
      PROVE  Public!VehicleOf(d, t.pk) = v.id
  <2>1. \A w \in d.vehicles : w.trip = t.pk => w = v
    BY <1>1, <1>2
  <2>2. (CHOOSE w \in d.vehicles : w.trip = t.pk) = v
    BY <1>2, <2>1
  <2>3. QED
    BY <1>2, <2>2 DEF Public!VehicleOf
<1>3. ASSUME NEW t \in d.trips, Public!VehicleOf(d, t.pk) # None
      PROVE  \E v \in d.vehicles : v.trip = t.pk
  BY <1>3 DEF Public!VehicleOf
<1>4. ASSUME NEW v \in d.vehicles, NEW t \in d.trips, v.trip = t.pk
      PROVE  [pk |-> v.id, trip |-> t.pk, route |-> t.route] \in vehicles
  <2>1. (CHOOSE u \in d.trips : u.pk = v.trip) = t
    BY <1>1, <1>4
  <2>2. v.trip \in Public!Keys(d.trips)
    BY <1>1, <1>4
  <2>3. [pk |-> v.id,
         trip |-> IF v.trip \in Public!Keys(d.trips) THEN v.trip ELSE None,
         route |-> IF v.trip \in Public!Keys(d.trips)
                   THEN (CHOOSE u \in d.trips : u.pk = v.trip).route ELSE None] \in vehicles
    BY DEF Public!ListVehicles
  <2>4. QED
    BY <1>4, <2>1, <2>2, <2>3
<1>5. ASSUME NEW x \in vehicles, x.route = route
      PROVE  \E v \in d.vehicles, t \in d.trips :
               v.trip = t.pk /\ t.route = route /\ x.pk = v.id /\ x.trip = t.pk
  <2>1. PICK v \in d.vehicles :
          x = [pk |-> v.id,
               trip |-> IF v.trip \in Public!Keys(d.trips) THEN v.trip ELSE None,
               route |-> IF v.trip \in Public!Keys(d.trips)
                         THEN (CHOOSE u \in d.trips : u.pk = v.trip).route ELSE None]
    BY DEF Public!ListVehicles
  <2>2. v.trip \in Public!Keys(d.trips)
    BY <1>1, <1>5, <2>1
  <2>3. PICK t \in d.trips : t.pk = v.trip
    BY <2>2 DEF Public!Keys
  <2>4. (CHOOSE u \in d.trips : u.pk = v.trip) = t
    BY <1>1, <2>3
  <2>5. QED
    BY <1>5, <2>1, <2>2, <2>3, <2>4
<1> HIDE DEF vehicles
<1>6. ASSUME NEW x \in trips, x.vehicle # None PROVE <<x.pk, x.vehicle>> \in right
  <2>1. PICK t \in d.trips : t.route = route /\ x.pk = t.pk /\ x.vehicle = Public!VehicleOf(d, t.pk)
    BY TripRows
  <2>2. PICK v \in d.vehicles : v.trip = t.pk
    BY <1>3, <1>6, <2>1
  <2>3. x.vehicle = v.id
    BY <1>2, <2>1, <2>2
  <2>4. [pk |-> v.id, trip |-> t.pk, route |-> t.route] \in {u \in vehicles : u.route = route}
    BY <1>4, <2>1, <2>2
  <2>5. <<t.pk, v.id>> \in right
    BY <2>4
  <2>6. QED
    BY <2>1, <2>3, <2>5
<1>7. ASSUME NEW x \in vehicles, x.route = route PROVE <<x.trip, x.pk>> \in left
  <2>1. PICK v \in d.vehicles, t \in d.trips :
          v.trip = t.pk /\ t.route = route /\ x.pk = v.id /\ x.trip = t.pk
    BY <1>5, <1>7
  <2>2. Public!VehicleOf(d, t.pk) = v.id /\ v.id # None
    BY <1>1, <1>2, <2>1
  <2>3. PICK y \in trips : y.pk = t.pk /\ y.vehicle = v.id
    <3> DEFINE shapes == IF Public!ShapesOf(d, t.id) = {} THEN {None} ELSE Public!ShapesOf(d, t.id)
    <3>1. PICK shape \in shapes : TRUE
      OBVIOUS
    <3>2. [pk |-> t.pk, shape |-> shape, vehicle |-> Public!VehicleOf(d, t.pk)] \in trips
      BY <2>1, <3>1, TripRows
    <3>3. QED
      BY <2>2, <3>2
  <2>4. y \in {u \in trips : u.vehicle # None}
    BY <2>2, <2>3
  <2>5. <<y.pk, y.vehicle>> \in left
    BY <2>4
  <2>6. QED
    BY <2>1, <2>3, <2>5
<1> HIDE DEF trips
<1>8. left \subseteq right
  BY <1>6
<1>9. right \subseteq left
  BY <1>7
<1>10. QED
  BY <1>8, <1>9 DEF trips, vehicles

\* A list has each trip of the route, once unless there are several shapes.
LEMMA TripsAgree ==
  ASSUME NEW d, Public!WellFormed(d), NEW route
  PROVE  /\ Public!Keys(Public!ListTrips(d, route)) = Public!Keys({t \in d.trips : t.route = route})
         /\ \A x, y \in Public!ListTrips(d, route) :
              x.pk = y.pk /\ x # y =>
                \E a, b \in d.scheduled :
                  /\ a.id = b.id /\ None # a.shape /\ a.shape # b.shape /\ b.shape # None
                  /\ \E t \in d.trips : t.pk = x.pk /\ t.id = a.id
<1> DEFINE trips == Public!ListTrips(d, route)
           shapes(t) == IF Public!ShapesOf(d, t.id) = {} THEN {None} ELSE Public!ShapesOf(d, t.id)
           ofRoute == {t \in d.trips : t.route = route}
<1>1. \A x \in trips : \E t \in d.trips : t.route = route /\ \E shape \in shapes(t) :
        x = [pk |-> t.pk, shape |-> shape, vehicle |-> Public!VehicleOf(d, t.pk)]
  BY TripRows
<1>2. \A t \in d.trips : t.route = route => \A shape \in shapes(t) :
        [pk |-> t.pk, shape |-> shape, vehicle |-> Public!VehicleOf(d, t.pk)] \in trips
  BY TripRows
<1>3. \A t \in d.trips : shapes(t) # {}
  OBVIOUS
<1> HIDE DEF trips
<1>4. Public!Keys(trips) = Public!Keys(ofRoute)
  <2> HIDE DEF shapes
  <2>1. \A x \in trips : x.pk \in Public!Keys(ofRoute)
    BY <1>1 DEF Public!Keys
  <2>2. ASSUME NEW t \in ofRoute PROVE t.pk \in Public!Keys(trips)
    <3>1. PICK shape \in shapes(t) : TRUE
      BY <1>3
    <3>2. PICK x \in trips : x = [pk |-> t.pk, shape |-> shape, vehicle |-> Public!VehicleOf(d, t.pk)]
      BY <1>2, <3>1
    <3>3. x.pk = t.pk
      BY <3>2
    <3>4. QED
      BY <3>3 DEF Public!Keys
  <2>3. QED
    BY <2>1, <2>2 DEF Public!Keys
<1>5. ASSUME NEW x \in trips, NEW y \in trips, x.pk = y.pk, x # y
      PROVE  \E a, b \in d.scheduled :
               /\ a.id = b.id /\ None # a.shape /\ a.shape # b.shape /\ b.shape # None
               /\ \E t \in d.trips : t.pk = x.pk /\ t.id = a.id
  <2>1. PICK t \in d.trips : \E p \in shapes(t) :
          x = [pk |-> t.pk, shape |-> p, vehicle |-> Public!VehicleOf(d, t.pk)]
    BY <1>1
  <2>2. PICK u \in d.trips : \E q \in shapes(u) :
          y = [pk |-> u.pk, shape |-> q, vehicle |-> Public!VehicleOf(d, u.pk)]
    BY <1>1
  <2>3. u.pk = t.pk
    BY <1>5, <2>1, <2>2
  <2>4. u = t
    BY <2>3 DEF Public!WellFormed
  <2> DEFINE p == x.shape
             q == y.shape
  <2>5. p \in shapes(t) /\ q \in shapes(t) /\ p # q
    <3>1. PICK sx \in shapes(t) :
            x = [pk |-> t.pk, shape |-> sx, vehicle |-> Public!VehicleOf(d, t.pk)]
      BY <2>1
    <3>2. PICK sy \in shapes(t) :
            y = [pk |-> t.pk, shape |-> sy, vehicle |-> Public!VehicleOf(d, t.pk)]
      BY <2>2, <2>4
    <3> HIDE DEF shapes
    <3>3. QED
      BY <1>5, <3>1, <3>2
  <2>6. p \in Public!ShapesOf(d, t.id) /\ q \in Public!ShapesOf(d, t.id)
    BY <2>4, <2>5
  <2>7. PICK a \in d.scheduled : a.id = t.id /\ a.shape = p /\ p # None
    BY <2>6, ShapesAre
  <2>8. PICK b \in d.scheduled : b.id = t.id /\ b.shape = q /\ q # None
    BY <2>6, ShapesAre
  <2>9. t.pk = x.pk
    BY <2>1
  <2>10. QED
    BY <2>5, <2>7, <2>8, <2>9
<1>6. QED
  BY <1>4, <1>5 DEF trips

\* Endpoints that tell of the same thing at the same moment agree, for any tables
\* (the queries for active alerts, ListTrips and ListVehicles, and the endpoints
\* in route.go, trip.go, vehicle.go and alert.go).
THEOREM EndpointsDoAgree == Public!Spec => []EndpointsAgree
<1>1. TablesInv => EndpointsAgree
  <2> SUFFICES ASSUME TablesInv PROVE EndpointsAgree
    OBVIOUS
  <2>1. Public!WellFormed(tables) /\ now \in Nat
    BY DEF TablesInv
  <2>2. \A x \in tables.links :
          /\ PreviewOf(tables, now, x) \subseteq PeriodsOf(tables, now, x)
          /\ \A p \in PeriodsOf(tables, now, x) \ PreviewOf(tables, now, x) : now \in {p.starts, p.ends}
    BY <2>1, AlertsAgree
  <2>3. \A route \in Public!Keys(tables.routes) :
          {<<t.pk, t.vehicle>> : t \in {u \in Public!ListTrips(tables, route) : u.vehicle # None}}
            = {<<v.trip, v.pk>> : v \in {u \in Public!ListVehicles(tables) : u.route = route}}
    BY <2>1, VehiclesAgree, Zenon
  <2>4. \A route :
         /\ Public!Keys(Public!ListTrips(tables, route)) = Public!Keys({t \in tables.trips : t.route = route})
         /\ \A x, y \in Public!ListTrips(tables, route) :
              x.pk = y.pk /\ x # y =>
                \E a, b \in tables.scheduled :
                  /\ a.id = b.id /\ None # a.shape /\ a.shape # b.shape /\ b.shape # None
                  /\ \E t \in tables.trips : t.pk = x.pk /\ t.id = a.id
    BY <2>1, TripsAgree, Zenon
  <2>5. QED
    BY <2>2, <2>3, <2>4, Zenon DEF EndpointsAgree, Public!EndpointsAgree, PreviewOf, PeriodsOf
<1>2. QED
  BY <1>1, TablesHold, PTL
-----------------------------------------------------------------------------
(***************************************************************************)
(* The rows of the queries of a request.                                   *)
(***************************************************************************)

\* A query returns rows for the keys that it asks for, each independently.
LEMMA ResultIs ==
  ASSUME NEW kind \in Public!Kinds, NEW rows, NEW skip, NEW q \in Public!Plan(kind, rows, skip),
         NEW d, NEW t, NEW x
  PROVE  x \in Public!Result(q, d, t) <=>
           x[1] \in q.of /\ x \in Public!Result(Public!Ask(q.what, {x[1]}), d, t)
<1> DEFINE one == Public!Ask(q.what, {x[1]})
<1>1. one.what = q.what /\ one.of = {x[1]}
  BY DEF Public!Ask
<1> HIDE DEF one
<1>2. CASE q.what = "maps"
  <2>1. \A pks : x \in Public!ServiceMaps(d, pks) <=>
          \E pk \in pks \cap Public!Keys(d.routes), c \in d.configs : x = <<pk, <<c, Public!StopsOf(d, pk, c)>>>>
    <3> SUFFICES ASSUME NEW pks
                 PROVE  x \in Public!ServiceMaps(d, pks) <=>
                          \E pk \in pks \cap Public!Keys(d.routes), c \in d.configs :
                            x = <<pk, <<c, Public!StopsOf(d, pk, c)>>>>
      OBVIOUS
    <3> DEFINE pairs == (pks \cap Public!Keys(d.routes)) \X d.configs
               row(y) == <<y[1], <<y[2], Public!StopsOf(d, y[1], y[2])>>>>
    <3>1. Public!ServiceMaps(d, pks) = {row(y) : y \in pairs}
      BY DEF Public!ServiceMaps
    <3>2. \A y \in pairs : y[1] \in pks \cap Public!Keys(d.routes) /\ y[2] \in d.configs
      OBVIOUS
    <3>3. ASSUME NEW pk \in pks \cap Public!Keys(d.routes), NEW c \in d.configs
          PROVE  <<pk, c>> \in pairs /\ row(<<pk, c>>) = <<pk, <<c, Public!StopsOf(d, pk, c)>>>>
      OBVIOUS
    <3>4. x \in Public!ServiceMaps(d, pks) <=> \E y \in pairs : x = row(y)
      <4> HIDE DEF pairs, row
      <4>1. QED
        BY <3>1
    <3> HIDE DEF pairs
    <3>5. QED
      BY <3>2, <3>3, <3>4
  <2>2. Public!Result(q, d, t) = Public!ServiceMaps(d, q.of)
        /\ Public!Result(one, d, t) = Public!ServiceMaps(d, {x[1]})
    BY <1>1, <1>2 DEF Public!Result
  <2>3. \A pk, c : x = <<pk, <<c, Public!StopsOf(d, pk, c)>>>> => x[1] = pk
    OBVIOUS
  <2>4. QED
    BY <2>1, <2>2, <2>3 DEF one
<1>3. CASE q.what = "headways"
  <2>1. \A pks : x \in Public!Headways(d, t, pks) <=>
          \E pk \in pks : Public!Busy(Public!Ahead(d, t, pk)) # {}
                         /\ x = <<pk, Public!Headway(Public!Ahead(d, t, pk))>>
    BY DEF Public!Headways
  <2>2. Public!Result(q, d, t) = Public!Headways(d, t, q.of)
        /\ Public!Result(one, d, t) = Public!Headways(d, t, {x[1]})
    BY <1>1, <1>3 DEF Public!Result
  <2> DEFINE has(pk) == Public!Busy(Public!Ahead(d, t, pk)) # {}
                        /\ x = <<pk, Public!Headway(Public!Ahead(d, t, pk))>>
  <2>3. \A pk : has(pk) => x[1] = pk
    OBVIOUS
  <2>4. \A pks : x \in Public!Headways(d, t, pks) <=> \E pk \in pks : has(pk)
    BY <2>1
  <2> HIDE DEF has
  <2>5. \A pks : x \in Public!Headways(d, t, pks) <=> x[1] \in pks /\ has(x[1])
    BY <2>3, <2>4
  <2>6. x \in Public!Result(q, d, t) <=> x[1] \in q.of /\ has(x[1])
    BY <2>2, <2>5
  <2>7. x \in Public!Result(one, d, t) <=> has(x[1])
    BY <2>2, <2>5
  <2>8. QED
    BY <2>6, <2>7, Zenon DEF one
<1>4. CASE q.what = "alerts"
  <2>1. \A pks : x \in Public!ActiveAlerts(d, t, pks) <=>
          \E y \in d.links : y[2] \in pks /\ \E p \in d.periods :
            p.alert = y[1] /\ Public!Active(p, t) /\ x = <<y[2], <<y[1], p>>>>
    BY DEF Public!ActiveAlerts
  <2> DEFINE has(pk) == \E y \in d.links : y[2] = pk /\ \E p \in d.periods :
                          p.alert = y[1] /\ Public!Active(p, t) /\ x = <<y[2], <<y[1], p>>>>
  <2>2. \A pks : x \in Public!ActiveAlerts(d, t, pks) <=> x[1] \in pks /\ has(x[1])
    BY <2>1
  <2> HIDE DEF has
  <2>3. x \in Public!Result(q, d, t) <=> x[1] \in q.of /\ has(x[1])
    BY <1>4, <2>2 DEF Public!Result
  <2>4. x \in Public!Result(one, d, t) <=> has(x[1])
    BY <1>1, <1>4, <2>2 DEF Public!Result
  <2>5. QED
    BY <2>3, <2>4, Zenon DEF one
<1>5. CASE q.what = "agencyAlerts"
  <2>1. \A pks, z : z \in Public!ActiveAlerts(d, t, pks) <=>
          \E y \in d.links : y[2] \in pks /\ \E p \in d.periods :
            p.alert = y[1] /\ Public!Active(p, t) /\ z = <<y[2], <<y[1], p>>>>
    BY DEF Public!ActiveAlerts
  <2>2. \A pks : x \in Public!ActiveAlertsForAgencies(d, t, pks) <=>
          \E y \in d.links : y[2] \in pks /\ \E p \in d.periods :
            p.alert = y[1] /\ Public!Active(p, t) /\ x = <<y[2], <<y[1]>>>>
    <3> SUFFICES ASSUME NEW pks
                 PROVE  x \in Public!ActiveAlertsForAgencies(d, t, pks) <=>
                          \E y \in d.links : y[2] \in pks /\ \E p \in d.periods :
                            p.alert = y[1] /\ Public!Active(p, t) /\ x = <<y[2], <<y[1]>>>>
      OBVIOUS
    <3>1. x \in Public!ActiveAlertsForAgencies(d, t, pks) <=>
            \E z \in Public!ActiveAlerts(d, t, pks) : x = <<z[1], <<z[2][1]>>>>
      BY DEF Public!ActiveAlertsForAgencies
    <3>2. ASSUME NEW z \in Public!ActiveAlerts(d, t, pks), x = <<z[1], <<z[2][1]>>>>
          PROVE  \E y \in d.links : y[2] \in pks /\ \E p \in d.periods :
                   p.alert = y[1] /\ Public!Active(p, t) /\ x = <<y[2], <<y[1]>>>>
      <4>1. PICK y \in d.links : y[2] \in pks /\ \E p \in d.periods :
              p.alert = y[1] /\ Public!Active(p, t) /\ z = <<y[2], <<y[1], p>>>>
        BY <2>1
      <4>2. PICK p \in d.periods : p.alert = y[1] /\ Public!Active(p, t) /\ z = <<y[2], <<y[1], p>>>>
        BY <4>1
      <4>3. z[1] = y[2] /\ z[2][1] = y[1]
        BY <4>2
      <4>4. QED
        BY <3>2, <4>1, <4>2, <4>3
    <3>3. ASSUME NEW y \in d.links, y[2] \in pks, NEW p \in d.periods, p.alert = y[1],
                 Public!Active(p, t), x = <<y[2], <<y[1]>>>>
          PROVE  \E z \in Public!ActiveAlerts(d, t, pks) : x = <<z[1], <<z[2][1]>>>>
      <4> DEFINE z == <<y[2], <<y[1], p>>>>
      <4>1. z[1] = y[2] /\ z[2][1] = y[1]
        OBVIOUS
      <4>2. z \in Public!ActiveAlerts(d, t, pks)
        BY <2>1, <3>3
      <4> HIDE DEF z
      <4>3. QED
        BY <3>3, <4>1, <4>2
    <3>4. QED
      BY <3>1, <3>2, <3>3
  <2>3. QED
    BY <1>1, <1>5, <2>2 DEF Public!Result, one
<1>6. CASE q.what = "agencies"
  BY <1>1, <1>6 DEF Public!Result, Public!AgenciesByPk, one
<1>7. CASE q.what = "stops"
  BY <1>1, <1>7 DEF Public!Result, Public!StopsByPk, one
<1>8. CASE q.what = "times"
  BY <1>1, <1>8 DEF Public!Result, Public!StopTimes, one
<1>9. CASE q.what = "routes"
  BY <1>1, <1>9 DEF Public!Result, Public!RoutesInAgency, one
<1>10. CASE q.what = "periods"
  BY <1>1, <1>10 DEF Public!Result, Public!ActivePeriods, one
<1>11. CASE q.what \notin {"maps", "headways", "alerts", "agencyAlerts", "agencies", "stops",
                           "times", "routes", "periods"}
  BY <1>1, <1>11 DEF Public!Result, one
<1>12. QED
  BY <1>2, <1>3, <1>4, <1>5, <1>6, <1>7, <1>8, <1>9, <1>10, <1>11

\* No two queries of a request ask for the same of the same.
LEMMA PlanIsDistinct ==
  ASSUME NEW kind \in Public!Kinds, NEW rows, NEW skip,
         NEW p \in Public!Plan(kind, rows, skip), NEW q \in Public!Plan(kind, rows, skip),
         p.what = q.what, NEW pk, pk \in p.of, pk \in q.of
  PROVE  p = q
<1>1. \A what, pks : Public!Ask(what, pks).what = what /\ Public!Ask(what, pks).of = pks
  BY DEF Public!Ask
<1>2. \A whats, pks : \A r \in Public!AskEach(whats, pks) :
        r.what \in whats /\ \E x \in pks : r.of = {x} /\ r = Public!Ask(r.what, {x})
  <2> SUFFICES ASSUME NEW whats, NEW pks, NEW r \in Public!AskEach(whats, pks)
               PROVE  r.what \in whats /\ \E x \in pks : r.of = {x} /\ r = Public!Ask(r.what, {x})
    OBVIOUS
  <2>1. PICK what \in whats, x \in pks : r = Public!Ask(what, {x})
    BY DEF Public!AskEach
  <2>2. r.what = what /\ r.of = {x}
    BY <1>1, <2>1
  <2>3. QED
    BY <2>1, <2>2
<1>3. ASSUME NEW whats, NEW pks, p \in Public!AskEach(whats, pks), q \in Public!AskEach(whats, pks)
      PROVE  p = q
  <2> DEFINE isOne(r) == r.what \in whats /\ \E x \in pks : r.of = {x} /\ r = Public!Ask(r.what, {x})
  <2>0. isOne(p) /\ isOne(q)
    <3>1. \A r \in Public!AskEach(whats, pks) : isOne(r)
      BY <1>2
    <3> HIDE DEF isOne
    <3>2. QED
      BY <1>3, <3>1
  <2>1. PICK x \in pks : p.of = {x} /\ p = Public!Ask(p.what, {x})
    BY <2>0
  <2>2. PICK y \in pks : q.of = {y} /\ q = Public!Ask(q.what, {y})
    BY <2>0
  <2>3. x = y
    BY <2>1, <2>2
  <2>4. QED
    BY <2>1, <2>2, <2>3
<1>4. CASE kind = "routes"
  <2>1. \A r \in Public!Plan(kind, rows, skip) :
          \/ r.what \in {"maps", "headways", "alerts"} /\ r = Public!Ask(r.what, Public!Keys(rows))
          \/ r.what = "agencies" /\ r = Public!Ask("agencies", {x.agency : x \in rows})
    BY <1>1, <1>4 DEF Public!Plan, Public!PlanRoutes
  <2>2. QED
    BY <2>1
<1>5. CASE kind = "trips"
  <2>1. \A r \in Public!Plan(kind, rows, skip) :
          \/ r = Public!Ask("alerts", Public!Keys(rows)) /\ r.what = "alerts"
          \/ r \in Public!AskEach({"times"}, Public!Keys(rows))
    BY <1>1, <1>5 DEF Public!Plan, Public!PlanTrips
  <2>2. QED
    BY <1>2, <1>3, <2>1
<1>6. CASE kind = "agencies"
  <2>1. Public!Plan(kind, rows, skip) = Public!AskEach({"routes", "agencyAlerts"}, Public!Keys(rows))
    BY <1>6 DEF Public!Plan, Public!PlanAgencies
  <2>2. QED
    BY <1>2, <1>3, <2>1
<1>7. CASE kind = "alerts"
  BY <1>7 DEF Public!Plan, Public!PlanAlerts
<1>8. CASE kind = "transfers"
  BY <1>8 DEF Public!Plan, Public!PlanTransfers
<1>9. CASE kind = "vehicles"
  BY <1>9 DEF Public!Plan
<1>10. CASE kind = "systems"
  <2>1. Public!Plan(kind, rows, skip)
          = Public!AskEach({"numAgencies", "numFeeds", "numRoutes", "numStops", "numTransfers"}, Public!Keys(rows))
    BY <1>10 DEF Public!Plan, Public!PlanSystems
  <2>2. QED
    BY <1>2, <1>3, <2>1
<1>11. QED
  BY <1>4, <1>5, <1>6, <1>7, <1>8, <1>9, <1>10 DEF Public!Kinds

\* The rows that a query has for a key.
ValuesOf(what, pk, d, t) ==
  {x[2] : x \in {y \in Public!Result(Public!Ask(what, {pk}), d, t) : y[1] = pk}}

PlanOf(r) == Public!Plan(r.kind, r.rows, r.skip)

IsPublicRequest(r) ==
  /\ r \in [kind : Public!Kinds, rows : {r.rows}, skip : {r.skip}, todo : SUBSET PlanOf(r), got : {r.got}]

\* Every row belongs to a query made, and what a query has of something is what
\* the tables had at a moment since the request began.
PartsWereTrue(r) ==
  /\ \A x \in r.got : \E q \in PlanOf(r) \ r.todo : x[1] = q.what /\ x[2] \in q.of
  /\ \A q \in PlanOf(r) \ r.todo : \A pk \in q.of :
       \E m \in during : Public!Part(r, q.what, pk) = ValuesOf(q.what, pk, m[1], m[2])

PartsInv ==
  asked # None => IsPublicRequest(asked) /\ <<tables, now>> \in during /\ PartsWereTrue(asked)

LEMMA QueryParts ==
  ASSUME PartsInv, Public!Query
  PROVE  PartsInv'
<1>1. PICK q \in asked.todo :
        asked' = [asked EXCEPT !.todo = @ \ {q},
                    !.got = @ \cup {<<q.what, x[1], x[2]>> : x \in Public!Result(q, tables, now)}]
  BY DEF Public!Query
<1> DEFINE rows == Public!Result(q, tables, now)
           new == {<<q.what, x[1], x[2]>> : x \in rows}
           plan == PlanOf(asked)
<1>2. /\ IsPublicRequest(asked) /\ PartsWereTrue(asked) /\ <<tables, now>> \in during
      /\ tables' = tables /\ now' = now /\ during' = during
  BY DEF PartsInv, Public!Query
<1>3. /\ asked'.todo = asked.todo \ {q} /\ asked'.got = asked.got \cup new
      /\ asked'.kind = asked.kind /\ asked'.rows = asked.rows /\ asked'.skip = asked.skip
  <2> HIDE DEF new
  <2>1. asked' = [asked EXCEPT !.todo = @ \ {q}, !.got = @ \cup new]
    BY <1>1 DEF new
  <2>2. QED
    BY <1>2, <2>1 DEF IsPublicRequest
<1>4. PlanOf(asked') = plan /\ plan = Public!Plan(asked.kind, asked.rows, asked.skip)
      /\ asked.kind \in Public!Kinds /\ asked.todo \subseteq plan /\ q \in plan
  BY <1>2, <1>3 DEF PlanOf, IsPublicRequest
<1> HIDE DEF plan
<1>5. \A x \in rows : x[1] \in q.of
  BY <1>4, ResultIs
<1>6. \A x : x[1] \in q.of =>
        (x \in rows <=> x \in Public!Result(Public!Ask(q.what, {x[1]}), tables, now))
  BY <1>4, ResultIs
<1> HIDE DEF rows
<1>7. \A y \in new : y[1] = q.what /\ y[2] \in q.of
  BY <1>5
<1>8. \A x \in asked'.got : \E p \in plan \ asked'.todo : x[1] = p.what /\ x[2] \in p.of
  <2> HIDE DEF new
  <2>1. \A x \in asked.got : \E p \in plan \ asked.todo : x[1] = p.what /\ x[2] \in p.of
    BY <1>2, <1>4 DEF PartsWereTrue, plan
  <2>2. QED
    BY <1>3, <1>4, <1>7, <2>1
<1>9. ASSUME NEW pk \in q.of
      PROVE  Public!Part(asked', q.what, pk) = ValuesOf(q.what, pk, tables, now)
  <2>1. \A y \in asked.got : ~(y[1] = q.what /\ y[2] = pk)
    <3> SUFFICES ASSUME NEW y \in asked.got, y[1] = q.what, y[2] = pk PROVE FALSE
      OBVIOUS
    <3>1. PICK p \in plan \ asked.todo : y[1] = p.what /\ y[2] \in p.of
      BY <1>2 DEF PartsWereTrue, plan
    <3>2. p \in Public!Plan(asked.kind, asked.rows, asked.skip)
          /\ q \in Public!Plan(asked.kind, asked.rows, asked.skip) /\ p.what = q.what /\ pk \in p.of
      BY <1>4, <3>1
    <3>3. p = q
      BY <1>4, <3>2, PlanIsDistinct
    <3>4. QED
      BY <3>1, <3>3
  <2>2. {y \in asked'.got : y[1] = q.what /\ y[2] = pk} = {y \in new : y[2] = pk}
    <3> HIDE DEF new
    <3>1. QED
      BY <1>3, <1>7, <2>1
  <2>3. Public!Part(asked', q.what, pk) = {y[3] : y \in {z \in new : z[2] = pk}}
    BY <2>2 DEF Public!Part
  <2>4. {y[3] : y \in {z \in new : z[2] = pk}} = {x[2] : x \in {y \in rows : y[1] = pk}}
    <3>1. \A x \in rows : x[1] = pk => <<q.what, x[1], x[2]>> \in {z \in new : z[2] = pk}
      OBVIOUS
    <3>2. \A z \in new : \E x \in rows : z[2] = x[1] /\ z[3] = x[2]
      OBVIOUS
    <3>3. \A x \in rows : <<q.what, x[1], x[2]>>[3] = x[2]
      OBVIOUS
    <3> HIDE DEF new
    <3>4. {y[3] : y \in {z \in new : z[2] = pk}} \subseteq {x[2] : x \in {y \in rows : y[1] = pk}}
      BY <3>2
    <3>5. ASSUME NEW x \in rows, x[1] = pk PROVE x[2] \in {y[3] : y \in {z \in new : z[2] = pk}}
      BY <3>1, <3>3, <3>5
    <3>6. QED
      BY <3>4, <3>5
  <2>5. {y \in rows : y[1] = pk}
          = {y \in Public!Result(Public!Ask(q.what, {pk}), tables, now) : y[1] = pk}
    BY <1>6
  <2>6. QED
    BY <2>3, <2>4, <2>5 DEF ValuesOf
<1>10. ASSUME NEW p \in plan \ asked.todo, NEW pk \in p.of
       PROVE  Public!Part(asked', p.what, pk) = Public!Part(asked, p.what, pk)
  <2>1. \A y \in new : ~(y[1] = p.what /\ y[2] = pk)
    <3> HIDE DEF new
    <3> SUFFICES ASSUME NEW y \in new, y[1] = p.what, y[2] = pk PROVE FALSE
      OBVIOUS
    <3>1. p.what = q.what /\ pk \in q.of
      BY <1>7
    <3>2. p \in Public!Plan(asked.kind, asked.rows, asked.skip)
          /\ q \in Public!Plan(asked.kind, asked.rows, asked.skip) /\ pk \in p.of
      BY <1>4
    <3>3. p = q
      BY <1>4, <3>1, <3>2, PlanIsDistinct
    <3>4. QED
      BY <3>3
  <2> HIDE DEF new
  <2>2. {y \in asked'.got : y[1] = p.what /\ y[2] = pk} = {y \in asked.got : y[1] = p.what /\ y[2] = pk}
    BY <1>3, <2>1
  <2>3. QED
    BY <2>2 DEF Public!Part
<1>11. ASSUME NEW p \in plan \ asked'.todo, NEW pk \in p.of
       PROVE  \E m \in during : Public!Part(asked', p.what, pk) = ValuesOf(p.what, pk, m[1], m[2])
  <2>1. CASE p = q
    <3>1. <<tables, now>>[1] = tables /\ <<tables, now>>[2] = now
      OBVIOUS
    <3>2. QED
      BY <1>2, <1>9, <2>1, <3>1
  <2>2. CASE p # q
    <3>1. p \in plan \ asked.todo
      BY <1>3, <2>2
    <3>2. \E m \in during : Public!Part(asked, p.what, pk) = ValuesOf(p.what, pk, m[1], m[2])
      BY <1>2, <3>1 DEF PartsWereTrue, plan
    <3>3. QED
      BY <1>10, <3>1, <3>2
  <2>3. QED
    BY <2>1, <2>2
<1>12. IsPublicRequest(asked')
  <2> HIDE DEF new
  <2>1. asked' = [asked EXCEPT !.todo = @ \ {q}, !.got = @ \cup new]
    BY <1>1 DEF new, rows
  <2>2. asked' \in [kind : Public!Kinds, rows : {asked.rows}, skip : {asked.skip}, todo : SUBSET plan,
                    got : {asked.got \cup new}]
    BY <1>2, <1>4, <2>1 DEF IsPublicRequest
  <2>3. QED
    BY <1>3, <1>4, <2>2 DEF IsPublicRequest
<1>13. QED
  BY <1>2, <1>4, <1>8, <1>11, <1>12 DEF PartsInv, PartsWereTrue

\* A new request has made none of its queries.
LEMMA RequestParts ==
  ASSUME NEW kind \in Public!Kinds, NEW skip \in LeftOut, Public!Request(kind, skip)
  PROVE  PartsInv'
<1>1. PICK rows : asked' = [kind |-> kind, rows |-> rows, skip |-> skip,
                            todo |-> Public!Plan(kind, rows, skip), got |-> {}]
  BY DEF Public!Request
<1>2. during' = {<<tables, now>>} /\ tables' = tables /\ now' = now
  BY DEF Public!Request
<1>3. PlanOf(asked') = Public!Plan(kind, rows, skip) /\ asked'.todo = PlanOf(asked') /\ asked'.got = {}
  BY <1>1 DEF PlanOf
<1>4. IsPublicRequest(asked')
  BY <1>1, <1>3 DEF IsPublicRequest
<1>5. PartsWereTrue(asked)'
  BY <1>3 DEF PartsWereTrue, PlanOf
<1>6. QED
  BY <1>2, <1>4, <1>5 DEF PartsInv

\* What was true at a moment stays so.
LEMMA TimeParts ==
  ASSUME PartsInv, asked' = asked, asked # None => during' = during \cup {<<tables', now'>>}
  PROVE  PartsInv'
<1> SUFFICES ASSUME asked # None PROVE IsPublicRequest(asked) /\ <<tables', now'>> \in during' /\ PartsWereTrue(asked)'
  BY DEF PartsInv, IsPublicRequest, PlanOf
<1>1. during \subseteq during' /\ <<tables', now'>> \in during'
  OBVIOUS
<1>2. IsPublicRequest(asked) /\ PartsWereTrue(asked)
  BY DEF PartsInv
<1>3. PartsWereTrue(asked)'
  <2>1. PlanOf(asked)' = PlanOf(asked) /\ \A what, pk : Public!Part(asked, what, pk)' = Public!Part(asked, what, pk)
    BY DEF PlanOf, Public!Part
  <2>2. \A x \in asked.got : \E q \in PlanOf(asked) \ asked.todo : x[1] = q.what /\ x[2] \in q.of
    BY <1>2 DEF PartsWereTrue
  <2>3. \A q \in PlanOf(asked) \ asked.todo : \A pk \in q.of :
          \E m \in during : Public!Part(asked, q.what, pk) = ValuesOf(q.what, pk, m[1], m[2])
    BY <1>2 DEF PartsWereTrue
  <2>4. QED
    BY <1>1, <2>1, <2>2, <2>3 DEF PartsWereTrue
<1>4. QED
  BY <1>1, <1>2, <1>3

LEMMA PartsStep ==
  ASSUME PartsInv, [Public!Next]_Public!vars
  PROVE  PartsInv'
<1>1. ASSUME NEW kind \in Public!Kinds, NEW skip \in LeftOut, Public!Request(kind, skip) PROVE PartsInv'
  BY <1>1, RequestParts
<1>2. CASE Public!Query
  BY <1>2, QueryParts
<1>3. CASE Public!Finish
  BY <1>3 DEF Public!Finish, PartsInv
<1>4. ASSUME NEW d \in AllTables, Public!Commit(d) PROVE PartsInv'
  <2>1. asked' = asked /\ (asked # None => during' = during \cup {<<tables', now'>>})
    BY <1>4 DEF Public!Commit, Public!Since
  <2>2. QED
    BY <2>1, TimeParts
<1>5. CASE Public!Tick
  <2>1. asked' = asked /\ (asked # None => during' = during \cup {<<tables', now'>>})
    BY <1>5 DEF Public!Tick, Public!Since
  <2>2. QED
    BY <2>1, TimeParts
<1>6. CASE UNCHANGED Public!vars
  <2>1. asked' = asked /\ (asked # None => during' = during \cup {<<tables', now'>>})
    BY <1>6 DEF Public!vars, PartsInv
  <2>2. QED
    BY <2>1, TimeParts
<1>7. QED
  BY <1>1, <1>2, <1>3, <1>4, <1>5, <1>6 DEF Public!Next

LEMMA PartsHold == Public!Spec => []PartsInv
<1>1. Public!Init => PartsInv
  BY DEF Public!Init, PartsInv
<1>2. QED
  BY <1>1, PartsStep, PTL DEF Public!Spec
-----------------------------------------------------------------------------
(***************************************************************************)
(* What the rows tell is true.                                             *)
(***************************************************************************)

\* A configuration has the stops of the map of the route, if there is one.
LEMMA StopsOfIs ==
  ASSUME NEW d, Public!WellFormed(d), NEW route, NEW config
  PROVE  /\ \A m \in d.maps : m.route = route /\ m.config = config
                                => Public!StopsOf(d, route, config) = m.stops
         /\ Public!StopsOf(d, route, config) # <<>> =>
              \E m \in d.maps : /\ m.route = route /\ m.config = config
                                /\ m.stops = Public!StopsOf(d, route, config)
<1> DEFINE P(m) == m.route = route /\ m.config = config
<1>1. \A x, y \in d.maps : P(x) /\ P(y) => x = y
  BY DEF Public!WellFormed
<1>2. Public!StopsOf(d, route, config)
        = IF \E m \in d.maps : P(m) THEN (CHOOSE m \in d.maps : P(m)).stops ELSE <<>>
  BY DEF Public!StopsOf
<1>3. (\E m \in d.maps : P(m)) => (CHOOSE m \in d.maps : P(m)) \in d.maps /\ P(CHOOSE m \in d.maps : P(m))
  <2> HIDE DEF P
  <2>1. QED
    OBVIOUS
<1>4. ASSUME NEW m \in d.maps, P(m) PROVE Public!StopsOf(d, route, config) = m.stops
  <2> HIDE DEF P
  <2>1. QED
    BY <1>1, <1>2, <1>3, <1>4
<1>5. ASSUME Public!StopsOf(d, route, config) # <<>>
      PROVE  \E m \in d.maps : P(m) /\ m.stops = Public!StopsOf(d, route, config)
  <2> HIDE DEF P
  <2>1. QED
    BY <1>2, <1>3, <1>5
<1>6. QED
  BY <1>4, <1>5

LEMMA MapsAre ==
  ASSUME NEW d, Public!WellFormed(d), NEW t, NEW pk
  PROVE  Public!MapsTrue(ValuesOf("maps", pk, d, t), pk, d)
<1> DEFINE maps == ValuesOf("maps", pk, d, t)
           row(c) == <<c, Public!StopsOf(d, pk, c)>>
<1>1. Public!Result(Public!Ask("maps", {pk}), d, t) = Public!ServiceMaps(d, {pk})
  BY DEF Public!Result, Public!Ask
<1>2. maps = IF pk \in Public!Keys(d.routes) THEN {row(c) : c \in d.configs} ELSE {}
  <2> DEFINE pairs == ({pk} \cap Public!Keys(d.routes)) \X d.configs
             full(y) == <<y[1], <<y[2], Public!StopsOf(d, y[1], y[2])>>>>
  <2>1. Public!ServiceMaps(d, {pk}) = {full(y) : y \in pairs}
    BY DEF Public!ServiceMaps
  <2>2. \A y \in pairs : y[1] = pk /\ pk \in Public!Keys(d.routes) /\ y[2] \in d.configs
    OBVIOUS
  <2>3. \A c \in d.configs : pk \in Public!Keys(d.routes) => <<pk, c>> \in pairs
    OBVIOUS
  <2>4. \A y \in pairs : full(y)[1] = pk /\ full(y)[2] = row(y[2])
    BY <2>2
  <2>5. \A c : <<pk, c>>[2] = c
    OBVIOUS
  <2>6. maps = {x[2] : x \in {y \in {full(y) : y \in pairs} : y[1] = pk}}
    BY <1>1, <2>1 DEF ValuesOf
  <2> HIDE DEF pairs, full, row, maps
  <2>7. ASSUME NEW v \in maps PROVE pk \in Public!Keys(d.routes) /\ \E c \in d.configs : v = row(c)
    BY <2>2, <2>4, <2>6
  <2>8. ASSUME NEW c \in d.configs, pk \in Public!Keys(d.routes) PROVE row(c) \in maps
    <3>1. full(<<pk, c>>) \in {y \in {full(y) : y \in pairs} : y[1] = pk}
      BY <2>3, <2>4, <2>8
    <3>2. full(<<pk, c>>)[2] = row(c)
      BY <2>3, <2>4, <2>5, <2>8
    <3>3. QED
      BY <2>6, <3>1, <3>2
  <2>9. QED
    BY <2>7, <2>8
<1>3. CASE pk \notin Public!Keys(d.routes)
  BY <1>2, <1>3 DEF Public!MapsTrue
<1>4. CASE pk \in Public!Keys(d.routes)
  <2>1. \A c : row(c)[1] = c /\ row(c)[2] = Public!StopsOf(d, pk, c)
    OBVIOUS
  <2> HIDE DEF maps
  <2>2. {x[1] : x \in maps} = d.configs
    <3> HIDE DEF row
    <3>1. QED
      BY <1>2, <1>4, <2>1
  <2> DEFINE ofRoute == {n \in d.maps : n.route = pk /\ n.stops # <<>>}
  <2>3. ASSUME NEW x \in maps, x[2] # <<>> PROVE \E m \in ofRoute : x = <<m.config, m.stops>>
    <3>1. PICK c \in d.configs : x = row(c)
      BY <1>2, <1>4
    <3>2. PICK m \in d.maps : m.route = pk /\ m.config = c /\ m.stops = Public!StopsOf(d, pk, c)
      BY <2>1, <2>3, <3>1, StopsOfIs
    <3>3. QED
      BY <2>1, <2>3, <3>1, <3>2
  <2>4. ASSUME NEW m \in ofRoute PROVE <<m.config, m.stops>> \in {x \in maps : x[2] # <<>>}
    <3>1. m.config \in d.configs
      BY DEF Public!WellFormed
    <3>2. <<m.config, m.stops>> = row(m.config)
      BY StopsOfIs
    <3>3. row(m.config) \in maps
      BY <1>2, <1>4, <3>1
    <3>4. QED
      BY <2>1, <3>2, <3>3
  <2>5. {x \in maps : x[2] # <<>>} = {<<m.config, m.stops>> : m \in ofRoute}
    <3> HIDE DEF ofRoute, row
    <3>1. {x \in maps : x[2] # <<>>} \subseteq {<<m.config, m.stops>> : m \in ofRoute}
      BY <2>3
    <3>2. {<<m.config, m.stops>> : m \in ofRoute} \subseteq {x \in maps : x[2] # <<>>}
      BY <2>4
    <3>3. QED
      BY <3>1, <3>2
  <2>6. QED
    BY <1>4, <2>2, <2>5, Zenon DEF Public!MapsTrue, maps
<1>5. QED
  BY <1>3, <1>4

\* Routes and trips have an alert with each active period; agencies have it once.
LEMMA AlertsAre ==
  ASSUME NEW d, Public!WellFormed(d), NEW t, NEW pk
  PROVE  /\ Public!AlertsTrue(ValuesOf("alerts", pk, d, t), pk, d, t)
         /\ Public!AlertsTrue(ValuesOf("agencyAlerts", pk, d, t), pk, d, t)
<1> DEFINE rows == Public!ActiveAlerts(d, t, {pk})
           active(a) == \E p \in d.periods : p.alert = a /\ Public!Active(p, t)
           true == {a \in d.alerts : <<a, pk>> \in d.links /\ active(a)}
           alerts == ValuesOf("alerts", pk, d, t)
           agencyAlerts == ValuesOf("agencyAlerts", pk, d, t)
<1>1. \A z : z \in rows <=>
        \E y \in d.links : y[2] = pk /\ \E p \in d.periods :
          p.alert = y[1] /\ Public!Active(p, t) /\ z = <<y[2], <<y[1], p>>>>
  BY DEF Public!ActiveAlerts
<1>2. ASSUME NEW z \in rows PROVE z[1] = pk /\ z[2][1] \in true
  <2>1. PICK y \in d.links : y[2] = pk /\ \E p \in d.periods :
          p.alert = y[1] /\ Public!Active(p, t) /\ z = <<y[2], <<y[1], p>>>>
    BY <1>1
  <2>2. PICK p \in d.periods : p.alert = y[1] /\ Public!Active(p, t) /\ z = <<y[2], <<y[1], p>>>>
    BY <2>1
  <2>3. z[1] = y[2] /\ z[2][1] = y[1]
    BY <2>2
  <2>4. y \in d.alerts \X Public!Pks(d)
    BY DEF Public!WellFormed
  <2>5. y = <<y[1], pk>> /\ y[1] \in d.alerts
    BY <2>1, <2>4
  <2>6. active(y[1])
    BY <2>2
  <2> HIDE DEF active
  <2>7. QED
    BY <2>1, <2>3, <2>5, <2>6
<1>3. ASSUME NEW a \in true PROVE \E z \in rows : z[1] = pk /\ z[2][1] = a
  <2>1. PICK p \in d.periods : p.alert = a /\ Public!Active(p, t)
    OBVIOUS
  <2> DEFINE y == <<a, pk>>
             z == <<y[2], <<y[1], p>>>>
  <2>2. y \in d.links /\ y[1] = a /\ y[2] = pk
    OBVIOUS
  <2> HIDE DEF y
  <2>3. z \in rows
    BY <1>1, <2>1, <2>2
  <2>4. z[1] = pk /\ z[2][1] = a
    BY <2>2
  <2> HIDE DEF z
  <2>5. QED
    BY <2>3, <2>4
<1> HIDE DEF true, active, rows
<1>4. {x[1] : x \in alerts} = true
  <2>1. Public!Result(Public!Ask("alerts", {pk}), d, t) = rows
    BY DEF Public!Result, Public!Ask, rows
  <2>2. alerts = {x[2] : x \in {y \in rows : y[1] = pk}}
    BY <2>1 DEF ValuesOf
  <2> HIDE DEF alerts
  <2>3. \A v \in alerts : \E z \in rows : v = z[2]
    BY <2>2
  <2>4. \A z \in rows : z[2] \in alerts
    BY <1>2, <2>2
  <2>5. \A v \in alerts : v[1] \in true
    BY <1>2, <2>3
  <2>6. \A a \in true : \E v \in alerts : v[1] = a
    BY <1>3, <2>4
  <2>7. QED
    BY <2>5, <2>6
<1>5. {x[1] : x \in agencyAlerts} = true
  <2> DEFINE row(x) == <<x[1], <<x[2][1]>>>>
             once == {row(x) : x \in rows}
  <2>1. Public!Result(Public!Ask("agencyAlerts", {pk}), d, t) = once
    BY DEF Public!Result, Public!Ask, Public!ActiveAlertsForAgencies, rows
  <2>2. \A x : row(x)[1] = x[1] /\ row(x)[2][1] = x[2][1]
    OBVIOUS
  <2> HIDE DEF row
  <2>3. agencyAlerts = {x[2] : x \in {y \in once : y[1] = pk}}
    BY <2>1 DEF ValuesOf
  <2> HIDE DEF agencyAlerts
  <2>4. \A v \in agencyAlerts : \E z \in rows : v = row(z)[2]
    BY <2>3
  <2>5. \A z \in rows : row(z)[2] \in agencyAlerts
    <3>1. \A z \in rows : row(z) \in {y \in once : y[1] = pk}
      BY <1>2, <2>2
    <3> HIDE DEF once
    <3>2. QED
      BY <2>3, <3>1
  <2>6. \A v \in agencyAlerts : v[1] \in true
    BY <1>2, <2>2, <2>4
  <2>7. \A a \in true : \E v \in agencyAlerts : v[1] = a
    BY <1>3, <2>2, <2>5
  <2>8. QED
    BY <2>6, <2>7
<1>6. QED
  BY <1>4, <1>5, Zenon DEF Public!AlertsTrue, true, active, alerts, agencyAlerts

\* An agency or a stop that the query does not find is not there.
LEMMA FoundAre ==
  ASSUME NEW d, NEW t, NEW pk
  PROVE  /\ ValuesOf("agencies", pk, d, t) = {} => pk \notin d.agencies
         /\ ValuesOf("stops", pk, d, t) = {} => pk \notin d.stops
<1>1. ASSUME NEW S, pk \in S, NEW R, R = {<<x, x>> : x \in {pk} \cap S} PROVE {x[2] : x \in {y \in R : y[1] = pk}} # {}
  <2>1. <<pk, pk>> \in R /\ <<pk, pk>>[1] = pk
    BY <1>1
  <2>2. <<pk, pk>> \in {y \in R : y[1] = pk}
    BY <2>1
  <2>3. QED
    BY <2>2
<1>2. /\ Public!Result(Public!Ask("agencies", {pk}), d, t) = {<<x, x>> : x \in {pk} \cap d.agencies}
      /\ Public!Result(Public!Ask("stops", {pk}), d, t) = {<<x, x>> : x \in {pk} \cap d.stops}
  BY DEF Public!Result, Public!Ask, Public!AgenciesByPk, Public!StopsByPk
<1>3. QED
  BY <1>1, <1>2 DEF ValuesOf

\* The stop times of a trip, the routes of an agency, and a count.
LEMMA PartsAre ==
  ASSUME NEW d, NEW t, NEW pk
  PROVE  /\ ValuesOf("times", pk, d, t) = {<<y.seq, y.stop>> : y \in {z \in d.times : z.trip = pk}}
         /\ ValuesOf("routes", pk, d, t) = {y.pk : y \in {z \in d.routes : z.agency = pk}}
         /\ {y[1] : y \in ValuesOf("periods", pk, d, t)} = {p \in d.periods : p.alert = pk}
         /\ \A what \in {"numAgencies", "numFeeds", "numRoutes", "numStops", "numTransfers"} :
              ValuesOf(what, pk, d, t) = {Public!Counts(d)[what]}
<1>1. ValuesOf("times", pk, d, t) = {<<y.seq, y.stop>> : y \in {z \in d.times : z.trip = pk}}
  <2> DEFINE row(x) == <<x.trip, <<x.seq, x.stop>>>>
             mine == {y \in d.times : y.trip \in {pk}}
  <2>1. Public!Result(Public!Ask("times", {pk}), d, t) = {row(x) : x \in mine}
    BY DEF Public!Result, Public!Ask, Public!StopTimes
  <2>2. \A x : row(x)[1] = x.trip /\ row(x)[2] = <<x.seq, x.stop>>
    OBVIOUS
  <2> HIDE DEF row
  <2>3. ValuesOf("times", pk, d, t) = {x[2] : x \in {y \in {row(x) : x \in mine} : y[1] = pk}}
    BY <2>1 DEF ValuesOf
  <2>4. {y \in {row(x) : x \in mine} : y[1] = pk} = {row(x) : x \in mine}
    BY <2>2
  <2>5. ValuesOf("times", pk, d, t) = {row(x)[2] : x \in mine}
    BY <2>3, <2>4
  <2>6. mine = {z \in d.times : z.trip = pk}
    OBVIOUS
  <2> HIDE DEF mine
  <2>7. {row(x)[2] : x \in mine} = {<<y.seq, y.stop>> : y \in mine}
    BY <2>2
  <2>8. QED
    BY <2>5, <2>6, <2>7
<1>2. ValuesOf("routes", pk, d, t) = {y.pk : y \in {z \in d.routes : z.agency = pk}}
  <2> DEFINE row(x) == <<x.agency, x.pk>>
             mine == {y \in d.routes : y.agency \in {pk}}
  <2>1. Public!Result(Public!Ask("routes", {pk}), d, t) = {row(x) : x \in mine}
    BY DEF Public!Result, Public!Ask, Public!RoutesInAgency
  <2>2. \A x : row(x)[1] = x.agency /\ row(x)[2] = x.pk
    OBVIOUS
  <2> HIDE DEF row
  <2>3. ValuesOf("routes", pk, d, t) = {x[2] : x \in {y \in {row(x) : x \in mine} : y[1] = pk}}
    BY <2>1 DEF ValuesOf
  <2>4. {y \in {row(x) : x \in mine} : y[1] = pk} = {row(x) : x \in mine}
    BY <2>2
  <2>5. ValuesOf("routes", pk, d, t) = {row(x)[2] : x \in mine}
    BY <2>3, <2>4
  <2>6. mine = {z \in d.routes : z.agency = pk}
    OBVIOUS
  <2> HIDE DEF mine
  <2>7. {row(x)[2] : x \in mine} = {y.pk : y \in mine}
    BY <2>2
  <2>8. QED
    BY <2>5, <2>6, <2>7
<1>3. {y[1] : y \in ValuesOf("periods", pk, d, t)} = {p \in d.periods : p.alert = pk}
  <2> DEFINE row(p) == <<p.alert, <<p, Public!IsCurrent(p, t)>>>>
             mine == {y \in d.periods : y.alert \in {pk}}
  <2>1. Public!Result(Public!Ask("periods", {pk}), d, t) = {row(x) : x \in mine}
    BY DEF Public!Result, Public!Ask, Public!ActivePeriods
  <2>2. \A p : row(p)[1] = p.alert /\ row(p)[2][1] = p
    <3> DEFINE is(p) == Public!IsCurrent(p, t)
    <3>1. \A p : row(p) = <<p.alert, <<p, is(p)>>>>
      OBVIOUS
    <3> HIDE DEF is, row
    <3>2. \A p, b : <<p.alert, <<p, b>>>>[1] = p.alert /\ <<p.alert, <<p, b>>>>[2][1] = p
      OBVIOUS
    <3>3. QED
      BY <3>1, <3>2, Zenon
  <2> HIDE DEF row
  <2>3. ValuesOf("periods", pk, d, t) = {x[2] : x \in {y \in {row(x) : x \in mine} : y[1] = pk}}
    BY <2>1 DEF ValuesOf
  <2>4. {y \in {row(x) : x \in mine} : y[1] = pk} = {row(x) : x \in mine}
    BY <2>2
  <2>5. ValuesOf("periods", pk, d, t) = {row(x)[2] : x \in mine}
    BY <2>3, <2>4
  <2>6. mine = {z \in d.periods : z.alert = pk}
    OBVIOUS
  <2> HIDE DEF mine
  <2>7. {y[1] : y \in {row(x)[2] : x \in mine}} = mine
    BY <2>2
  <2>8. QED
    BY <2>5, <2>6, <2>7
<1>4. ASSUME NEW what \in {"numAgencies", "numFeeds", "numRoutes", "numStops", "numTransfers"}
      PROVE  ValuesOf(what, pk, d, t) = {Public!Counts(d)[what]}
  <2> DEFINE count == Public!Counts(d)[what]
  <2>1. Public!Result(Public!Ask(what, {pk}), d, t) = {<<x, count>> : x \in {pk}}
    BY DEF Public!Result, Public!Ask
  <2>2. ValuesOf(what, pk, d, t) = {x[2] : x \in {y \in {<<x, count>> : x \in {pk}} : y[1] = pk}}
    BY <2>1 DEF ValuesOf
  <2> HIDE DEF count
  <2>3. <<pk, count>>[1] = pk /\ <<pk, count>>[2] = count
    OBVIOUS
  <2>4. {y \in {<<x, count>> : x \in {pk}} : y[1] = pk} = {<<pk, count>>}
    BY <2>3
  <2>5. ValuesOf(what, pk, d, t) = {count}
    BY <2>2, <2>3, <2>4
  <2>6. QED
    BY <2>5 DEF count
<1>5. QED
  BY <1>1, <1>2, <1>3, <1>4
-----------------------------------------------------------------------------
(***************************************************************************)
(* The headway of a route is between its shortest and its longest gap.     *)
(* Every moment of a stop lies in the gap before some later arrival, so    *)
(* that there are at most the longest gap of them for each later arrival,  *)
(* and at least the shortest.                                              *)
(***************************************************************************)

\* A finite set of numbers has a greatest one.
LEMMA GreatestNumber ==
  ASSUME NEW T \in SUBSET Nat, IsFiniteSet(T), T # {}
  PROVE  \E x \in T : \A y \in T : y <= x
<1> DEFINE above(x) == {j \in T : j > x}
           counts == {Cardinality(above(x)) : x \in T}
<1>1. \A x : IsFiniteSet(above(x)) /\ Cardinality(above(x)) \in Nat
  BY FS_Subset, FS_CardinalityType
<1>2. PICK c \in counts : \A e \in counts : c <= e
  <2> HIDE DEF above
  <2>1. counts \subseteq Nat /\ counts # {}
    BY <1>1
  <2> HIDE DEF counts
  <2>2. QED
    BY <2>1, LeastNumber
<1>3. PICK x \in T : c = Cardinality(above(x))
  OBVIOUS
<1>4. ASSUME NEW y \in T, y > x PROVE FALSE
  <2>1. above(y) \cup {y} \subseteq above(x) /\ y \notin above(y)
    <3>1. x \in Nat /\ y \in Nat /\ \A j \in T : j \in Nat
      OBVIOUS
    <3>2. \A j \in T : j > y => j > x
      BY <1>4, <3>1
    <3>3. ~(y > y)
      BY <3>1
    <3>4. QED
      BY <1>4, <3>2, <3>3
  <2>2. Cardinality(above(y)) \in counts
    OBVIOUS
  <2> HIDE DEF above, counts
  <2>3. Cardinality(above(y) \cup {y}) = Cardinality(above(y)) + 1
    BY <1>1, <2>1, FS_AddElement
  <2>4. Cardinality(above(y) \cup {y}) <= Cardinality(above(x))
    BY <1>1, <2>1, FS_Subset
  <2>5. QED
    BY <1>1, <1>2, <1>3, <2>2, <2>3, <2>4
<1>5. \A y \in T : y <= x
  <2>1. \A y \in T : y \in Nat /\ x \in Nat /\ ~(y > x)
    BY <1>4
  <2>2. QED
    BY <2>1
<1>6. QED
  BY <1>5

LEMMA ExtremesAre ==
  ASSUME NEW T \in SUBSET Nat, IsFiniteSet(T), T # {}
  PROVE  /\ Public!Min(T) \in T /\ \A x \in T : Public!Min(T) <= x
         /\ Public!Max(T) \in T /\ \A x \in T : x <= Public!Max(T)
<1>1. \E x \in T : \A y \in T : x <= y
  BY LeastNumber
<1>2. \E x \in T : \A y \in T : x >= y
  <2>1. PICK x \in T : \A y \in T : y <= x
    BY GreatestNumber
  <2>2. \A y \in T : x >= y
    BY <2>1
  <2>3. QED
    BY <2>2
<1>3. Public!Min(T) \in T /\ \A y \in T : Public!Min(T) <= y
  BY <1>1 DEF Public!Min
<1>4. Public!Max(T) \in T /\ \A y \in T : Public!Max(T) >= y
  BY <1>2 DEF Public!Max
<1>5. QED
  BY <1>3, <1>4

\* What counts there counts here.
LEMMA CountIs == \A S : Public!Cardinality(S) = Cardinality(S) /\ (Public!IsFiniteSet(S) <=> IsFiniteSet(S))
<1> SUFFICES ASSUME NEW S
             PROVE  Public!Cardinality(S) = Cardinality(S) /\ (Public!IsFiniteSet(S) <=> IsFiniteSet(S))
  OBVIOUS
<1>1. Public!Cardinality(S) = Cardinality(S)
  BY Zenon DEF Public!Cardinality, Cardinality
<1>2. Public!IsFiniteSet(S) <=> IsFiniteSet(S)
  BY DEF Public!IsFiniteSet, IsFiniteSet
<1>3. QED
  BY <1>1, <1>2

\* The image of a finite set under a function.
LEMMA ImageIsFinite ==
  ASSUME NEW S, IsFiniteSet(S), NEW f, DOMAIN f = S, f = [x \in S |-> f[x]]
  PROVE  IsFiniteSet({f[x] : x \in S})
<1>1. f \in Surjection(S, {f[x] : x \in S})
  BY DEF Surjection
<1>2. QED
  BY <1>1, FS_Surjection

\* Arrivals at stops.
AreArrivals(S) == IsFiniteSet(S) /\ \A x \in S : x.arrival \in Nat

LEMMA BusyIs ==
  ASSUME NEW S, AreArrivals(S), NEW s
  PROVE  s \in Public!Busy(S) <=> \E x, y \in S : x # y /\ x.stop = s /\ y.stop = s
<1> DEFINE at == Public!At(S, s)
<1>1. IsFiniteSet(at) /\ Cardinality(at) \in Nat
  BY FS_Subset, FS_CardinalityType DEF Public!At, AreArrivals
<1>2. \A x : x \in at <=> x \in S /\ x.stop = s
  BY DEF Public!At
<1> HIDE DEF at
<1>3. ASSUME Cardinality(at) > 1 PROVE \E x, y \in at : x # y
  <2>1. PICK x \in at : TRUE
    BY <1>1, <1>3, FS_EmptySet
  <2>2. Cardinality(at \ {x}) = Cardinality(at) - 1 /\ IsFiniteSet(at \ {x})
    BY <1>1, FS_RemoveElement
  <2>3. at \ {x} # {}
    BY <1>1, <1>3, <2>2, FS_EmptySet
  <2>4. QED
    BY <2>3
<1>4. ASSUME NEW x \in at, NEW y \in at, x # y PROVE Cardinality(at) > 1
  <2>1. Cardinality({x}) = 1 /\ IsFiniteSet({x})
    BY FS_Singleton
  <2>2. Cardinality({x} \cup {y}) = 1 + 1
    BY <1>4, <2>1, FS_AddElement
  <2>3. Cardinality({x} \cup {y}) <= Cardinality(at)
    BY <1>1, FS_Subset
  <2>4. QED
    BY <1>1, <2>2, <2>3
<1>5. s \in Public!Busy(S) <=> (\E x \in S : x.stop = s) /\ Cardinality(at) > 1
  <2>1. s \in {x.stop : x \in S} <=> \E x \in S : x.stop = s
    OBVIOUS
  <2>2. s \in Public!Busy(S) <=> s \in {x.stop : x \in S} /\ Public!Cardinality(at) > 1
    BY DEF Public!Busy, at
  <2>3. QED
    BY <2>1, <2>2, CountIs
<1>6. QED
  BY <1>2, <1>3, <1>4, <1>5

\* The first arrival at a stop.
LEMMA FirstIs ==
  ASSUME NEW S, AreArrivals(S), NEW s, \E x \in S : x.stop = s
  PROVE  \E x \in S : x.stop = s /\ \A z \in S : z.stop = s => x.arrival <= z.arrival
<1> DEFINE T == {x.arrival : x \in {y \in S : y.stop = s}}
<1>1. T \subseteq Nat /\ T # {}
  BY DEF AreArrivals
<1>2. PICK a \in T : \A b \in T : a <= b
  <2> HIDE DEF T
  <2>1. QED
    BY <1>1, LeastNumber
<1>3. PICK x \in S : x.stop = s /\ x.arrival = a
  OBVIOUS
<1>4. \A z \in S : z.stop = s => z.arrival \in T
  OBVIOUS
<1>5. QED
  BY <1>2, <1>3, <1>4

\* The arrivals around a moment, or just before an arrival, are a gap apart.
LEMMA GapAround ==
  ASSUME NEW S, AreArrivals(S), NEW s, NEW m \in Nat,
         NEW x \in S, x.stop = s, x.arrival <= m, NEW w \in S, w.stop = s, m < w.arrival
  PROVE  \E p, n \in S :
           /\ p.stop = s /\ p.arrival <= m /\ n.stop = s /\ m < n.arrival
           /\ n.arrival - p.arrival \in Public!Gaps(S)
           /\ \A z \in S : z.stop = s => z.arrival <= p.arrival \/ z.arrival >= n.arrival
<1> DEFINE early == {v.arrival : v \in {y \in S : y.stop = s /\ y.arrival <= m}}
           late == {v.arrival : v \in {y \in S : y.stop = s /\ m < y.arrival}}
<1>1. \A z \in S : z.arrival \in Nat
  BY DEF AreArrivals
<1>2. \A z \in S : z.stop = s => (z.arrival \in early /\ z.arrival <= m) \/ (z.arrival \in late /\ m < z.arrival)
  BY <1>1
<1>3. early \subseteq Nat /\ early # {} /\ late \subseteq Nat /\ late # {}
  BY <1>1
<1>4. IsFiniteSet(early)
  <2>1. \A a \in early : a <= m
    OBVIOUS
  <2> HIDE DEF early
  <2>2. QED
    BY <1>3, <2>1, FS_BoundedSetOfNaturals
<1>5. PICK a \in early : \A e \in early : e <= a
  <2> HIDE DEF early
  <2>1. QED
    BY <1>3, <1>4, GreatestNumber
<1>6. PICK b \in late : \A e \in late : b <= e
  <2> HIDE DEF late
  <2>1. QED
    BY <1>3, LeastNumber
<1>7. PICK p \in S : p.stop = s /\ p.arrival = a /\ a <= m
  OBVIOUS
<1>8. PICK n \in S : n.stop = s /\ n.arrival = b /\ m < b
  OBVIOUS
<1> HIDE DEF early, late
<1>9. \A z \in S : z.stop = s => z.arrival <= p.arrival \/ z.arrival >= n.arrival
  BY <1>1, <1>2, <1>5, <1>6, <1>7, <1>8
<1>10. p.arrival < n.arrival
  BY <1>1, <1>7, <1>8
<1>11. n.arrival - p.arrival \in Public!Gaps(S)
  <2>1. /\ <<p, n>> \in S \X S /\ <<p, n>>[1] = p /\ <<p, n>>[2] = n
        /\ p # n /\ p.arrival <= n.arrival /\ p.stop = n.stop
    BY <1>1, <1>7, <1>8, <1>10
  <2>2. QED
    BY <1>7, <1>9, <2>1 DEF Public!Gaps
<1>12. QED
  BY <1>7, <1>8, <1>9, <1>11

\* A gap is a number, and there is one just when a stop has several arrivals.
LEMMA GapsAre ==
  ASSUME NEW S, AreArrivals(S)
  PROVE  /\ Public!Gaps(S) \in SUBSET Nat /\ IsFiniteSet(Public!Gaps(S))
         /\ Public!Gaps(S) = {} <=> Public!Busy(S) = {}
<1> DEFINE P(y) == /\ y[1] # y[2] /\ y[1].stop = y[2].stop /\ y[1].arrival <= y[2].arrival
                   /\ \A z \in S : z.stop = y[1].stop => z.arrival <= y[1].arrival \/ z.arrival >= y[2].arrival
           pairs == {y \in S \X S : P(y)}
           f == [y \in pairs |-> y[2].arrival - y[1].arrival]
<1>1. \A x \in S : x.arrival \in Nat
  BY DEF AreArrivals
<1>2. Public!Gaps(S) = {x[2].arrival - x[1].arrival : x \in pairs}
  BY Zenon DEF Public!Gaps
<1>3. IsFiniteSet(pairs)
  <2>1. IsFiniteSet(S \X S) /\ pairs \in SUBSET (S \X S)
    BY FS_Product DEF AreArrivals
  <2> HIDE DEF pairs
  <2>2. QED
    BY <2>1, FS_Subset
<1>4. \A y \in pairs : y[1] \in S /\ y[2] \in S /\ P(y)
  OBVIOUS
<1>5. \A x, y \in S : P(<<x, y>>) => <<x, y>> \in pairs
  OBVIOUS
<1>6. \A x, y \in S :
        P(<<x, y>>) <=> /\ x # y /\ x.stop = y.stop /\ x.arrival <= y.arrival
                        /\ \A z \in S : z.stop = x.stop => z.arrival <= x.arrival \/ z.arrival >= y.arrival
  <2> SUFFICES ASSUME NEW x \in S, NEW y \in S
               PROVE  P(<<x, y>>) <=> /\ x # y /\ x.stop = y.stop /\ x.arrival <= y.arrival
                                      /\ \A z \in S : z.stop = x.stop => z.arrival <= x.arrival \/ z.arrival >= y.arrival
    OBVIOUS
  <2>1. <<x, y>>[1] = x /\ <<x, y>>[2] = y
    OBVIOUS
  <2>2. QED
    BY <2>1
<1>7. \A y \in pairs : y[2].arrival - y[1].arrival \in Nat /\ y[1] # y[2] /\ y[1].stop = y[2].stop
  BY <1>1, <1>4
<1> HIDE DEF P, pairs
<1>8. Public!Gaps(S) \in SUBSET Nat
  BY <1>2, <1>7
<1>9. IsFiniteSet(Public!Gaps(S))
  <2>1. DOMAIN f = pairs /\ f = [y \in pairs |-> f[y]] /\ \A y \in pairs : f[y] = y[2].arrival - y[1].arrival
    OBVIOUS
  <2> HIDE DEF f
  <2>2. Public!Gaps(S) = {f[y] : y \in pairs}
    BY <1>2, <2>1
  <2>3. QED
    BY <1>3, <2>1, <2>2, ImageIsFinite
<1>10. ASSUME NEW g \in Public!Gaps(S) PROVE Public!Busy(S) # {}
  <2>1. PICK y \in pairs : g = y[2].arrival - y[1].arrival
    BY <1>2
  <2>2. y[1] \in S /\ y[2] \in S /\ y[1] # y[2] /\ y[1].stop = y[2].stop
    BY <1>4, <1>7
  <2>3. y[1].stop \in Public!Busy(S)
    BY <2>2, BusyIs
  <2>4. QED
    BY <2>3
<1>11. ASSUME NEW s \in Public!Busy(S) PROVE Public!Gaps(S) # {}
  <2>1. PICK x \in S : x.stop = s /\ \E y \in S : x # y /\ y.stop = s
    BY BusyIs
  <2>2. PICK a \in S : a.stop = s /\ \A z \in S : z.stop = s => a.arrival <= z.arrival
    BY <2>1, FirstIs
  <2> DEFINE rest == S \ {a}
  <2>3. AreArrivals(rest) /\ \E z \in rest : z.stop = s
    BY <2>1, FS_RemoveElement DEF AreArrivals
  <2> HIDE DEF rest
  <2>4. PICK b \in rest : b.stop = s /\ \A z \in rest : z.stop = s => b.arrival <= z.arrival
    BY <2>3, FirstIs
  <2>5. b \in S /\ a # b
    BY DEF rest
  <2>6. \A z \in S : z.stop = s => z.arrival <= a.arrival \/ z.arrival >= b.arrival
    <3> SUFFICES ASSUME NEW z \in S, z.stop = s PROVE z.arrival <= a.arrival \/ z.arrival >= b.arrival
      OBVIOUS
    <3>1. CASE z = a
      BY <1>1, <3>1
    <3>2. CASE z # a
      BY <1>1, <2>4, <2>5, <3>2 DEF rest
    <3>3. QED
      BY <3>1, <3>2
  <2>7. P(<<a, b>>)
    BY <1>6, <2>2, <2>4, <2>5, <2>6
  <2>8. <<a, b>> \in pairs
    BY <1>5, <2>5, <2>7
  <2>9. QED
    BY <1>2, <2>8
<1>12. QED
  BY <1>8, <1>9, <1>10, <1>11

\* A moment of a stop is between two of its arrivals.
LEMMA MomentsAre ==
  ASSUME NEW S, AreArrivals(S), NEW s, NEW m
  PROVE  <<s, m>> \in Public!Moments(S) <=>
           m \in Nat /\ \E x, w \in S : /\ x.stop = s /\ w.stop = s
                                        /\ x.arrival <= m /\ m < w.arrival
<1> DEFINE arrivals(r) == {x.arrival : x \in Public!At(S, r)}
           moments(r) == Public!Min(arrivals(r))..(Public!Max(arrivals(r)) - 1)
<1>1. \A x \in S : x.arrival \in Nat
  BY DEF AreArrivals
<1>2. \A r : arrivals(r) = {x.arrival : x \in {y \in S : y.stop = r}}
  BY DEF Public!At
<1>3. <<s, m>> \in Public!Moments(S) <=> s \in Public!Busy(S) /\ m \in moments(s)
  <2>1. Public!Moments(S) = UNION {{r} \X moments(r) : r \in Public!Busy(S)}
    BY DEF Public!Moments
  <2> HIDE DEF moments
  <2>2. QED
    BY <2>1
<1>4. ASSUME NEW x \in S, x.stop = s
      PROVE  /\ arrivals(s) \in SUBSET Nat /\ IsFiniteSet(arrivals(s)) /\ arrivals(s) # {}
             /\ \A a \in arrivals(s) : \E y \in S : y.stop = s /\ y.arrival = a
             /\ \A y \in S : y.stop = s => y.arrival \in arrivals(s)
  <2> DEFINE at == {y \in S : y.stop = s}
             f == [y \in at |-> y.arrival]
  <2>1. IsFiniteSet(at)
    BY FS_Subset DEF AreArrivals
  <2>2. DOMAIN f = at /\ f = [y \in at |-> f[y]] /\ \A y \in at : f[y] = y.arrival
    OBVIOUS
  <2>3. arrivals(s) = {f[y] : y \in at}
    BY <1>2, <2>2
  <2> HIDE DEF f
  <2>4. IsFiniteSet({f[y] : y \in at})
    <3> HIDE DEF at
    <3>1. QED
      BY <2>1, <2>2, ImageIsFinite
  <2>5. IsFiniteSet(arrivals(s))
    BY <2>3, <2>4
  <2> HIDE DEF arrivals, at
  <2>6. \A a : a \in arrivals(s) <=> \E y \in S : y.stop = s /\ y.arrival = a
    BY <1>2
  <2>7. QED
    BY <1>1, <1>4, <2>5, <2>6
<1> HIDE DEF arrivals
<1>5. ASSUME s \in Public!Busy(S), m \in moments(s)
      PROVE  m \in Nat /\ \E x, w \in S : x.stop = s /\ w.stop = s /\ x.arrival <= m /\ m < w.arrival
  <2>1. PICK x \in S : x.stop = s
    BY <1>5, BusyIs
  <2>2. Public!Min(arrivals(s)) \in arrivals(s) /\ Public!Max(arrivals(s)) \in arrivals(s)
    BY <1>4, <2>1, ExtremesAre
  <2>3. PICK y \in S : y.stop = s /\ y.arrival = Public!Min(arrivals(s))
    BY <1>4, <2>1, <2>2
  <2>4. PICK w \in S : w.stop = s /\ w.arrival = Public!Max(arrivals(s))
    BY <1>4, <2>1, <2>2
  <2>5. m \in Nat /\ y.arrival <= m /\ m < w.arrival
    BY <1>1, <1>5, <2>3, <2>4
  <2>6. QED
    BY <2>3, <2>4, <2>5
<1>6. ASSUME m \in Nat, NEW x \in S, NEW w \in S, x.stop = s, w.stop = s, x.arrival <= m, m < w.arrival
      PROVE  s \in Public!Busy(S) /\ m \in moments(s)
  <2>1. x # w
    BY <1>1, <1>6
  <2>2. s \in Public!Busy(S)
    BY <1>6, <2>1, BusyIs
  <2>3. Public!Min(arrivals(s)) \in Nat /\ Public!Max(arrivals(s)) \in Nat
        /\ Public!Min(arrivals(s)) <= x.arrival /\ w.arrival <= Public!Max(arrivals(s))
    BY <1>4, <1>6, ExtremesAre
  <2>4. Public!Min(arrivals(s)) <= m /\ m <= Public!Max(arrivals(s)) - 1
    BY <1>1, <1>6, <2>3
  <2>5. QED
    BY <1>6, <2>2, <2>3, <2>4
<1> HIDE DEF moments
<1>7. QED
  BY <1>3, <1>5, <1>6

FirstOf(S, s) == CHOOSE x \in S : x.stop = s /\ \A z \in S : z.stop = s => x.arrival <= z.arrival

\* The arrivals at stops with several, but the first ones there.
Later(S) == {x \in S : x.stop \in Public!Busy(S) /\ x # FirstOf(S, x.stop)}

LEMMA FirstOfIs ==
  ASSUME NEW S, AreArrivals(S), NEW s, \E x \in S : x.stop = s
  PROVE  /\ FirstOf(S, s) \in S /\ FirstOf(S, s).stop = s
         /\ \A z \in S : z.stop = s => FirstOf(S, s).arrival <= z.arrival
BY FirstIs DEF FirstOf

\* They are what the headway divides by.
LEMMA LaterIs ==
  ASSUME NEW S, AreArrivals(S)
  PROVE  /\ IsFiniteSet(Later(S)) /\ Cardinality(Later(S)) \in Nat
         /\ Cardinality(Later(S))
              = Public!Cardinality({x \in S : x.stop \in Public!Busy(S)}) - Public!Cardinality(Public!Busy(S))
         /\ Public!Busy(S) # {} => Cardinality(Later(S)) > 0
<1> DEFINE busy == Public!Busy(S)
           all == {x \in S : x.stop \in busy}
           f == [s \in busy |-> FirstOf(S, s)]
           firsts == {f[s] : s \in busy}
<1>1. IsFiniteSet(all)
  BY FS_Subset DEF AreArrivals
<1>2. \A s \in busy : FirstOf(S, s) \in S /\ FirstOf(S, s).stop = s
  <2> SUFFICES ASSUME NEW s \in busy PROVE FirstOf(S, s) \in S /\ FirstOf(S, s).stop = s
    OBVIOUS
  <2>1. \E x \in S : x.stop = s
    BY BusyIs
  <2>2. QED
    BY <2>1, FirstOfIs
<1>3. \A s \in busy : f[s] \in all /\ f[s].stop = s /\ f[s] = FirstOf(S, s)
  BY <1>2
<1>4. DOMAIN f = busy /\ f = [s \in busy |-> f[s]]
  OBVIOUS
<1>5. \A x : x \in Later(S) <=> x \in all \ firsts
  <2> HIDE DEF busy, f
  <2>1. \A x : x \in firsts <=> \E s \in busy : x = f[s]
    OBVIOUS
  <2>2. \A x \in all : x.stop \in busy
    OBVIOUS
  <2>3. \A x \in all : x \in firsts <=> x = FirstOf(S, x.stop)
    BY <1>3, <2>1, <2>2
  <2>4. \A x : x \in Later(S) <=> x \in all /\ x # FirstOf(S, x.stop)
    BY DEF Later, busy
  <2> HIDE DEF all, firsts
  <2>5. QED
    BY <2>3, <2>4
<1> HIDE DEF all, f, busy
<1>6. f \in Bijection(busy, firsts)
  <2>1. f \in [busy -> firsts]
    BY <1>4
  <2>2. \A r, s \in busy : f[r] = f[s] => r = s
    BY <1>3
  <2>3. \A x \in firsts : \E s \in busy : f[s] = x
    OBVIOUS
  <2> HIDE DEF firsts
  <2>4. QED
    BY <2>1, <2>2, <2>3, <1>4 DEF Bijection, Injection, Surjection, IsInjective
<1>7. firsts \subseteq all
  BY <1>3
<1> HIDE DEF firsts
<1>8. IsFiniteSet(firsts)
  BY <1>1, <1>7, FS_Subset
<1>9. f \in Injection(busy, firsts) /\ f \in Surjection(busy, firsts)
  BY <1>6 DEF Bijection
<1>10. IsFiniteSet(busy) /\ Cardinality(busy) = Cardinality(firsts)
  BY <1>8, <1>9, FS_Injection
<1>11. Later(S) = all \ firsts
  BY <1>5
<1>12. IsFiniteSet(Later(S)) /\ Cardinality(Later(S)) = Cardinality(all) - Cardinality(all \cap firsts)
  BY <1>1, <1>11, FS_Difference
<1>13. all \cap firsts = firsts
  BY <1>7
<1>14. Cardinality(Later(S)) \in Nat
  BY <1>12, FS_CardinalityType
<1>15. ASSUME NEW s \in busy PROVE Later(S) # {}
  <2>1. PICK x \in S : x.stop = s /\ \E y \in S : x # y /\ y.stop = s
    BY BusyIs DEF busy
  <2>2. PICK y \in S : x # y /\ y.stop = s
    BY <2>1
  <2>3. x # FirstOf(S, s) \/ y # FirstOf(S, s)
    BY <2>2
  <2>4. QED
    BY <2>1, <2>2, <2>3, <1>15 DEF Later, busy
<1>16. busy # {} => Cardinality(Later(S)) > 0
  BY <1>12, <1>14, <1>15, FS_EmptySet
<1>17. Cardinality(Later(S)) = Cardinality(all) - Cardinality(busy)
  BY <1>10, <1>12, <1>13
<1>18. QED
  BY <1>12, <1>14, <1>16, <1>17, CountIs DEF all, busy

\* There are at most as many moments as the longest gap for each later arrival.
LEMMA MomentsAtMost ==
  ASSUME NEW S, AreArrivals(S), NEW g \in Nat, \A h \in Public!Gaps(S) : h <= g
  PROVE  /\ IsFiniteSet(Public!Moments(S))
         /\ Cardinality(Public!Moments(S)) <= Cardinality(Later(S)) * g
<1> DEFINE late == Later(S) \X (0..(g - 1))
           ends(y, n) == /\ n \in Later(S) /\ n.stop = y[1]
                         /\ n.arrival - 1 - y[2] \in 0..(g - 1)
           after(y) == CHOOSE n : ends(y, n)
           f == [y \in Public!Moments(S) |-> <<after(y), after(y).arrival - 1 - y[2]>>]
<1>1. \A x \in S : x.arrival \in Nat
  BY DEF AreArrivals
<1>2. \A y \in Public!Moments(S) : y = <<y[1], y[2]>>
  <2> DEFINE arrivals(r) == {x.arrival : x \in Public!At(S, r)}
             moments(r) == Public!Min(arrivals(r))..(Public!Max(arrivals(r)) - 1)
  <2>1. Public!Moments(S) = UNION {{r} \X moments(r) : r \in Public!Busy(S)}
    BY DEF Public!Moments
  <2> HIDE DEF moments
  <2>2. QED
    BY <2>1
<1>3. ASSUME NEW y \in Public!Moments(S)
      PROVE  y[2] \in Nat /\ \E n : ends(y, n)
  <2> DEFINE s == y[1]
             m == y[2]
  <2>1. m \in Nat /\ \E x, w \in S : x.stop = s /\ w.stop = s /\ x.arrival <= m /\ m < w.arrival
    BY <1>2, MomentsAre
  <2>2. PICK x \in S : x.stop = s /\ x.arrival <= m /\ \E w \in S : w.stop = s /\ m < w.arrival
    BY <2>1
  <2>3. PICK w \in S : w.stop = s /\ m < w.arrival
    BY <2>2
  <2> HIDE DEF s, m
  <2>4. PICK p \in S, n \in S :
          /\ p.stop = s /\ p.arrival <= m /\ n.stop = s /\ m < n.arrival
          /\ n.arrival - p.arrival \in Public!Gaps(S)
    BY <2>1, <2>2, <2>3, GapAround
  <2>5. n.arrival - 1 - m \in 0..(g - 1)
    <3>1. n.arrival - p.arrival <= g
      BY <2>4
    <3>2. QED
      BY <1>1, <2>1, <2>4, <3>1
  <2>6. n \in Later(S)
    <3>1. FirstOf(S, s).arrival <= p.arrival /\ FirstOf(S, s) \in S
      BY <2>4, FirstOfIs
    <3>2. n # FirstOf(S, s) /\ n # p
      BY <1>1, <2>1, <2>4, <3>1
    <3>3. s \in Public!Busy(S)
      BY <2>4, <3>2, BusyIs
    <3>4. QED
      BY <2>4, <3>2, <3>3 DEF Later
  <2>7. ends(y, n)
    BY <2>4, <2>5, <2>6 DEF s, m
  <2> HIDE DEF ends
  <2>8. QED
    BY <2>1, <2>7 DEF m
<1>4. \A y \in Public!Moments(S) : ends(y, after(y))
  <2> HIDE DEF ends
  <2>1. QED
    BY <1>3
<1>5. \A y \in Public!Moments(S) :
        after(y) \in Later(S) /\ after(y).stop = y[1] /\ after(y).arrival - 1 - y[2] \in 0..(g - 1)
  BY <1>4
<1> HIDE DEF after, ends
<1>6. f \in Injection(Public!Moments(S), late)
  <2>1. f \in [Public!Moments(S) -> late]
    BY <1>5
  <2>2. ASSUME NEW y \in Public!Moments(S), NEW z \in Public!Moments(S), f[y] = f[z] PROVE y = z
    <3>1. after(y) = after(z) /\ after(y).arrival - 1 - y[2] = after(z).arrival - 1 - z[2]
      BY <2>2
    <3>2. after(y) \in S
      BY <1>5 DEF Later
    <3>3. y[2] = z[2]
      BY <1>1, <1>3, <3>1, <3>2
    <3>4. QED
      BY <1>2, <1>5, <3>1, <3>3
  <2> HIDE DEF f, late
  <2>3. QED
    BY <2>1, <2>2 DEF Injection, IsInjective
<1>7. IsFiniteSet(0..(g - 1)) /\ Cardinality(0..(g - 1)) = g
  BY BelowAre
<1>8. IsFiniteSet(late) /\ Cardinality(late) = Cardinality(Later(S)) * g
  BY <1>7, LaterIs, FS_Product
<1> HIDE DEF f, late
<1>9. QED
  BY <1>6, <1>8, FS_Injection

LEMMA MomentsAreFinite == ASSUME NEW S, AreArrivals(S) PROVE IsFiniteSet(Public!Moments(S))
<1>1. Public!Gaps(S) \in SUBSET Nat /\ IsFiniteSet(Public!Gaps(S))
  BY GapsAre
<1>2. \E G \in Nat : \A h \in Public!Gaps(S) : h <= G
  <2>1. CASE Public!Gaps(S) = {}
    BY <2>1
  <2>2. CASE Public!Gaps(S) # {}
    BY <1>1, <2>2, GreatestNumber
  <2>3. QED
    BY <2>1, <2>2
<1>3. QED
  BY <1>2, MomentsAtMost

\* There are at least as many moments as the shortest gap for each later arrival.
LEMMA MomentsAtLeast ==
  ASSUME NEW S, AreArrivals(S), NEW g \in Nat, \A h \in Public!Gaps(S) : g <= h
  PROVE  Cardinality(Later(S)) * g <= Cardinality(Public!Moments(S))
<1> DEFINE late == Later(S) \X (0..(g - 1))
           f == [y \in late |-> <<y[1].stop, y[1].arrival - 1 - y[2]>>]
<1>1. \A x \in S : x.arrival \in Nat
  BY DEF AreArrivals
<1>2. ASSUME NEW n \in Later(S), g > 0
      PROVE  \E p \in S : /\ p.stop = n.stop /\ p.arrival + g <= n.arrival
                          /\ \A z \in S : z.stop = n.stop /\ z # n => z.arrival <= p.arrival \/ z.arrival > n.arrival
  <2> DEFINE s == n.stop
             first == FirstOf(S, s)
  <2>1. n \in S /\ n # first
    BY DEF Later
  <2>2. first \in S /\ first.stop = s /\ \A z \in S : z.stop = s => first.arrival <= z.arrival
    BY <2>1, FirstOfIs
  <2> HIDE DEF first
  <2>3. ASSUME NEW z \in S, z.stop = s, z # n PROVE z.arrival # n.arrival
    <3> SUFFICES ASSUME z.arrival = n.arrival PROVE FALSE
      OBVIOUS
    <3>1. /\ <<z, n>> \in S \X S /\ <<z, n>>[1] = z /\ <<z, n>>[2] = n
      BY <2>1
    <3>2. \A r \in S : r.stop = z.stop => r.arrival <= z.arrival \/ r.arrival >= n.arrival
      BY <1>1
    <3>3. z.arrival <= n.arrival /\ n.arrival - z.arrival = 0
      BY <1>1, <2>1
    <3>4. n.arrival - z.arrival \in Public!Gaps(S)
      BY <2>3, <3>1, <3>2, <3>3 DEF Public!Gaps
    <3>5. g <= 0
      BY <3>3, <3>4
    <3>6. QED
      BY <1>2, <3>5
  <2> DEFINE m == n.arrival - 1
  <2>4. first.arrival <= m /\ m < n.arrival /\ m \in Nat
    <3>1. first.arrival <= n.arrival /\ first.arrival # n.arrival
      BY <2>1, <2>2, <2>3
    <3>2. QED
      BY <1>1, <2>1, <2>2, <3>1
  <2> HIDE DEF s
  <2>5. PICK p \in S, q \in S :
          /\ p.stop = s /\ p.arrival <= m /\ q.stop = s /\ m < q.arrival
          /\ q.arrival - p.arrival \in Public!Gaps(S)
          /\ \A z \in S : z.stop = s => z.arrival <= p.arrival \/ z.arrival >= q.arrival
    <3>1. n.stop = s
      BY DEF s
    <3> HIDE DEF m
    <3>2. QED
      BY <2>1, <2>2, <2>4, <3>1, GapAround
  <2>6. q.arrival = n.arrival
    <3>1. n.arrival <= p.arrival \/ n.arrival >= q.arrival
      BY <2>1, <2>5 DEF s
    <3>2. QED
      BY <1>1, <2>1, <2>4, <2>5, <3>1
  <2>7. p.arrival + g <= n.arrival
    <3>1. g <= q.arrival - p.arrival
      BY <2>5
    <3>2. QED
      BY <1>1, <2>1, <2>5, <2>6, <3>1
  <2>8. \A z \in S : z.stop = s /\ z # n => z.arrival <= p.arrival \/ z.arrival > n.arrival
    <3> SUFFICES ASSUME NEW z \in S, z.stop = s, z # n PROVE z.arrival <= p.arrival \/ z.arrival > n.arrival
      OBVIOUS
    <3>1. z.arrival # n.arrival
      BY <2>3
    <3>2. z.arrival <= p.arrival \/ z.arrival >= n.arrival
      BY <2>5, <2>6
    <3>3. QED
      BY <1>1, <2>1, <3>1, <3>2
  <2>9. QED
    BY <2>5, <2>7, <2>8 DEF s
<1>3. CASE g = 0
  <2>1. IsFiniteSet(Public!Moments(S))
    BY MomentsAreFinite
  <2>2. Cardinality(Public!Moments(S)) \in Nat /\ Cardinality(Later(S)) \in Nat
    BY <2>1, LaterIs, FS_CardinalityType
  <2>3. Cardinality(Later(S)) * 0 = 0
    BY <2>2
  <2>4. QED
    BY <1>3, <2>2, <2>3
<1>4. CASE g > 0
  <2>1. \A y \in late : y[1] \in Later(S) /\ y[1] \in S /\ y[1].arrival \in Nat /\ y[2] \in 0..(g - 1) /\ y = <<y[1], y[2]>>
    BY <1>1 DEF Later
  <2> HIDE DEF late
  <2>2. ASSUME NEW y \in late
        PROVE  <<y[1].stop, y[1].arrival - 1 - y[2]>> \in Public!Moments(S)
    <3> DEFINE n == y[1]
               m == n.arrival - 1 - y[2]
    <3>1. PICK p \in S : p.stop = n.stop /\ p.arrival + g <= n.arrival
      BY <1>2, <1>4, <2>1
    <3>2. n \in S /\ m \in Nat /\ p.arrival <= m /\ m < n.arrival
      BY <1>1, <2>1, <3>1
    <3> HIDE DEF m, n
    <3>3. <<n.stop, m>> \in Public!Moments(S)
      BY <3>1, <3>2, MomentsAre
    <3>4. QED
      BY <3>3 DEF m, n
  <2>3. ASSUME NEW y \in late, NEW z \in late, f[y] = f[z] PROVE y = z
    <3>1. y[1].stop = z[1].stop /\ y[1].arrival - 1 - y[2] = z[1].arrival - 1 - z[2]
      BY <2>3
    <3>2. y[1] = z[1]
      <4> SUFFICES ASSUME y[1] # z[1] PROVE FALSE
        OBVIOUS
      <4>1. PICK p \in S : /\ p.arrival + g <= y[1].arrival
                           /\ z[1].arrival <= p.arrival \/ z[1].arrival > y[1].arrival
        BY <1>2, <1>4, <2>1, <3>1
      <4>2. PICK q \in S : /\ q.arrival + g <= z[1].arrival
                           /\ y[1].arrival <= q.arrival \/ y[1].arrival > z[1].arrival
        BY <1>2, <1>4, <2>1, <3>1
      <4>3. QED
        BY <1>1, <2>1, <3>1, <4>1, <4>2
    <3>3. y[2] = z[2]
      BY <2>1, <3>1, <3>2
    <3>4. QED
      BY <2>1, <3>2, <3>3
  <2>4. f \in Injection(late, Public!Moments(S))
    <3>1. f \in [late -> Public!Moments(S)]
      BY <2>2
    <3> HIDE DEF f
    <3>2. QED
      BY <2>3, <3>1 DEF Injection, IsInjective
  <2>5. IsFiniteSet(0..(g - 1)) /\ Cardinality(0..(g - 1)) = g
    BY BelowAre
  <2>6. Cardinality(late) = Cardinality(Later(S)) * g
    BY <2>5, LaterIs, FS_Product DEF late
  <2>7. IsFiniteSet(Public!Moments(S))
    BY MomentsAreFinite
  <2> HIDE DEF f
  <2>8. Cardinality(late) <= Cardinality(Public!Moments(S))
    BY <2>4, <2>7, FS_Injection
  <2>9. QED
    BY <2>6, <2>8
<1>5. QED
  BY <1>3, <1>4

\* A quotient that is rounded stays between whole numbers.
LEMMA RoundedIs ==
  ASSUME NEW T \in Nat, NEW D \in Nat, D > 0, NEW g \in Nat, NEW G \in Nat, D * g <= T, T <= D * G
  PROVE  (2 * T + D) \div (2 * D) \in g..G
<1> DEFINE q == (2 * T + D) \div (2 * D)
<1>1. q \in Nat /\ (2 * D) * q <= 2 * T + D /\ 2 * T + D < (2 * D) * (q + 1)
  OBVIOUS
<1> HIDE DEF q
<1>2. \A a, b \in Nat : a <= b => D * a <= D * b
  OBVIOUS
<1>3. (2 * D) * q = 2 * (D * q) /\ (2 * D) * (q + 1) = 2 * (D * q) + 2 * D
  BY <1>1
<1>4. D * q \in Nat /\ D * g \in Nat /\ D * G \in Nat
  BY <1>1
<1>5. g <= q
  <2> SUFFICES ASSUME q + 1 <= g PROVE FALSE
    BY <1>1
  <2>1. D * (q + 1) <= D * g
    BY <1>1, <1>2
  <2>2. D * (q + 1) = D * q + D
    BY <1>1
  <2>3. QED
    BY <1>1, <1>3, <1>4, <2>1, <2>2
<1>6. q <= G
  <2> SUFFICES ASSUME G + 1 <= q PROVE FALSE
    BY <1>1
  <2>1. D * (G + 1) <= D * q
    BY <1>1, <1>2
  <2>2. D * (G + 1) = D * G + D
    OBVIOUS
  <2>3. QED
    BY <1>1, <1>3, <1>4, <2>1, <2>2
<1>7. QED
  BY <1>1, <1>5, <1>6 DEF q

LEMMA HeadwayIs ==
  ASSUME NEW S, AreArrivals(S), Public!Busy(S) # {}
  PROVE  Public!Headway(S) \in Public!Min(Public!Gaps(S))..Public!Max(Public!Gaps(S))
<1> DEFINE least == Public!Min(Public!Gaps(S))
           most == Public!Max(Public!Gaps(S))
           total == Cardinality(Public!Moments(S))
           diffs == Cardinality(Later(S))
<1>1. /\ least \in Nat /\ \A h \in Public!Gaps(S) : least <= h
      /\ most \in Nat /\ \A h \in Public!Gaps(S) : h <= most
  BY GapsAre, ExtremesAre
<1>2. total \in Nat /\ diffs \in Nat /\ diffs > 0
  BY MomentsAreFinite, LaterIs, FS_CardinalityType
<1> HIDE DEF least, most
<1>3. diffs * least <= total /\ total <= diffs * most
  BY <1>1, MomentsAtMost, MomentsAtLeast
<1>4. Public!Headway(S) = (2 * total + diffs) \div (2 * diffs)
  BY LaterIs, CountIs DEF Public!Headway
<1> HIDE DEF total, diffs
<1>5. QED
  BY <1>1, <1>2, <1>3, <1>4, RoundedIs DEF least, most

LEMMA HeadwaysAre ==
  ASSUME NEW d, Public!WellFormed(d), NEW t \in Nat, NEW pk
  PROVE  Public!HeadwayTrue(ValuesOf("headways", pk, d, t), pk, d, t)
<1> DEFINE S == Public!Ahead(d, t, pk)
           values == ValuesOf("headways", pk, d, t)
<1>1. AreArrivals(S)
  <2>1. IsFiniteSet(d.times)
    BY CountIs DEF Public!WellFormed
  <2>2. IsFiniteSet(S)
    BY <2>1, FS_Subset DEF Public!Ahead
  <2>3. \A x \in S : x \in d.times /\ x.arrival # None
    BY DEF Public!Ahead
  <2>4. \A x \in d.times : x.arrival \in Nat \cup {None}
    BY DEF Public!WellFormed
  <2>5. QED
    BY <2>2, <2>3, <2>4 DEF AreArrivals
<1> HIDE DEF S
<1>2. values = IF Public!Busy(S) # {} THEN {Public!Headway(S)} ELSE {}
  <2> DEFINE row(x) == <<x, Public!Headway(Public!Ahead(d, t, x))>>
             asking == {y \in {pk} : Public!Busy(Public!Ahead(d, t, y)) # {}}
  <2>1. Public!Result(Public!Ask("headways", {pk}), d, t) = {row(x) : x \in asking}
    BY DEF Public!Result, Public!Ask, Public!Headways
  <2>2. asking = IF Public!Busy(S) # {} THEN {pk} ELSE {}
    BY DEF S
  <2>3. row(pk)[1] = pk /\ row(pk)[2] = Public!Headway(S)
    BY DEF S
  <2> HIDE DEF row, asking
  <2>4. values = {x[2] : x \in {y \in {row(x) : x \in asking} : y[1] = pk}}
    BY <2>1 DEF ValuesOf
  <2>5. {y \in {row(x) : x \in asking} : y[1] = pk} = {row(x) : x \in asking}
    BY <2>2, <2>3
  <2>6. values = {row(x)[2] : x \in asking}
    BY <2>4, <2>5
  <2>7. QED
    BY <2>2, <2>3, <2>6
<1>3. Public!Gaps(S) = {} <=> Public!Busy(S) = {}
  BY <1>1, GapsAre
<1>4. Public!Gaps(S) # {} =>
        \E h \in Public!Min(Public!Gaps(S))..Public!Max(Public!Gaps(S)) : values = {h}
  BY <1>1, <1>2, <1>3, HeadwayIs
<1>5. QED
  BY <1>2, <1>3, <1>4 DEF Public!HeadwayTrue, S
-----------------------------------------------------------------------------
(***************************************************************************)
(* The answers: once all queries are made, each part is what its query     *)
(* returned at one of the moments since the request began.                 *)
(***************************************************************************)

\* When a request has made its queries, each part of its answer is what a query
\* would have had at a moment since it began.
LEMMA PartWas ==
  ASSUME PartsInv, asked # None, asked.todo = {}, NEW q \in PlanOf(asked), NEW pk \in q.of
  PROVE  \E m \in during : Public!Part(asked, q.what, pk) = ValuesOf(q.what, pk, m[1], m[2])
BY DEF PartsInv, PartsWereTrue

\* The invariant: the rows of the queries made are those of a moment.
AnswersInv == TablesInv /\ PartsInv

LEMMA AnswersOfKinds ==
  ASSUME AnswersInv, asked # None, asked.todo = {}, NEW x \in asked.rows
  PROVE  LET was(what, pk) == \E m \in during : Public!Part(asked, what, pk) = ValuesOf(what, pk, m[1], m[2])
         IN /\ asked.kind = "routes" =>
                 /\ \A what \in {"maps", "headways", "alerts"} \ asked.skip : was(what, x.pk)
                 /\ was("agencies", x.agency)
            /\ asked.kind = "trips" => was("alerts", x.pk) /\ was("times", x.pk)
            /\ asked.kind = "agencies" => was("agencyAlerts", x.pk) /\ was("routes", x.pk)
            /\ asked.kind = "alerts" => was("periods", x.pk)
            /\ asked.kind = "transfers" => was("stops", x.from) /\ was("stops", x.to)
            /\ asked.kind = "systems" =>
                 \A what \in {"numAgencies", "numFeeds", "numRoutes", "numStops", "numTransfers"} : was(what, x.pk)
<1> DEFINE was(what, pk) == \E m \in during : Public!Part(asked, what, pk) = ValuesOf(what, pk, m[1], m[2])
<1>1. \A what, pks : Public!Ask(what, pks).what = what /\ Public!Ask(what, pks).of = pks
  BY DEF Public!Ask
<1>2. ASSUME NEW what, NEW pks, Public!Ask(what, pks) \in PlanOf(asked), NEW pk \in pks PROVE was(what, pk)
  <2> DEFINE q == Public!Ask(what, pks)
  <2>1. q.what = what /\ q.of = pks /\ q \in PlanOf(asked)
    BY <1>1, <1>2
  <2> HIDE DEF q
  <2>2. \E m \in during : Public!Part(asked, q.what, pk) = ValuesOf(q.what, pk, m[1], m[2])
    BY <2>1, PartWas DEF AnswersInv
  <2>3. QED
    BY <2>1, <2>2
<1> HIDE DEF was
<1>3. x.pk \in Public!Keys(asked.rows)
  BY DEF Public!Keys
<1>4. \A whats, pks : \A what \in whats, pk \in pks : Public!Ask(what, {pk}) \in Public!AskEach(whats, pks)
  <2> SUFFICES ASSUME NEW whats, NEW pks, NEW what \in whats, NEW pk \in pks
               PROVE  Public!Ask(what, {pk}) \in Public!AskEach(whats, pks)
    OBVIOUS
  <2>1. Public!Ask(what, {pk}) \in {Public!Ask(w, {pk}) : w \in whats}
    OBVIOUS
  <2>2. QED
    BY <2>1 DEF Public!AskEach
<1>5. ASSUME asked.kind = "routes"
      PROVE  (\A what \in {"maps", "headways", "alerts"} \ asked.skip : was(what, x.pk)) /\ was("agencies", x.agency)
  <2>1. /\ \A what \in {"maps", "headways", "alerts"} \ asked.skip :
             Public!Ask(what, Public!Keys(asked.rows)) \in PlanOf(asked)
        /\ Public!Ask("agencies", {y.agency : y \in asked.rows}) \in PlanOf(asked)
    BY <1>5 DEF PlanOf, Public!Plan, Public!PlanRoutes
  <2>2. x.agency \in {y.agency : y \in asked.rows}
    OBVIOUS
  <2>3. QED
    BY <1>2, <1>3, <2>1, <2>2
<1>6. ASSUME asked.kind = "trips" PROVE was("alerts", x.pk) /\ was("times", x.pk)
  <2>1. /\ Public!Ask("alerts", Public!Keys(asked.rows)) \in PlanOf(asked)
        /\ Public!Ask("times", {x.pk}) \in PlanOf(asked)
    BY <1>3, <1>4, <1>6 DEF PlanOf, Public!Plan, Public!PlanTrips
  <2>2. QED
    BY <1>2, <1>3, <2>1
<1>7. ASSUME asked.kind = "agencies" PROVE was("agencyAlerts", x.pk) /\ was("routes", x.pk)
  <2>1. Public!Ask("agencyAlerts", {x.pk}) \in PlanOf(asked) /\ Public!Ask("routes", {x.pk}) \in PlanOf(asked)
    BY <1>3, <1>4, <1>7 DEF PlanOf, Public!Plan, Public!PlanAgencies
  <2>2. QED
    BY <1>2, <2>1
<1>8. ASSUME asked.kind = "alerts" PROVE was("periods", x.pk)
  <2>1. Public!Ask("periods", Public!Keys(asked.rows)) \in PlanOf(asked)
    BY <1>8 DEF PlanOf, Public!Plan, Public!PlanAlerts
  <2>2. QED
    BY <1>2, <1>3, <2>1
<1>9. ASSUME asked.kind = "transfers" PROVE was("stops", x.from) /\ was("stops", x.to)
  <2>1. Public!Ask("stops", UNION {{y.from, y.to} : y \in asked.rows}) \in PlanOf(asked)
    BY <1>9 DEF PlanOf, Public!Plan, Public!PlanTransfers
  <2>2. {x.from, x.to} \subseteq UNION {{y.from, y.to} : y \in asked.rows}
    OBVIOUS
  <2>3. QED
    BY <1>2, <2>1, <2>2
<1>10. ASSUME asked.kind = "systems",
              NEW what \in {"numAgencies", "numFeeds", "numRoutes", "numStops", "numTransfers"}
       PROVE  was(what, x.pk)
  <2>1. Public!Ask(what, {x.pk}) \in PlanOf(asked)
    BY <1>3, <1>4, <1>10 DEF PlanOf, Public!Plan, Public!PlanSystems
  <2>2. QED
    BY <1>2, <2>1
<1>11. QED
  BY <1>5, <1>6, <1>7, <1>8, <1>9, <1>10 DEF was

LEMMA AnswersAreTrue == AnswersInv => AnswersWereTrue
<1> SUFFICES ASSUME AnswersInv, asked # None, asked.todo = {} PROVE AnswersWereTrue
  BY DEF AnswersWereTrue, Public!AnswersWereTrue, Public!Answering
<1> DEFINE part(what, y) == Public!Part(asked, what, y.pk)
           was(what, pk) == \E m \in during : Public!Part(asked, what, pk) = ValuesOf(what, pk, m[1], m[2])
           counts == {"numAgencies", "numFeeds", "numRoutes", "numStops", "numTransfers"}
<1>1. \A m \in during : Public!WellFormed(m[1]) /\ m[2] \in Nat
  BY DEF AnswersInv, TablesInv
<1>2. asked.kind \in Public!Kinds
  BY DEF AnswersInv, PartsInv, IsPublicRequest
<1>3. ASSUME NEW what, NEW pk, was(what, pk)
      PROVE  /\ what = "maps" => \E m \in during : Public!MapsTrue(Public!Part(asked, what, pk), pk, m[1])
             /\ what = "headways" => \E m \in during : Public!HeadwayTrue(Public!Part(asked, what, pk), pk, m[1], m[2])
             /\ what \in {"alerts", "agencyAlerts"} =>
                  \E m \in during : Public!AlertsTrue(Public!Part(asked, what, pk), pk, m[1], m[2])
             /\ what = "agencies" /\ Public!Part(asked, what, pk) = {} => \E m \in during : pk \notin m[1].agencies
             /\ what = "stops" /\ Public!Part(asked, what, pk) = {} => \E m \in during : pk \notin m[1].stops
             /\ what = "times" => \E m \in during :
                  Public!Part(asked, what, pk) = {<<y.seq, y.stop>> : y \in {z \in m[1].times : z.trip = pk}}
             /\ what = "routes" => \E m \in during :
                  Public!Part(asked, what, pk) = {y.pk : y \in {z \in m[1].routes : z.agency = pk}}
             /\ what = "periods" => \E m \in during :
                  {y[1] : y \in Public!Part(asked, what, pk)} = {p \in m[1].periods : p.alert = pk}
             /\ what \in counts => \E m \in during : Public!Part(asked, what, pk) = {Public!Counts(m[1])[what]}
  <2>1. PICK m \in during : Public!Part(asked, what, pk) = ValuesOf(what, pk, m[1], m[2])
    BY <1>3
  <2> DEFINE d == m[1]
             t == m[2]
  <2>2. Public!WellFormed(d) /\ t \in Nat
    BY <1>1
  <2> HIDE DEF d, t
  <2>3. Public!Part(asked, what, pk) = ValuesOf(what, pk, d, t)
    BY <2>1 DEF d, t
  <2>4. what = "maps" => Public!MapsTrue(Public!Part(asked, what, pk), pk, d)
    BY <2>2, <2>3, MapsAre
  <2>5. what = "headways" => Public!HeadwayTrue(Public!Part(asked, what, pk), pk, d, t)
    BY <2>2, <2>3, HeadwaysAre
  <2>6. what \in {"alerts", "agencyAlerts"} => Public!AlertsTrue(Public!Part(asked, what, pk), pk, d, t)
    BY <2>2, <2>3, AlertsAre
  <2>7. /\ what = "agencies" /\ Public!Part(asked, what, pk) = {} => pk \notin d.agencies
        /\ what = "stops" /\ Public!Part(asked, what, pk) = {} => pk \notin d.stops
    BY <2>3, FoundAre
  <2>8. what = "times" => Public!Part(asked, what, pk) = {<<y.seq, y.stop>> : y \in {z \in d.times : z.trip = pk}}
    BY <2>3, PartsAre
  <2>9. what = "routes" => Public!Part(asked, what, pk) = {y.pk : y \in {z \in d.routes : z.agency = pk}}
    BY <2>3, PartsAre
  <2>10. what = "periods" => {y[1] : y \in Public!Part(asked, what, pk)} = {p \in d.periods : p.alert = pk}
    BY <2>3, PartsAre
  <2>11. what \in counts => Public!Part(asked, what, pk) = {Public!Counts(d)[what]}
    BY <2>3, PartsAre
  <2>12. QED
    BY <2>4, <2>5, <2>6, <2>7, <2>8, <2>9, <2>10, <2>11, Zenon DEF d, t
<1>4. \A what, pk : Public!Reference(asked, what, pk) = None =>
        Public!Part(asked, what, pk) = {} \/ pk = None
  BY DEF Public!Reference
<1>5. /\ \E m \in during : TRUE
      /\ \A m \in during : None \notin m[1].agencies /\ None \notin m[1].stops
  BY <1>1 DEF AnswersInv, PartsInv, Public!WellFormed, Public!Pks
<1> HIDE DEF was, counts
<1>6. ASSUME NEW x \in asked.rows, asked.kind = "routes"
      PROVE  /\ Public!Asked("maps") => \E m \in during : Public!MapsTrue(part("maps", x), x.pk, m[1])
             /\ Public!Asked("headways") => \E m \in during : Public!HeadwayTrue(part("headways", x), x.pk, m[1], m[2])
             /\ Public!Asked("alerts") => \E m \in during : Public!AlertsTrue(part("alerts", x), x.pk, m[1], m[2])
             /\ Public!Reference(asked, "agencies", x.agency) = None =>
                  \E m \in during : x.agency \notin m[1].agencies
  <2>1. (\A what \in {"maps", "headways", "alerts"} \ asked.skip : was(what, x.pk)) /\ was("agencies", x.agency)
    BY <1>6, AnswersOfKinds DEF was
  <2>2. Public!Asked("maps") => \E m \in during : Public!MapsTrue(part("maps", x), x.pk, m[1])
    BY <1>3, <2>1 DEF Public!Asked
  <2>3. Public!Asked("headways") => \E m \in during : Public!HeadwayTrue(part("headways", x), x.pk, m[1], m[2])
    BY <1>3, <2>1 DEF Public!Asked
  <2>4. Public!Asked("alerts") => \E m \in during : Public!AlertsTrue(part("alerts", x), x.pk, m[1], m[2])
    BY <1>3, <2>1 DEF Public!Asked
  <2>5. Public!Reference(asked, "agencies", x.agency) = None => \E m \in during : x.agency \notin m[1].agencies
    BY <1>3, <1>4, <1>5, <2>1
  <2>6. QED
    BY <2>2, <2>3, <2>4, <2>5
<1>7. ASSUME NEW x \in asked.rows, asked.kind = "trips"
      PROVE  /\ \E m \in during : Public!AlertsTrue(part("alerts", x), x.pk, m[1], m[2])
             /\ \E m \in during : part("times", x) = {<<y.seq, y.stop>> : y \in {z \in m[1].times : z.trip = x.pk}}
  <2>1. was("alerts", x.pk) /\ was("times", x.pk)
    BY <1>7, AnswersOfKinds DEF was
  <2>2. \E m \in during : Public!AlertsTrue(part("alerts", x), x.pk, m[1], m[2])
    BY <1>3, <2>1
  <2>3. \E m \in during : part("times", x) = {<<y.seq, y.stop>> : y \in {z \in m[1].times : z.trip = x.pk}}
    BY <1>3, <2>1
  <2>4. QED
    BY <2>2, <2>3
<1>8. ASSUME NEW x \in asked.rows, asked.kind = "agencies"
      PROVE  /\ \E m \in during : Public!AlertsTrue(part("agencyAlerts", x), x.pk, m[1], m[2])
             /\ \E m \in during : part("routes", x) = {y.pk : y \in {z \in m[1].routes : z.agency = x.pk}}
  <2>1. was("agencyAlerts", x.pk) /\ was("routes", x.pk)
    BY <1>8, AnswersOfKinds DEF was
  <2>2. \E m \in during : Public!AlertsTrue(part("agencyAlerts", x), x.pk, m[1], m[2])
    BY <1>3, <2>1
  <2>3. \E m \in during : part("routes", x) = {y.pk : y \in {z \in m[1].routes : z.agency = x.pk}}
    BY <1>3, <2>1
  <2>4. QED
    BY <2>2, <2>3
<1>9. ASSUME NEW x \in asked.rows, asked.kind = "alerts"
      PROVE  \E m \in during : {y[1] : y \in part("periods", x)} = {p \in m[1].periods : p.alert = x.pk}
  <2>1. was("periods", x.pk)
    BY <1>9, AnswersOfKinds DEF was
  <2>2. QED
    BY <1>3, <2>1
<1>10. ASSUME NEW x \in asked.rows, asked.kind = "transfers"
       PROVE  \A s \in {x.from, x.to} :
                Public!Reference(asked, "stops", s) = None => \E m \in during : s \notin m[1].stops
  <2>1. was("stops", x.from) /\ was("stops", x.to)
    BY <1>10, AnswersOfKinds DEF was
  <2>2. QED
    BY <1>3, <1>4, <1>5, <2>1
<1>11. ASSUME NEW x \in asked.rows, asked.kind = "systems"
       PROVE  \A what \in DOMAIN Public!Counts(tables) : \E m \in during : part(what, x) = {Public!Counts(m[1])[what]}
  <2>1. DOMAIN Public!Counts(tables) = counts
    BY DEF Public!Counts, counts
  <2>2. \A what \in counts : was(what, x.pk)
    BY <1>11, AnswersOfKinds DEF was, counts
  <2>3. QED
    BY <1>3, <2>1, <2>2
<1> HIDE DEF part
<1>12. QED
  BY <1>2, <1>6, <1>7, <1>8, <1>9, <1>10, <1>11 DEF AnswersWereTrue, Public!AnswersWereTrue, Public!Kinds, part

\* Whatever commits between the queries of a request, its answer is made of parts
\* each of which was true at some moment since it began; the agency of a route or
\* a stop of a transfer is missing only if it was gone at such a moment (the
\* endpoints in route.go, trip.go, agency.go, alert.go, stop.go and system.go).
THEOREM AnswersWereTrueThen == Public!Spec => []AnswersWereTrue
<1>1. Public!Spec => []AnswersInv
  BY TablesHold, PartsHold, PTL DEF AnswersInv
<1>2. QED
  BY <1>1, AnswersAreTrue, PTL
=============================================================================
