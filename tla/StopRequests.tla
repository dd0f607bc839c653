---------------------------- MODULE StopRequests -----------------------------
(***************************************************************************)
(* Requests for stops to the public API: ListStops, page after page, and   *)
(* GetStop (internal/public/endpoints/stop.go).  A request reads in one    *)
(* transaction (run in public.go), but the isolation level is the default  *)
(* one, read committed: each of its queries sees what is committed when it *)
(* starts, and updates of feeds commit in between.                         *)
(*                                                                         *)
(* An answer is without the stops' texts and positions.  A list is a set:  *)
(* maps in Go have no order.  The search by distance, which has no pages,  *)
(* and the filter by type, which is like the one by ID, are left out.      *)
(***************************************************************************)
EXTENDS Integers, SequencesExt

CONSTANTS Databases,   \* what may be committed
          IDs,         \* IDs of stops, in order
          Limits,      \* limits of a page
          Filters,     \* sets of IDs a client may ask for
          Skips,       \* what a request may leave out
          None         \* no parent, no reference, no next page, no request

(***************************************************************************)
(* Stops have a primary key, an ID and a parent.  A transfer is a pair of  *)
(* stops, and a map row has a configuration, a route and a stop.  A stop   *)
(* time has a trip, its route, a sequence, a stop, and may be past.        *)
(***************************************************************************)
StopPks(d) == {s.pk : s \in d.stops}
Pks(d) == StopPks(d) \cup d.routes

WellFormed(d) ==
  /\ IsFiniteSet(d.stops) /\ IsFiniteSet(d.times) /\ None \notin Pks(d)
  /\ \A s, t \in d.stops : s.pk = t.pk \/ s.id = t.id => s = t
  /\ \A s \in d.stops : s.id \in IDs /\ s.parent \in StopPks(d) \cup {None}
  /\ \A x \in d.transfers : {x[1], x[2]} \subseteq StopPks(d)
  /\ \A m \in d.maps : m.config \in d.configs /\ m.route \in d.routes /\ m.stop \in StopPks(d)
  /\ \A x \in d.alerts \cup d.rules : x.stop \in StopPks(d)
  /\ \A t, u \in d.times :
       /\ t.route \in d.routes /\ t.stop \in StopPks(d) /\ t.seq \in Nat
       /\ t.trip = u.trip => t.route = u.route /\ (t.seq = u.seq => t = u)

ASSUME DatabasesAssumption == \A d \in Databases : WellFormed(d)
ASSUME LimitsAssumption == Limits \subseteq Nat \ {0} /\ IDs \subseteq Nat \ {0}
ASSUME SkipsAssumption == Skips \subseteq SUBSET {"transfers", "alerts", "times", "maps"}

\* What a client knows of its listing: the limit of a page and the stops it
\* wants, the first ID of the next page, the IDs on each page so far, those of
\* the stops that are there all along, and whether that was the last page.
Listings == [limit : Limits, wanted : Filters, first : Nat, listed : Seq(SUBSET Nat),
             there : SUBSET Nat, done : BOOLEAN]

ASSUME NoneAssumption == None \notin Nat \cup Listings

VARIABLES
  db,       \* the committed tables
  gone,     \* primary keys of what was deleted: they do not come back
  request,  \* the request in progress, or None
  listing,  \* the client's listing of all stops
  changed   \* history: "no", or what was committed since the request began:
            \* only "additions", or "more"

vars == <<db, gone, request, listing, changed>>

Init ==
  /\ db \in Databases
  /\ gone = {}
  /\ request = None
  /\ listing = None
  /\ changed = "no"
-----------------------------------------------------------------------------
(* The queries of getRawStopData, given the rows of those before.          *)

\* MapStopPkToDescendentPks: a stop, its children, their children, and so on.
Below(d, pk) ==
  {q \in StopPks(d) : \A S \in SUBSET StopPks(d) :
     pk \in S /\ (\A s \in d.stops : s.parent \in S => s.pk \in S) => q \in S}

PageOf(r) == {s.pk : s \in r.page}
Roots(r) == {s.pk : s \in {t \in r.page : t.parent = None}}
Descendents(r) == {x[2] : x \in r.rows.descendents}

\* allStops: the stops that the answer refers to.
StopsReferredTo(r) ==
  Descendents(r) \cup {x[2] : x \in r.rows.transfers} \cup {x[2] : x \in r.rows.destinations}
    \cup ({s.parent : s \in r.page} \ {None})

RoutesReferredTo(r) == {m.route : m \in r.rows.maps} \cup {t.route : t \in r.rows.times}

LastTimes(d, trips) ==
  {t \in d.times : t.trip \in trips /\ \A u \in d.times : u.trip = t.trip => u.seq <= t.seq}

Rows(query, d, r) ==
  CASE query = "children"     -> {<<s.parent, s.pk>> : s \in {t \in d.stops : t.parent \in PageOf(r)}}
    [] query = "descendents"  -> UNION {{pk} \X Below(d, pk) : pk \in PageOf(r) \cap StopPks(d)}
    [] query = "transfers"    -> {x \in d.transfers : x[1] \in Descendents(r)}
    [] query = "alerts"       -> {x \in d.alerts : x.stop \in Descendents(r)}
    [] query = "times"        -> {t \in d.times : t.stop \in Descendents(r) /\ ~t.past}
    [] query = "destinations" -> {<<t.trip, t.stop>> : t \in LastTimes(d, {u.trip : u \in r.rows.times})}
    [] query = "maps"         -> {m \in d.maps : m.stop \in Roots(r)}
    [] query = "configs"      -> (Roots(r) \cap StopPks(d)) \X d.configs
    [] query = "rules"        -> {x \in d.rules : x.stop \in Descendents(r)}
    [] query = "stops"        -> {<<s.pk, s.id>> : s \in {t \in d.stops : t.pk \in StopsReferredTo(r)}}
    [] query = "routes"       -> d.routes \cap RoutesReferredTo(r)

\* Mutant of Queries: the children come after the descendents.
DescendentsFirst ==
  <<"descendents", "children", "transfers", "alerts", "times", "destinations",
    "maps", "configs", "rules", "stops", "routes">>

Queries ==
  <<"children", "descendents", "transfers", "alerts", "times", "destinations",
    "maps", "configs", "rules", "stops", "routes">>

NoRows == [q \in ToSet(Queries) |-> {}]

\* The queries of a request that leaves some of the data out.
QueriesWithout(skip) ==
  ToSet(Queries) \ (skip \cup (IF "times" \in skip THEN {"destinations"} ELSE {})
                         \cup (IF "maps" \in skip THEN {"configs"} ELSE {}))

\* They are made in order.
IsNext(query, todo) ==
  \E i \in DOMAIN Queries :
    query = Queries[i] /\ query \in todo /\ \A j \in 1..(i - 1) : Queries[j] \notin todo
-----------------------------------------------------------------------------
(* buildStopsResponse: the answer, from the rows.  A reference to a row    *)
(* that was not found is nil (None).                                       *)

StopRef(r, pk) ==
  IF \E x \in r.rows.stops : x[1] = pk THEN (CHOOSE x \in r.rows.stops : x[1] = pk)[2] ELSE None
RouteRef(r, pk) == IF pk \in r.rows.routes THEN pk ELSE None
Destination(r, trip) ==
  IF \E x \in r.rows.destinations : x[1] = trip
  THEN StopRef(r, (CHOOSE x \in r.rows.destinations : x[1] = trip)[2]) ELSE None

\* Mutant of Lifted: a stop has only what is its own.
Own(r, s, pk) == s.pk = pk

\* liftToAncestors: a stop has what its descendents have.
Lifted(r, s, pk) == <<s.pk, pk>> \in r.rows.descendents

\* The configurations of the maps of a stop.
ConfigsOf(r, s) ==
  {x[2] : x \in {y \in r.rows.configs : y[1] = s.pk}}
    \cup {m.config : m \in {n \in r.rows.maps : n.stop = s.pk}}

StopAnswer(r, s) ==
  [id |-> s.id,
   parent |-> StopRef(r, s.parent),
   children |-> {StopRef(r, x[2]) : x \in {y \in r.rows.children : y[1] = s.pk}},
   transfers |-> {<<StopRef(r, x[1]), StopRef(r, x[2])>> :
                    x \in {y \in r.rows.transfers : Lifted(r, s, y[1])}},
   alerts |-> {x.id : x \in {y \in r.rows.alerts : Lifted(r, s, y.stop)}},
   times |-> {[trip |-> t.trip, route |-> RouteRef(r, t.route), stop |-> StopRef(r, t.stop),
               destination |-> Destination(r, t.trip)] :
                t \in {u \in r.rows.times : Lifted(r, s, u.stop)}},
   maps |-> {[config |-> c, routes |-> {RouteRef(r, m.route) :
                m \in {n \in r.rows.maps : n.stop = s.pk /\ n.config = c}}] : c \in ConfigsOf(r, s)},
   rules |-> {<<x.id, StopRef(r, x.stop)>> : x \in {y \in r.rows.rules : Lifted(r, s, y.stop)}}]

\* What makes it panic: the row of a map whose stop has no configuration
\* (assignment to a nil map), or a stop time whose route was not found (its
\* system is dereferenced).
Panics(r) ==
  \/ \E m \in r.rows.maps : \A x \in r.rows.configs : x[1] # m.stop
  \/ \E t \in r.rows.times : t.route \notin r.rows.routes
-----------------------------------------------------------------------------
NewRequest(page, next, skip, list) ==
  [page |-> page, next |-> next, skip |-> skip, list |-> list,
   todo |-> QueriesWithout(skip), rows |-> NoRows]

\* GetStop of a stop that is there; of another it fails.
GetStop(id, skip) ==
  /\ request = None /\ listing = None
  /\ \E s \in db.stops : s.id = id /\ request' = NewRequest({s}, None, skip, FALSE)
  /\ changed' = "no"
  /\ UNCHANGED <<db, gone, listing>>

\* A client starts to list the stops it wants: all, or those with some IDs.
StartListing(limit, wanted) ==
  /\ request = None /\ listing = None
  /\ listing' = [limit |-> limit, wanted |-> wanted, first |-> 0, listed |-> <<>>,
                 there |-> {s.id : s \in db.stops} \cap wanted, done |-> FALSE]
  /\ UNCHANGED <<db, gone, request, changed>>

\* How many come before.
Rank(ids, i) == Cardinality({j \in ids : j < i})

\* Mutant of NextPage: the first stop of the next page is left on this one.
NextPageRepeats(ids, limit) ==
  [ids |-> {i \in ids : Rank(ids, i) <= limit},
   next |-> IF \E i \in ids : Rank(ids, i) = limit THEN CHOOSE i \in ids : Rank(ids, i) = limit ELSE None]

\* The IDs of a page and the first ID of the next one: in order, one more than
\* the limit is queried.
NextPage(ids, limit) ==
  [ids |-> {i \in ids : Rank(ids, i) < limit},
   next |-> IF \E i \in ids : Rank(ids, i) = limit THEN CHOOSE i \in ids : Rank(ids, i) = limit ELSE None]

\* ListStops, the first query: the page.
ListStops(skip) ==
  /\ request = None /\ listing # None /\ ~listing.done
  /\ LET ids == {s.id : s \in db.stops} \cap listing.wanted
         page == NextPage({i \in ids : i >= listing.first}, listing.limit)
     IN request' = NewRequest({s \in db.stops : s.id \in page.ids}, page.next, skip, TRUE)
  /\ changed' = "no"
  /\ UNCHANGED <<db, gone, listing>>

\* Each of the other queries.
Query ==
  /\ request # None
  /\ \E query \in request.todo :
       /\ IsNext(query, request.todo)
       /\ request' = [request EXCEPT !.todo = @ \ {query}, !.rows = [@ EXCEPT ![query] = Rows(query, db, request)]]
  /\ UNCHANGED <<db, gone, listing, changed>>

\* The answer.  The client goes on with the next page.
Answer ==
  /\ request # None /\ request.todo = {} /\ ~Panics(request)
  /\ request' = None
  /\ listing' = IF request.list
                THEN [listing EXCEPT
                        !.listed = Append(@, {s.id : s \in request.page}),
                        !.first = IF request.next = None THEN @ ELSE request.next,
                        !.done = request.next = None]
                ELSE listing
  /\ UNCHANGED <<db, gone, changed>>

\* The request panics, or a query fails.  The client may ask for the page again.
Fail ==
  /\ request # None
  /\ request' = None
  /\ UNCHANGED <<db, gone, listing, changed>>

FinishListing ==
  /\ request = None /\ listing # None /\ listing.done
  /\ listing' = None
  /\ UNCHANGED <<db, gone, request, changed>>

\* Stops keep their parents, and no stop, route or configuration is deleted.
OnlyAdds(d, e) ==
  /\ d.stops \subseteq e.stops /\ d.routes \subseteq e.routes /\ d.configs \subseteq e.configs

\* An update commits.
Commit(d) ==
  /\ d # db /\ Pks(d) \cap gone = {}
  /\ db' = d
  /\ gone' = gone \cup (Pks(db) \ Pks(d))
  /\ listing' = IF listing = None \/ listing.done THEN listing
                ELSE [listing EXCEPT !.there = @ \cap {s.id : s \in d.stops}]
  /\ changed' = IF request = None THEN changed
                ELSE IF changed # "more" /\ OnlyAdds(db, d) THEN "additions" ELSE "more"
  /\ UNCHANGED request

Next ==
  \/ \E id \in IDs, skip \in Skips : GetStop(id, skip)
  \/ \E limit \in Limits, wanted \in Filters : StartListing(limit, wanted)
  \/ \E skip \in Skips : ListStops(skip)
  \/ Query \/ Answer \/ Fail
  \/ FinishListing
  \/ \E d \in Databases : Commit(d)

Spec == Init /\ [][Next]_vars
-----------------------------------------------------------------------------
(* Properties. *)

Answering == request # None /\ request.todo = {}

IdOf(d, pk) == (CHOOSE t \in d.stops : t.pk = pk).id

LastOf(d, trip) ==
  CHOOSE t \in d.times : t.trip = trip /\ \A u \in d.times : u.trip = trip => u.seq <= t.seq

\* The answer that the tables call for, without what the request leaves out.
Expected(d, s, skip) ==
  LET below == Below(d, s.pk)
      answer ==
     [id |-> s.id,
      parent |-> IF s.parent = None THEN None ELSE IdOf(d, s.parent),
      children |-> {t.id : t \in {u \in d.stops : u.parent = s.pk}},
      transfers |-> {<<IdOf(d, x[1]), IdOf(d, x[2])>> : x \in {y \in d.transfers : y[1] \in below}},
      alerts |-> {x.id : x \in {y \in d.alerts : y.stop \in below}},
      times |-> {[trip |-> t.trip, route |-> t.route, stop |-> IdOf(d, t.stop),
                  destination |-> IdOf(d, LastOf(d, t.trip).stop)] :
                   t \in {u \in d.times : u.stop \in below /\ ~u.past}},
      maps |-> IF s.parent # None THEN {}
               ELSE {[config |-> c, routes |-> {m.route : m \in {n \in d.maps :
                        n.config = c /\ n.stop = s.pk}}] : c \in d.configs},
      rules |-> {<<x.id, IdOf(d, x.stop)>> : x \in {y \in d.rules : y.stop \in below}}]
  IN [field \in DOMAIN answer |-> IF field \in skip THEN {} ELSE answer[field]]

\* A request during which nothing is committed answers what the tables say.
AnswersAreCurrent ==
  Answering /\ changed = "no" =>
    /\ ~Panics(request)
    /\ \A s \in request.page : StopAnswer(request, s) = Expected(db, s, request.skip)

\* Additions of stops, routes and maps, and all realtime updates, take nothing
\* from an answer but the destination of a trip that is gone: whatever commits
\* between its queries, every other reference is found, and it does not panic.
ReferencesAreFound ==
  Answering /\ changed # "more" =>
    /\ ~Panics(request)
    /\ \A s \in request.page :
         LET answer == StopAnswer(request, s)
         IN /\ s.parent # None => answer.parent # None
            /\ None \notin answer.children
            /\ \A x \in answer.transfers : None \notin {x[1], x[2]}
            /\ \A t \in answer.times : None \notin {t.route, t.stop}
            /\ \A m \in answer.maps : None \notin m.routes
            /\ \A x \in answer.rules : x[2] # None

\* The pages are in order and list no stop twice, and a stop that is there all
\* along is on one of them, whatever is inserted and deleted in the meantime.
PagesAreComplete ==
  listing # None =>
    /\ \A i, j \in DOMAIN listing.listed : i < j =>
         \A x \in listing.listed[i], y \in listing.listed[j] : x < y
    /\ listing.done => listing.there \subseteq UNION ToSet(listing.listed)
=============================================================================
