---------------------------- MODULE MCPublicApi ------------------------------
(***************************************************************************)
(* An instance of StopRequests and PublicRequests for TLC.  Requests only  *)
(* read, so those for stops and the others are looked at one kind at a     *)
(* time: in a behavior, either has no steps.                               *)
(***************************************************************************)
EXTENDS PublicApi

\* Primary keys are strings.  Stop 1 is a platform of station 2, and stop 3 is
\* on its own.  Trip t runs from 1 to 3.
Base ==
  [stops |-> {[pk |-> "x", id |-> 1, parent |-> "y"], [pk |-> "y", id |-> 2, parent |-> None],
              [pk |-> "z", id |-> 3, parent |-> None]},
   routes |-> {"r"}, configs |-> {"all"}, transfers |-> {<<"x", "z">>},
   maps |-> {[config |-> "all", route |-> "r", stop |-> "y"], [config |-> "all", route |-> "r", stop |-> "z"]},
   alerts |-> {[id |-> "a", stop |-> "x"]}, rules |-> {[id |-> "h", stop |-> "x"]},
   times |-> {[trip |-> "t", route |-> "r", seq |-> 1, stop |-> "x", past |-> FALSE],
              [trip |-> "t", route |-> "r", seq |-> 2, stop |-> "z", past |-> FALSE]}]

\* A realtime update: trip t is gone, trip u has left 3 for 1.
Later ==
  [Base EXCEPT !.alerts = {[id |-> "b", stop |-> "z"]},
     !.times = {[trip |-> "u", route |-> "r", seq |-> 1, stop |-> "z", past |-> TRUE],
                [trip |-> "u", route |-> "r", seq |-> 2, stop |-> "x", past |-> FALSE]}]

\* A new platform, with a route and a configuration.
Grown ==
  [Base EXCEPT !.stops = @ \cup {[pk |-> "w", id |-> 4, parent |-> "y"]},
     !.routes = @ \cup {"s"}, !.configs = @ \cup {"new"}, !.transfers = @ \cup {<<"w", "x">>},
     !.maps = @ \cup {[config |-> "new", route |-> "s", stop |-> "y"]},
     !.times = @ \cup {[trip |-> "v", route |-> "s", seq |-> 1, stop |-> "w", past |-> FALSE]}]

\* Stop 1 and the route are gone; stop 1 is back, on its own.
Shrunk ==
  [Base EXCEPT !.stops = {s \in @ : s.id # 1}, !.routes = {}, !.transfers = {}, !.maps = {},
     !.alerts = {}, !.rules = {}, !.times = {}]
Back == [Shrunk EXCEPT !.stops = @ \cup {[pk |-> "x2", id |-> 1, parent |-> None]}]

MCDatabases == {Base, Later, Grown, Shrunk, Back}
-----------------------------------------------------------------------------
Time(trip, seq, stop, arrival) ==
  [trip |-> trip, seq |-> seq, stop |-> stop, arrival |-> arrival, past |-> FALSE]
Period(alert, starts, ends) == [alert |-> alert, starts |-> starts, ends |-> ends]
Route(pk, agency) == [pk |-> pk, agency |-> agency]
Trip(pk, id, route) == [pk |-> pk, id |-> id, route |-> route]

\* Two trips of route r, with three arrivals at stop y: gaps of 3 and 0.  Alert
\* a informs of the route and a trip and has two periods, which overlap.
PublicBase ==
  [agencies |-> {"g", "i"}, feeds |-> {"f"}, routes |-> {Route("r", "g"), Route("s", "g")},
   stops |-> {"x", "y"}, configs |-> {"all"},
   transfers |-> {[pk |-> "xy", from |-> "x", to |-> "y"]},
   trips |-> {Trip("t", 1, "r"), Trip("u", 2, "r")},
   times |-> {Time("t", 1, "x", 0), Time("t", 2, "y", 1), Time("u", 1, "y", 4), Time("u", 2, "y", 4),
              Time("u", 3, "x", None)},
   maps |-> {[route |-> "r", config |-> "all", stops |-> <<"x", "y">>]},
   alerts |-> {"a", "b"}, links |-> {<<"a", "r">>, <<"a", "t">>, <<"b", "g">>},
   periods |-> {Period("a", 0, 2), Period("a", 1, None), Period("b", None, 1)},
   vehicles |-> {[id |-> "v", trip |-> "t"], [id |-> "w", trip |-> None]},
   scheduled |-> {[route |-> "r", id |-> 1, shape |-> "p"], [route |-> "s", id |-> 1, shape |-> None]}]

\* A realtime update: trip t is gone but for the key that vehicle v keeps, u has
\* moved on, and another alert informs of it.
PublicLater ==
  [PublicBase EXCEPT !.trips = {Trip("u", 2, "r")},
     !.times = {[Time("u", 1, "y", 0) EXCEPT !.past = TRUE], Time("u", 2, "y", 3), Time("u", 3, "x", None)},
     !.alerts = {"a", "c"}, !.links = {<<"a", "r">>, <<"c", "u">>},
     !.periods = {Period("a", 0, 2), Period("a", 1, None), Period("c", 1, None)},
     !.vehicles = {[id |-> "v", trip |-> "t"], [id |-> "w", trip |-> "u"]}]

\* A static update: another agency, a new configuration, and two shapes.
PublicMoved ==
  [PublicBase EXCEPT !.agencies = {"h"}, !.routes = {Route("r", "h"), Route("s", "h")},
     !.configs = {"all", "new"}, !.links = {<<"a", "r">>},
     !.maps = @ \cup {[route |-> "s", config |-> "new", stops |-> <<"y">>]},
     !.scheduled = {[route |-> "r", id |-> 1, shape |-> "p"], [route |-> "s", id |-> 1, shape |-> "q"]}]

\* Another one: route s and stop x are gone.
PublicShrunk ==
  [PublicLater EXCEPT !.routes = {Route("r", "g")}, !.stops = {"y"}, !.transfers = {},
     !.times = {z \in @ : z.stop = "y"},
     !.maps = {[route |-> "r", config |-> "all", stops |-> <<"y">>]},
     !.scheduled = {z \in @ : z.route = "r"}]

PublicDatabases == {PublicBase, PublicLater, PublicMoved, PublicShrunk}

VARIABLE kind    \* the requests of this behavior
public == <<tables, deleted, now, asked, during>>
all == <<vars, public, kind>>

ApiInit ==
  /\ kind \in {"stops", "public"}
  /\ Init /\ Public!Init
  /\ kind = "stops" => tables = PublicBase
  /\ kind = "public" => db = Base

ApiNext ==
  \/ kind = "stops" /\ Next /\ UNCHANGED <<public, kind>>
  \/ kind = "public" /\ Public!Next /\ UNCHANGED <<vars, kind>>

ApiSpec == ApiInit /\ [][ApiNext]_all
=============================================================================
