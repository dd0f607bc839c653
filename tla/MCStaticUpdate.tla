--------------------------- MODULE MCStaticUpdate ----------------------------
(* Instances of StaticUpdate for TLC. *)
EXTENDS StaticUpdate

CONSTANTS s1, s2, c1, a1, a2, r1, r2, x, y, z, v1, v2, h1, h2, t1, t2

Refs(ids) == {[id |-> i, ref |-> None] : i \in ids}
Ref(i, to) == [id |-> i, ref |-> to]
Trip(t, r, v, h, times) == [id |-> t, route |-> r, service |-> v, shape |-> h, times |-> times]

NoRows == [agencies |-> {}, routes |-> {}, stops |-> {}, services |-> {}, shapes |-> {},
           transfers |-> {}, trips |-> {}]

\* A schedule; one with a new agency for the route, which leaves its station
\* out; and one without the old agency.
Schedule ==
  [agencies |-> Refs({a1}), routes |-> {Ref(r1, a1)}, stops |-> {Ref(x, y), Ref(y, None)},
   services |-> Refs({v1}), shapes |-> Refs({h1}), transfers |-> {<<x, y>>},
   trips |-> {Trip(t1, r1, v1, h1, {<<1, x>>, <<2, y>>})}]
NewAgency ==
  [Schedule EXCEPT !.agencies = Refs({a1, a2}), !.routes = {Ref(r1, a2)},
                   !.stops = Refs({x}), !.transfers = {},
                   !.trips = {Trip(t1, r1, v1, None, {<<1, x>>})}]
OnlyNewAgency == [NewAgency EXCEPT !.agencies = Refs({a2})]

\* Another feed with a route of its own: it shares the agency, a stop and a
\* trip ID; or the stops and a transfer, the service and the shape; or the
\* route and a trip.
SharedAgency ==
  [NoRows EXCEPT !.agencies = Refs({a1}), !.routes = {Ref(r2, a1)}, !.stops = Refs({x, z}),
                 !.services = Refs({v2}), !.shapes = Refs({h2}),
                 !.trips = {Trip(t1, r2, v2, None, {<<2, x>>}), Trip(t2, r2, v2, h2, {<<1, z>>})}]
SharedStops ==
  [NoRows EXCEPT !.agencies = Refs({a2}), !.routes = {Ref(r2, a2)},
                 !.stops = {Ref(x, y), Ref(y, None), Ref(z, y)}, !.transfers = {<<x, y>>},
                 !.services = Refs({v1}), !.shapes = Refs({h1}),
                 !.trips = {Trip(t2, r2, v1, h1, {<<1, z>>, <<2, y>>})}]
SharedRoute ==
  [NoRows EXCEPT !.agencies = Refs({a2}), !.routes = {Ref(r1, a2)}, !.stops = Refs({z}),
                 !.services = Refs({v2}), !.trips = {Trip(t1, r1, v2, None, {<<1, z>>})}]

MCFiles ==
  [f \in Feeds |->
     IF f = s1 THEN {Schedule, NewAgency, OnlyNewAgency, NoRows}
     ELSE IF f = s2 THEN {SharedAgency, SharedStops, SharedRoute}
     ELSE {[rules |-> {x, y}, boarding |-> {x}], [rules |-> {x}, boarding |-> {x, y, z}]}]
=============================================================================
