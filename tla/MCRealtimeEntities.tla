------------------------- MODULE MCRealtimeEntities --------------------------
(* Instances of RealtimeEntities for TLC. *)
EXTENDS RealtimeEntities

CONSTANTS f1, f2, t1, t2, t3, a1, a2, c1, c2, v1, v2, v3

Alert(a, c) == [id |-> a, content |-> c]
Vehicle(v, t) == [id |-> v, trip |-> t]
Msg(ts, as, vs) == [trips |-> ts, alerts |-> as, vehicles |-> vs]

MCInforms == [c \in Contents |-> IF c = c1 THEN {t1, t3} ELSE {t2}]

\* Feed f1: two vehicles on two trips, the exchange of their trips, a chain of
\* exchanges, duplicates, a trip that is gone, and no vehicles.  Feed f2: a trip
\* of its own with a vehicle of f1 or with its own, an alert of f1 or another
\* one, and a vehicle on a trip of f1.
MCMessages ==
  [f \in Feeds |->
     IF f = f1
     THEN {Msg({t1, t2}, <<Alert(a1, c1)>>, <<Vehicle(v1, t1), Vehicle(v2, t2)>>),
           Msg({t1, t2}, <<Alert(a1, c2)>>, <<Vehicle(v1, t2), Vehicle(v2, t1)>>),
           Msg({t1, t2}, <<Alert(a1, c1), Alert(a1, c2)>>,
               <<Vehicle(v2, t1), Vehicle(v1, t1), Vehicle(v2, t2)>>),
           Msg({t2}, <<Alert(a2, c2)>>, <<Vehicle(v1, t2), Vehicle(None, t1), Vehicle(v2, t1)>>),
           Msg({t1}, <<>>, <<Vehicle(v1, None), Vehicle(v2, t1)>>),
           Msg({}, <<>>, <<>>)}
     ELSE {Msg({t3}, <<Alert(a1, c1)>>, <<Vehicle(v1, t3)>>),
           Msg({t3}, <<Alert(a1, c2), Alert(a2, c1)>>, <<Vehicle(v3, t3)>>),
           Msg({}, <<>>, <<Vehicle(v3, t1)>>)}]
=============================================================================
