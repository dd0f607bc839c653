--------------------------- MODULE MCRealtimeTrips ---------------------------
(* Instances of RealtimeTrips for TLC. *)
EXTENDS RealtimeTrips

CONSTANTS f1, f2, t1, t2, a, b, c, r1, r2

\* The trips have routes of their own.
MCRouteOf == (t1 :> r1) @@ (t2 :> r2)

\* Stop time updates for the stops of a path: their sequences are missing, are
\* the positions counted from a first one, all the same, or given once; and a
\* stop may be skipped.
Without(path) == [i \in DOMAIN path |-> [stop |-> path[i], seq |-> None, skipped |-> FALSE]]
From(n, path) == [i \in DOMAIN path |-> [Without(path)[i] EXCEPT !.seq = n + i]]
Same(n, path) == [i \in DOMAIN path |-> [Without(path)[i] EXCEPT !.seq = n]]
Skipping(k, stus) == [i \in DOMAIN stus |-> [stus[i] EXCEPT !.skipped = i = k]]

Only(k, stus) == [i \in DOMAIN stus |-> [stus[i] EXCEPT !.seq = IF i = k THEN @ ELSE None]]

\* A journey, its rest after a stop and after two, a change of its order, one
\* that comes back to its first stop, and the end of it; and one that skips
\* the first visit of a stop.
Paths == {<<a, b, c>>, <<b, c>>, <<c>>, <<b, a>>, <<a, b, a>>, <<>>}

Journeys ==
  {Skipping(2, Without(<<a, b, c, b>>))} \cup
  UNION {{Without(p), From(3 - Len(p), p), Same(1, p),
          Only(2, From(3 - Len(p), p)), Skipping(1, Without(p)), Skipping(2, From(3 - Len(p), p))} : p \in Paths}

Entity(t, stus) == [trip |-> t, cancelled |-> FALSE, stus |-> stus]
Cancelled(t) == [trip |-> t, cancelled |-> TRUE, stus |-> <<>>]

\* t1 is in the messages of both feeds, alone, or with t2, or twice.
MCMessages ==
  [f \in Feeds |->
     IF f = f1
     THEN {<<Entity(t1, j)>> : j \in Journeys}
            \cup {<<Cancelled(t1)>>, <<Entity(None, <<>>)>>,
                  <<Entity(t2, Without(<<a>>)), Entity(t1, Without(<<b, c>>)),
                    Entity(t1, Without(<<a, c>>))>>}
     ELSE {<<Entity(t1, From(0, <<a, b, c>>))>>, <<Entity(t1, From(1, <<c, b>>))>>,
           <<>>}]
=============================================================================
