---------------------------- MODULE MCServiceMaps ----------------------------
(* Instances of ServiceMaps for TLC. *)
EXTENDS ServiceMaps

CONSTANTS r1, r2

Static(id, threshold, days) ==
  [id |-> id, source |-> "static", threshold |-> threshold, days |-> days,
   starts |-> IF days = {} THEN 0..24 ELSE 7..24, ends |-> IF days = {} THEN 0..24 ELSE 0..19]
Realtime(id) ==
  [id |-> id, source |-> "realtime", threshold |-> 0, days |-> {}, starts |-> {}, ends |-> {}]

MCDefaults == {Static("alltimes", 10, {}), Static("weekday", 10, {"monday"}), Realtime("realtime")}
\* The defaults, or others, which take an ID of theirs for another source and
\* leave one out.
MCConfigs ==
  {{}, {Static("alltimes", 60, {}), Realtime("weekday")}}

Scheduled(n, r, direction, days, start, stops) ==
  [n |-> n, route |-> r, direction |-> direction, days |-> days, start |-> start,
   end |-> start + 1, stops |-> stops]

\* Stop 4 is a platform of stop 2.  Route r1 has a branch that few trips take
\* and that has none on Mondays, and r2 a night trip and one without direction;
\* then r1 runs in a circle, and 4 is a station of its own.
Platform == [s \in Stops |-> IF s = 4 THEN 2 ELSE None]
Separate == [s \in Stops |-> None]
MCFiles ==
  {[trips |-> {Scheduled(1, r1, TRUE, {"monday"}, 8, <<1, 2, 3>>),
               Scheduled(2, r1, FALSE, {"monday"}, 9, <<3, 4, 1>>),
               Scheduled(3, r1, TRUE, {"sunday"}, 10, <<1, 4, 5>>),
               Scheduled(4, r2, TRUE, {"monday"}, 1, <<5, 1>>),
               Scheduled(5, r2, None, {"monday"}, 8, <<1, 5>>)},
    parent |-> Platform, stations |-> {2}],
   [trips |-> {Scheduled(1, r1, TRUE, {"monday"}, 8, <<1, 2, 3>>),
               Scheduled(2, r1, TRUE, {"sunday"}, 9, <<3, 4, 1>>),
               Scheduled(3, r1, TRUE, {"sunday"}, 9, <<2, 1>>),
               Scheduled(4, r2, FALSE, {"monday"}, 8, <<5, 3, 1>>)},
    parent |-> Separate, stations |-> {2}]}

Live(id, r, direction, stops) == [id |-> id, route |-> r, direction |-> direction, stops |-> stops]

\* Two trips on r1: in opposite directions, at the end of the line, in a circle,
\* or gone; and a trip on r2.
MCTimetables ==
  {{},
   {Live("a", r1, TRUE, <<1, 2, 3>>), Live("b", r1, FALSE, <<5, 4, 1>>)},
   {Live("a", r1, TRUE, <<2, 3>>), Live("b", r1, FALSE, <<5, 4, 1>>)},
   {Live("a", r1, TRUE, <<>>), Live("b", r1, FALSE, <<4, 1>>)},
   {Live("a", r1, TRUE, <<1, 2, 3>>), Live("b", r1, TRUE, <<3, 1>>)},
   {Live("b", r1, FALSE, <<5, 4, 1>>), Live("c", r2, None, <<1, 3>>)},
   {Live("c", r2, TRUE, <<5, 3>>), Live("d", r2, FALSE, <<4, 2, 5>>)}}
=============================================================================
