-------------------------- MODULE AbstractScheduler --------------------------
(***************************************************************************)
(* What the scheduler promises to the rest of Transiter, without its       *)
(* goroutines: a set of feeds is scheduled, updates of scheduled feeds     *)
(* start and finish, and                                                   *)
(*                                                                         *)
(*   - for each feed only one update is happening at a time (the guarantee *)
(*     of the package comment of internal/scheduler/scheduler.go);         *)
(*   - a feed is taken off the schedule only when no update of it is       *)
(*     happening, so whoever asked for the change knows that the old       *)
(*     configuration is no longer in use;                                  *)
(*   - once the scheduler is closed nothing is scheduled or updated again. *)
(*                                                                         *)
(* The module Scheduler implements this specification.                     *)
(***************************************************************************)
CONSTANT Feeds

VARIABLES scheduled,   \* the feeds for which updates may be started
          inProgress,  \* the feeds of which an update is happening
          closed       \* Run has returned

vars == <<scheduled, inProgress, closed>>

Init ==
  /\ scheduled = {}
  /\ inProgress = {}
  /\ closed = FALSE

Schedule(S) ==
  /\ ~closed
  /\ inProgress \subseteq S
  /\ scheduled' = S
  /\ UNCHANGED <<inProgress, closed>>

StartUpdate(f) ==
  /\ f \in scheduled \ inProgress
  /\ inProgress' = inProgress \cup {f}
  /\ UNCHANGED <<scheduled, closed>>

FinishUpdate(f) ==
  /\ f \in inProgress
  /\ inProgress' = inProgress \ {f}
  /\ UNCHANGED <<scheduled, closed>>

Close ==
  /\ scheduled = {}
  /\ closed' = TRUE
  /\ UNCHANGED <<scheduled, inProgress>>

Next ==
  \/ \E S \in SUBSET Feeds : Schedule(S)
  \/ \E f \in Feeds : StartUpdate(f) \/ FinishUpdate(f)
  \/ Close

Spec == Init /\ [][Next]_vars
=============================================================================
