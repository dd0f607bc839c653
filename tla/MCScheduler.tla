----------------------------- MODULE MCScheduler -----------------------------
(* Instances of Scheduler for TLC. *)
EXTENDS Scheduler, TLC

CONSTANTS s1, s2, f1, f2, f3

\* Two systems with one feed each.
MCOwner2 == (f1 :> s1) @@ (f2 :> s2)

\* One system with two feeds.
MCOwnerOne == (f1 :> s1) @@ (f2 :> s1)
=============================================================================
