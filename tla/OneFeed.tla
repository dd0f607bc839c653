------------------------------- MODULE OneFeed -------------------------------
(***************************************************************************)
(* FeedScheduler under names that Scheduler does not have, so that a       *)
(* module can extend both.                                                 *)
(***************************************************************************)
EXTENDS Naturals

CONSTANTS feed, MaxUpdates

ASSUME MaxUpdatesAssumption == MaxUpdates \in Nat

VARIABLES ctxDone, pc, running, lastFinished, lastSuccessful, update, outcomes,
          buffered, ticker, asking

Feed == INSTANCE FeedScheduler WITH Feed <- feed, updating <- running

FeedSpec == Feed!FairSpec

\* What the status of a running feed scheduler says is what happened.
StatusIsAccurate == Feed!StatusIsAccurate

\* The feed scheduler keeps the promise of the scheduler, for its feed.
FeedImplementsAbstract == Feed!ImplementsAbstract

\* Once the context is cancelled wait() returns.
DoneIsClosed == Feed!DoneIsClosed

\* Ticks lead to updates as long as the scheduler is not stopped.
UpdatesKeepComing == Feed!UpdatesKeepComing
=============================================================================
