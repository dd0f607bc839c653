---------------------------- MODULE FeedScheduler ----------------------------
(***************************************************************************)
(* One feed scheduler (feedScheduler.run in internal/scheduler/            *)
(* scheduler.go) together with the goroutine of its ticker                 *)
(* (internal/scheduler/ticker/ticker.go) and the update goroutine it       *)
(* starts.  The module Scheduler has many of these and abstracts from the  *)
(* ticker and from what an update returns; here both are modelled.         *)
(*                                                                         *)
(* The periodic and the daily ticker run the same loop: they differ in the *)
(* period they reset their clock ticker to, and time is abstract here.     *)
(***************************************************************************)
EXTENDS Naturals, Sequences

CONSTANTS Feed,        \* the feed
          MaxUpdates   \* bound, a number: how many updates are started

VARIABLES
  ctxDone,         \* is the context of the feed scheduler cancelled?
  pc,              \* the feed scheduler; "stopping": in the deferred t.Stop()
  updating,        \* its local updateRunning
  lastFinished,    \* its local lastFinishedUpdate: which update it was, or 0
  lastSuccessful,  \* its local lastSuccessfulUpdate, likewise
  update,          \* the update goroutine: executing, or the error it reports
  outcomes,        \* history: how the finished updates ended
  buffered,        \* is there a tick in the buffer of the clock's channel?
  ticker,          \* the ticker goroutine
  asking           \* is the system scheduler asking for the status?

vars == <<ctxDone, pc, updating, lastFinished, lastSuccessful, update,
          outcomes, buffered, ticker, asking>>
statusVars == <<lastFinished, lastSuccessful>>

\* How update.Update can end: UPDATED or SKIPPED; one of the FAILED_ statuses;
\* or without a FeedUpdate, because the feed's row could not be read.
Outcomes == {"succeeded", "failed", "noFeedUpdate"}

\* admin.UpdateFeed returns an error only when there is no FeedUpdate.
ErrorOf(outcome) == IF outcome = "noFeedUpdate" THEN "err" ELSE "nil"

Init ==
  /\ ctxDone = FALSE
  /\ pc = "starting"
  /\ updating = FALSE
  /\ lastFinished = 0
  /\ lastSuccessful = 0
  /\ update = "none"
  /\ outcomes = <<>>
  /\ buffered = FALSE
  /\ ticker = "none"
  /\ asking = FALSE
-----------------------------------------------------------------------------
(* The environment: the system scheduler and the clock.                    *)

Cancel ==
  /\ ~ctxDone
  /\ ctxDone' = TRUE
  /\ UNCHANGED <<pc, updating, statusVars, update, outcomes, buffered, ticker,
                 asking>>

Ask ==
  /\ ~asking
  /\ asking' = TRUE
  /\ UNCHANGED <<ctxDone, pc, updating, statusVars, update, outcomes, buffered,
                 ticker>>

\* The clock's ticker puts a tick in its channel, or drops it when the
\* previous one is still there.
ClockTick ==
  /\ ticker \notin {"none", "stopped"}
  /\ ~buffered
  /\ buffered' = TRUE
  /\ UNCHANGED <<ctxDone, pc, updating, statusVars, update, outcomes, ticker,
                 asking>>
-----------------------------------------------------------------------------
(* The ticker goroutine.                                                   *)

\* case tickTime := <-base.C, up to the blocking send t.c <- tickTime.
TakeTick ==
  /\ ticker = "select"
  /\ buffered
  /\ buffered' = FALSE
  /\ ticker' = "sending"
  /\ UNCHANGED <<ctxDone, pc, updating, statusVars, update, outcomes, asking>>

\* case reply := <-t.stopC, with the reply; t.Stop() and with it the feed
\* scheduler goroutine return.
StopTicker ==
  /\ pc = "stopping"
  /\ ticker = "select"
  /\ ticker' = "stopped"
  /\ pc' = "returned"
  /\ UNCHANGED <<ctxDone, updating, statusVars, update, outcomes, buffered,
                 asking>>
-----------------------------------------------------------------------------
(* The feed scheduler goroutine.                                           *)

\* newFeedScheduler: the ticker is made, then initComplete is sent.
Start ==
  /\ pc = "starting"
  /\ pc' = "select"
  /\ ticker' = "select"
  /\ UNCHANGED <<ctxDone, updating, statusVars, update, outcomes, buffered,
                 asking>>

\* case <-t.C(): an update is started, or the tick is ignored because one is
\* running (or, for the bound's sake, because there have been enough).
Tick ==
  /\ pc = "select"
  /\ ticker = "sending"
  /\ ticker' = "select"
  /\ IF updating \/ Len(outcomes) = MaxUpdates
     THEN UNCHANGED <<updating, update>>
     ELSE updating' = TRUE /\ update' = "executing"
  /\ UNCHANGED <<ctxDone, pc, statusVars, outcomes, buffered, asking>>

\* UpdateFeed returns in the update goroutine, which then blocks reporting.
UpdateReturns ==
  /\ update = "executing"
  /\ \E outcome \in Outcomes :
       /\ outcomes' = Append(outcomes, outcome)
       /\ update' = ErrorOf(outcome)
  /\ UNCHANGED <<ctxDone, pc, updating, statusVars, buffered, ticker, asking>>

Reporting == update \in {"err", "nil"}

\* Mutants of UpdateFinished: it takes every update for a successful one, or for
\* running after an error.
FinishedIsSuccessful ==
  /\ pc = "select" /\ Reporting
  /\ update' = "none" /\ updating' = FALSE
  /\ lastFinished' = Len(outcomes)
  /\ lastSuccessful' = Len(outcomes)
  /\ UNCHANGED <<ctxDone, pc, outcomes, buffered, ticker, asking>>

FinishedRunningOnError ==
  /\ pc = "select" /\ Reporting
  /\ update' = "none" /\ updating' = (update = "err")
  /\ lastFinished' = Len(outcomes)
  /\ lastSuccessful' = IF update = "nil" THEN Len(outcomes) ELSE lastSuccessful
  /\ UNCHANGED <<ctxDone, pc, outcomes, buffered, ticker, asking>>

\* case err := <-updateFinished.
UpdateFinished ==
  /\ pc = "select"
  /\ Reporting
  /\ update' = "none"
  /\ updating' = FALSE
  /\ lastFinished' = Len(outcomes)
  /\ lastSuccessful' = IF update = "nil" THEN Len(outcomes) ELSE lastSuccessful
  /\ UNCHANGED <<ctxDone, pc, outcomes, buffered, ticker, asking>>

\* case msg := <-fs.statusRequest.
AnswerStatus ==
  /\ pc = "select"
  /\ asking
  /\ asking' = FALSE
  /\ UNCHANGED <<ctxDone, pc, updating, statusVars, update, outcomes, buffered,
                 ticker>>

\* Mutant of NoticeCancel: it always waits for an update.
NoticeCancelWait ==
  /\ pc = "select" /\ ctxDone
  /\ pc' = "draining"
  /\ UNCHANGED <<ctxDone, updating, statusVars, update, outcomes, buffered,
                 ticker, asking>>

\* case <-ctx.Done(): close(fs.done) at once, or after the running update.
NoticeCancel ==
  /\ pc = "select"
  /\ ctxDone
  /\ pc' = IF updating THEN "draining" ELSE "stopping"
  /\ UNCHANGED <<ctxDone, updating, statusVars, update, outcomes, buffered,
                 ticker, asking>>

\* Mutant of Drain: the update is abandoned.
DrainAtOnce ==
  /\ pc = "draining"
  /\ pc' = "stopping"
  /\ UNCHANGED <<ctxDone, updating, statusVars, update, outcomes, buffered,
                 ticker, asking>>

Drain ==
  /\ pc = "draining"
  /\ Reporting
  /\ update' = "none"
  /\ pc' = "stopping"
  /\ UNCHANGED <<ctxDone, updating, statusVars, outcomes, buffered, ticker,
                 asking>>
-----------------------------------------------------------------------------
Next ==
  \/ Cancel \/ Ask \/ ClockTick
  \/ TakeTick \/ StopTicker
  \/ Start \/ Tick \/ UpdateReturns \/ UpdateFinished
  \/ AnswerStatus \/ NoticeCancel \/ Drain

Spec == Init /\ [][Next]_vars

(***************************************************************************)
(* Time passes and updates end.  A case of the feed scheduler's select     *)
(* that is ready again and again is picked eventually.                     *)
(***************************************************************************)
FairSpec ==
  /\ Spec
  /\ WF_vars(ClockTick) /\ WF_vars(TakeTick) /\ SF_vars(StopTicker)
  /\ WF_vars(UpdateReturns) /\ WF_vars(Start)
  /\ SF_vars(Tick) /\ SF_vars(UpdateFinished) /\ SF_vars(AnswerStatus)
  /\ SF_vars(NoticeCancel) /\ WF_vars(Drain)
-----------------------------------------------------------------------------
(* Properties.                                                             *)

TypeOK ==
  /\ ctxDone \in BOOLEAN
  /\ pc \in {"starting", "select", "draining", "stopping", "returned"}
  /\ updating \in BOOLEAN
  /\ lastFinished \in 0..MaxUpdates
  /\ lastSuccessful \in 0..MaxUpdates
  /\ update \in {"none", "executing", "err", "nil"}
  /\ outcomes \in Seq(Outcomes) /\ Len(outcomes) <= MaxUpdates
  /\ buffered \in BOOLEAN
  /\ ticker \in {"none", "select", "sending", "stopped"}
  /\ asking \in BOOLEAN

\* fs.done is closed (and wait() returns) only when no update goroutine is
\* left: it would block forever on updateFinished.
DoneMeansNoUpdate == pc \in {"stopping", "returned"} => update = "none"

\* While the scheduler runs, what a status answer says is what happened:
\* CurrentlyRunning iff an update has not been received yet, and the time of the
\* last finished update is that of the last one received.  The last
\* successful one is an update received that wrote its result, and not older than
\* the last that succeeded.  It is left open whether an update with a failure as
\* its result counts: in the code it does, by the documentation it does not.
StatusIsAccurate ==
  pc = "select" =>
    /\ updating <=> update # "none"
    /\ LET received == Len(outcomes) - (IF Reporting THEN 1 ELSE 0)
       IN /\ lastFinished = received
          /\ lastSuccessful \in {i \in 1..received : outcomes[i] # "noFeedUpdate"} \cup {0}
          /\ \A i \in 1..received : outcomes[i] = "succeeded" => i <= lastSuccessful

\* The promise of the scheduler, for this feed.
Abstract == INSTANCE AbstractScheduler WITH
  Feeds <- {Feed},
  scheduled <- IF pc \in {"select", "draining"} THEN {Feed} ELSE {},
  inProgress <- IF update = "executing" THEN {Feed} ELSE {},
  closed <- FALSE

ImplementsAbstract == Abstract!Spec

\* Once the context is cancelled wait() returns, whatever the ticker and an
\* update are doing at the time.
DoneIsClosed == ctxDone ~> pc \in {"stopping", "returned"}

\* Ticks lead to updates as long as the scheduler is not stopped, however the
\* updates end.
UpdatesKeepComing == <>(ctxDone \/ Len(outcomes) = MaxUpdates)
=============================================================================
