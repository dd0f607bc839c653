------------------------------ MODULE Scheduler ------------------------------
(***************************************************************************)
(* The periodic feed update scheduler, internal/scheduler/scheduler.go.    *)
(*                                                                         *)
(* One root goroutine (DefaultScheduler.runWithClock), one goroutine per   *)
(* system (systemScheduler.run), one per feed (feedScheduler.run), and one *)
(* more for every update a feed scheduler starts.  All channels are        *)
(* unbuffered, so a send and its receive are one action here.  Every       *)
(* blocking point of a goroutine is a value of its program counter.        *)
(*                                                                         *)
(* The slots ss[s] and fs[f] stand for one goroutine at a time: the code   *)
(* makes a new one for an ID only after wait() returned for the old one.   *)
(***************************************************************************)
EXTENDS Naturals

CONSTANTS Systems,     \* system IDs
          Feeds,       \* feeds, whatever system they belong to
          Owner,       \* the system of each feed
          Callers,     \* goroutines calling Reset, ResetSystem and Status
          None,        \* no caller, no request, no system
          MayAbandon   \* can a caller's context be cancelled while it waits?

ASSUME OwnerAssumption == Owner \in [Feeds -> Systems]
ASSUME AbandonAssumption == MayAbandon \in BOOLEAN

\* The messages of the three request channels.
Requests == {[kind |-> "resetAll"], [kind |-> "status"]}
              \cup [kind : {"resetSystem"}, sys : Systems]

ASSUME NoneAssumption == None \notin Systems \cup Callers \cup Requests

VARIABLES
  installed,  \* database: the systems that exist
  wanted,     \* database: per system, the feeds whose policy is not NONE
  cancelled,  \* is the context given to Run cancelled?
  sending,    \* per caller, the request it is blocked sending, or None
  root,       \* the root goroutine: pc, locals, and the caller that waits
  ss,         \* per system: pc of its system scheduler goroutine
  todo,       \* per system: feeds its goroutine still has to start or ask
  fs,         \* per feed: pc of its feed scheduler goroutine
  updating,   \* per feed: the local updateRunning of its feed scheduler
  calls,      \* per feed: number of UpdateFeed calls executing
  reports,    \* per feed: update goroutines blocked sending updateFinished
  synced      \* history: the system's last reset succeeded, the database
              \* configuration it read is still the current one, and no
              \* failed Reset has stopped the system since

dbVars == <<installed, wanted>>
feedVars == <<fs, updating, calls, reports>>
systemVars == <<ss, todo>>
vars == <<installed, wanted, cancelled, sending, root, ss, todo,
          fs, updating, calls, reports, synced>>

FeedsOf(s) == {f \in Feeds : Owner[f] = s}
Registered(s) == {f \in FeedsOf(s) : fs[f] # "none"}

\* The keys of the root's map systemSchedulers: an entry is made with the
\* goroutine and deleted after wait().
Started == {s \in Systems : ss[s] # "none"}

StopPcs == {"stopReset", "stopSweep", "stopShutdown"}
RootPcs == {"select", "list", "next", "config", "agencies", "sendReset",
            "awaitReset", "sweep", "status", "awaitStatus", "reply",
            "shutdown", "returned"} \cup StopPcs
SystemPcs == {"none", "select", "stopping", "closing", "starting",
              "status", "exited"}
FeedPcs == {"none", "select", "draining", "exited"}

RootStates == [pc : RootPcs, job : Requests \cup {None},
               client : Callers \cup {None}, sys : Systems \cup {None},
               feeds : SUBSET Feeds, left : SUBSET Systems,
               updated : SUBSET Systems, failed : BOOLEAN]

AtSelect == [pc |-> "select", job |-> None, client |-> None, sys |-> None,
             feeds |-> {}, left |-> {}, updated |-> {}, failed |-> FALSE]

(***************************************************************************)
(* ctx.Done() of a system scheduler is ready once the root context is      *)
(* cancelled or the root has called the system's cancelFunc, which is when *)
(* it waits for it.  A feed's context is a child of its system's, and      *)
(* stopFeedSchedulers cancels it before waiting.                           *)
(***************************************************************************)
SystemDone(s) == cancelled \/ (root.pc \in StopPcs /\ root.sys = s)
FeedDone(f) == SystemDone(Owner[f]) \/ ss[Owner[f]] \in {"stopping", "closing"}

Init ==
  /\ installed = {}
  /\ wanted = [s \in Systems |-> {}]
  /\ cancelled = FALSE
  /\ sending = [c \in Callers |-> None]
  /\ root = AtSelect
  /\ ss = [s \in Systems |-> "none"]
  /\ todo = [s \in Systems |-> {}]
  /\ fs = [f \in Feeds |-> "none"]
  /\ updating = [f \in Feeds |-> FALSE]
  /\ calls = [f \in Feeds |-> 0]
  /\ reports = [f \in Feeds |-> 0]
  /\ synced = [s \in Systems |-> FALSE]
-----------------------------------------------------------------------------
(* The environment: the admin service changes the database.                *)

EditSystem(s, F) ==
  /\ installed' = installed \cup {s}
  /\ wanted' = [wanted EXCEPT ![s] = F]
  /\ synced' = [synced EXCEPT ![s] = FALSE]
  /\ UNCHANGED <<cancelled, sending, root, systemVars, feedVars>>

DeleteSystem(s) ==
  /\ s \in installed
  /\ installed' = installed \ {s}
  /\ wanted' = [wanted EXCEPT ![s] = {}]
  /\ synced' = [synced EXCEPT ![s] = FALSE]
  /\ UNCHANGED <<cancelled, sending, root, systemVars, feedVars>>

CancelContext ==
  /\ ~cancelled
  /\ cancelled' = TRUE
  /\ UNCHANGED <<dbVars, sending, root, systemVars, feedVars, synced>>
-----------------------------------------------------------------------------
(* Reset, ResetSystem and Status, from the caller's side.                  *)

Call(c, req) ==
  /\ sending[c] = None
  /\ root.client # c
  /\ sending' = [sending EXCEPT ![c] = req]
  /\ UNCHANGED <<dbVars, cancelled, root, systemVars, feedVars, synced>>

\* The caller's context is cancelled while it waits for the answer.  (While
\* it is blocked sending its request the context is not looked at.)
Abandon(c) ==
  /\ MayAbandon
  /\ root.client = c
  /\ root' = [root EXCEPT !.client = None]
  /\ UNCHANGED <<dbVars, cancelled, sending, systemVars, feedVars, synced>>
-----------------------------------------------------------------------------
(* The root goroutine.                                                     *)

Receive(c) ==
  /\ root.pc = "select"
  /\ sending[c] # None
  /\ LET req == sending[c]
         serving == [AtSelect EXCEPT !.job = req, !.client = c]
     IN \/ /\ req.kind = "resetAll"
           /\ root' = [serving EXCEPT !.pc = "list"]
        \/ /\ req.kind = "resetSystem"
           /\ root' = [serving EXCEPT !.pc = "config", !.sys = req.sys]
        \/ /\ req.kind = "status"
           /\ root' = [serving EXCEPT !.pc = "status", !.left = Started]
  /\ sending' = [sending EXCEPT ![c] = None]
  /\ UNCHANGED <<dbVars, cancelled, systemVars, feedVars, synced>>

\* resetAllRequest: ListSystems; an error is answered at once.
ListSystems ==
  /\ root.pc = "list"
  /\ \/ root' = [root EXCEPT !.pc = "next", !.left = installed]
     \/ root' = [root EXCEPT !.pc = "reply", !.failed = TRUE]
  /\ UNCHANGED <<dbVars, cancelled, sending, systemVars, feedVars, synced>>

\* The loop over the listed systems, left at the first error.
NextSystem ==
  /\ root.pc = "next"
  /\ \/ /\ ~root.failed
        /\ \E s \in root.left :
             root' = [root EXCEPT !.pc = "config", !.sys = s,
                                  !.left = @ \ {s}]
     \/ /\ root.failed \/ root.left = {}
        /\ root' = [root EXCEPT !.pc = "sweep", !.left = {}]
  /\ UNCHANGED <<dbVars, cancelled, sending, systemVars, feedVars, synced>>

\* Mutant of ResetReturns: the system is not recorded in updatedSystems.
ResetForgotten(ok) ==
  [root EXCEPT
     !.pc = IF root.job.kind = "resetAll" THEN "next" ELSE "reply",
     !.failed = ~ok, !.sys = None, !.feeds = {}]

\* The root after resetSystem returned, without an error iff ok.
ResetReturns(ok) ==
  [root EXCEPT
     !.pc = IF root.job.kind = "resetAll" THEN "next" ELSE "reply",
     !.failed = ~ok,
     !.updated = IF ok THEN @ \cup {root.sys} ELSE @,
     !.sys = None,
     !.feeds = {}]

ResetFails ==
  /\ root' = ResetReturns(FALSE)
  /\ synced' = [synced EXCEPT ![root.sys] = FALSE]
  /\ UNCHANGED <<dbVars, cancelled, sending, systemVars, feedVars>>

\* stopScheduler called by resetSystem: nothing to do for a system without
\* a scheduler, otherwise its context is cancelled and the root waits.
StopOrReturn ==
  root' = IF root.sys \in Started
          THEN [root EXCEPT !.pc = "stopReset", !.feeds = {}]
          ELSE ResetReturns(TRUE)

GetSystemConfig ==
  /\ root.pc = "config"
  /\ \/ ResetFails
     \/ /\ IF root.sys \in installed
           THEN root' = [root EXCEPT !.pc = "agencies",
                                     !.feeds = wanted[root.sys]]
           ELSE StopOrReturn
        /\ synced' = [synced EXCEPT ![root.sys] = TRUE]
        /\ UNCHANGED <<dbVars, cancelled, sending, systemVars, feedVars>>

\* ListAgencies fails for a system deleted since its configuration was read.
ListAgencies ==
  /\ root.pc = "agencies"
  /\ \/ ResetFails
     \/ /\ root.sys \in installed
        /\ IF root.feeds = {}
           THEN StopOrReturn /\ UNCHANGED ss
           ELSE /\ root' = [root EXCEPT !.pc = "sendReset"]
                /\ ss' = [ss EXCEPT ![root.sys] =
                            IF @ = "none" THEN "select" ELSE @]
        /\ UNCHANGED <<dbVars, cancelled, sending, todo, feedVars, synced>>

SendReset ==
  /\ root.pc = "sendReset"
  /\ ss[root.sys] = "select"
  /\ root' = [root EXCEPT !.pc = "awaitReset"]
  /\ ss' = [ss EXCEPT ![root.sys] = "stopping"]
  /\ todo' = [todo EXCEPT ![root.sys] = root.feeds]
  /\ UNCHANGED <<dbVars, cancelled, sending, feedVars, synced>>

ResetAnswered ==
  /\ root.pc = "awaitReset"
  /\ ss[root.sys] = "starting"
  /\ todo[root.sys] = {}
  /\ root' = ResetReturns(TRUE)
  /\ ss' = [ss EXCEPT ![root.sys] = "select"]
  /\ UNCHANGED <<dbVars, cancelled, sending, todo, feedVars, synced>>

\* wait() of stopScheduler returns and the map entry is deleted.
StopReturns ==
  /\ root.pc \in StopPcs
  /\ ss[root.sys] = "exited"
  /\ ss' = [ss EXCEPT ![root.sys] = "none"]
  /\ \/ /\ root.pc = "stopReset"
        /\ root' = ResetReturns(TRUE)
     \/ /\ root.pc = "stopSweep"
        /\ root' = [root EXCEPT !.pc = "sweep", !.sys = None]
     \/ /\ root.pc = "stopShutdown"
        /\ root' = [root EXCEPT !.pc = "shutdown", !.sys = None]
  /\ UNCHANGED <<dbVars, cancelled, sending, todo, feedVars, synced>>

\* After the loop of resetAllRequest: stop the systems it did not update.
Sweep ==
  /\ root.pc = "sweep"
  /\ \/ \E s \in Started \ root.updated :
          /\ root' = [root EXCEPT !.pc = "stopSweep", !.sys = s]
          /\ synced' = [synced EXCEPT ![s] = @ /\ ~root.failed]
     \/ /\ Started \subseteq root.updated
        /\ root' = [root EXCEPT !.pc = "reply"]
        /\ UNCHANGED synced
  /\ UNCHANGED <<dbVars, cancelled, sending, systemVars, feedVars>>

\* statusRequest: every system scheduler in turn (the order of a Go map).
SendStatus(s) ==
  /\ root.pc = "status"
  /\ s \in root.left
  /\ ss[s] = "select"
  /\ root' = [root EXCEPT !.pc = "awaitStatus", !.sys = s,
                          !.left = @ \ {s}]
  /\ ss' = [ss EXCEPT ![s] = "status"]
  /\ todo' = [todo EXCEPT ![s] = Registered(s)]
  /\ UNCHANGED <<dbVars, cancelled, sending, feedVars, synced>>

\* Mutant of StatusAnswered: the system scheduler ends after its answer.
AnsweredAndGone ==
  /\ root.pc = "awaitStatus"
  /\ ss[root.sys] = "status"
  /\ todo[root.sys] = {}
  /\ root' = [root EXCEPT !.pc = "status", !.sys = None]
  /\ ss' = [ss EXCEPT ![root.sys] = "exited"]
  /\ UNCHANGED <<dbVars, cancelled, sending, todo, feedVars, synced>>

StatusAnswered ==
  /\ root.pc = "awaitStatus"
  /\ ss[root.sys] = "status"
  /\ todo[root.sys] = {}
  /\ root' = [root EXCEPT !.pc = "status", !.sys = None]
  /\ ss' = [ss EXCEPT ![root.sys] = "select"]
  /\ UNCHANGED <<dbVars, cancelled, sending, todo, feedVars, synced>>

StatusDone ==
  /\ root.pc = "status"
  /\ root.left = {}
  /\ root' = [root EXCEPT !.pc = "reply"]
  /\ UNCHANGED <<dbVars, cancelled, sending, systemVars, feedVars, synced>>

\* msg.resp is unbuffered: without the caller the root waits forever.
Reply ==
  /\ root.pc = "reply"
  /\ root.client # None
  /\ root' = AtSelect
  /\ UNCHANGED <<dbVars, cancelled, sending, systemVars, feedVars, synced>>

RootCancelled ==
  /\ root.pc = "select"
  /\ cancelled
  /\ root' = [root EXCEPT !.pc = "shutdown"]
  /\ UNCHANGED <<dbVars, cancelled, sending, systemVars, feedVars, synced>>

Shutdown ==
  /\ root.pc = "shutdown"
  /\ \/ \E s \in Started :
          root' = [root EXCEPT !.pc = "stopShutdown", !.sys = s]
     \/ /\ Started = {}
        /\ root' = [root EXCEPT !.pc = "returned"]
  /\ UNCHANGED <<dbVars, cancelled, sending, systemVars, feedVars, synced>>

RootStep ==
  \/ ListSystems \/ NextSystem \/ GetSystemConfig \/ ListAgencies
  \/ SendReset \/ ResetAnswered \/ StopReturns \/ Sweep
  \/ \E s \in Systems : SendStatus(s)
  \/ StatusAnswered \/ StatusDone \/ Reply \/ Shutdown
-----------------------------------------------------------------------------
(* A system scheduler goroutine.  Its receives are SendReset, SendStatus.  *)

SystemCancelled(s) ==
  /\ ss[s] = "select"
  /\ SystemDone(s)
  /\ ss' = [ss EXCEPT ![s] = "closing"]
  /\ UNCHANGED <<dbVars, cancelled, sending, root, todo, feedVars, synced>>

\* Mutant of FeedsStopped: it does not wait for the feed schedulers.
FeedsNotAwaited(s) ==
  /\ ss[s] \in {"stopping", "closing"}
  /\ fs' = [f \in Feeds |-> IF Owner[f] = s THEN "none" ELSE fs[f]]
  /\ ss' = [ss EXCEPT ![s] = IF @ = "stopping" THEN "starting" ELSE "exited"]
  /\ UNCHANGED <<dbVars, cancelled, sending, root, todo,
                 updating, calls, reports, synced>>

\* stopFeedSchedulers has waited for every feed scheduler.
FeedsStopped(s) ==
  /\ ss[s] \in {"stopping", "closing"}
  /\ \A f \in Registered(s) : fs[f] = "exited"
  /\ fs' = [f \in Feeds |-> IF Owner[f] = s THEN "none" ELSE fs[f]]
  /\ ss' = [ss EXCEPT ![s] = IF @ = "stopping" THEN "starting" ELSE "exited"]
  /\ UNCHANGED <<dbVars, cancelled, sending, root, todo,
                 updating, calls, reports, synced>>

\* newFeedScheduler, up to and including initComplete.
StartFeedScheduler(s, f) ==
  /\ ss[s] = "starting"
  /\ f \in todo[s]
  /\ todo' = [todo EXCEPT ![s] = @ \ {f}]
  /\ fs' = [fs EXCEPT ![f] = "select"]
  /\ updating' = [updating EXCEPT ![f] = FALSE]
  /\ UNCHANGED <<dbVars, cancelled, sending, root, ss, calls, reports, synced>>

\* fs.status() of one feed: the request and the answer.
FeedStatus(s, f) ==
  /\ ss[s] = "status"
  /\ f \in todo[s]
  /\ fs[f] = "select"
  /\ todo' = [todo EXCEPT ![s] = @ \ {f}]
  /\ UNCHANGED <<dbVars, cancelled, sending, root, ss, feedVars, synced>>

SystemStep(s) ==
  \/ FeedsStopped(s)
  \/ \E f \in Feeds : StartFeedScheduler(s, f) \/ FeedStatus(s, f)
-----------------------------------------------------------------------------
(* A feed scheduler goroutine and the update goroutines it starts.         *)

\* Mutant of StartUpdate: updateRunning is not looked at.
StartAnotherUpdate(f) ==
  /\ fs[f] = "select"
  /\ updating' = [updating EXCEPT ![f] = TRUE]
  /\ calls' = [calls EXCEPT ![f] = @ + 1]
  /\ UNCHANGED <<dbVars, cancelled, sending, root, systemVars, fs, reports,
                 synced>>

\* A tick while no update is running; other ticks are dropped.  The select
\* may pick a tick although the context is done.
StartUpdate(f) ==
  /\ fs[f] = "select"
  /\ ~updating[f]
  /\ updating' = [updating EXCEPT ![f] = TRUE]
  /\ calls' = [calls EXCEPT ![f] = @ + 1]
  /\ UNCHANGED <<dbVars, cancelled, sending, root, systemVars, fs, reports,
                 synced>>

\* admin.UpdateFeed returns, with or without an error.
UpdateReturns(f) ==
  /\ calls[f] > 0
  /\ calls' = [calls EXCEPT ![f] = @ - 1]
  /\ reports' = [reports EXCEPT ![f] = @ + 1]
  /\ UNCHANGED <<dbVars, cancelled, sending, root, systemVars, fs, updating,
                 synced>>

\* Mutant of UpdateFinished: it does not reset updateRunning.
FinishedStillRunning(f) ==
  /\ fs[f] = "select"
  /\ reports[f] > 0
  /\ reports' = [reports EXCEPT ![f] = @ - 1]
  /\ UNCHANGED <<dbVars, cancelled, sending, root, systemVars, fs, updating,
                 calls, synced>>

UpdateFinished(f) ==
  /\ fs[f] = "select"
  /\ reports[f] > 0
  /\ reports' = [reports EXCEPT ![f] = @ - 1]
  /\ updating' = [updating EXCEPT ![f] = FALSE]
  /\ UNCHANGED <<dbVars, cancelled, sending, root, systemVars, fs, calls,
                 synced>>

\* Mutants of FeedCancelled: it never waits for the running update, or it
\* always waits for one.
NeverDrain(f) ==
  /\ fs[f] = "select"
  /\ FeedDone(f)
  /\ fs' = [fs EXCEPT ![f] = "exited"]
  /\ UNCHANGED <<dbVars, cancelled, sending, root, systemVars, updating, calls,
                 reports, synced>>

AlwaysDrain(f) ==
  /\ fs[f] = "select"
  /\ FeedDone(f)
  /\ fs' = [fs EXCEPT ![f] = "draining"]
  /\ UNCHANGED <<dbVars, cancelled, sending, root, systemVars, updating, calls,
                 reports, synced>>

FeedCancelled(f) ==
  /\ fs[f] = "select"
  /\ FeedDone(f)
  /\ fs' = [fs EXCEPT ![f] = IF updating[f] THEN "draining" ELSE "exited"]
  /\ UNCHANGED <<dbVars, cancelled, sending, root, systemVars, updating, calls,
                 reports, synced>>

FeedDrained(f) ==
  /\ fs[f] = "draining"
  /\ reports[f] > 0
  /\ reports' = [reports EXCEPT ![f] = @ - 1]
  /\ updating' = [updating EXCEPT ![f] = FALSE]
  /\ fs' = [fs EXCEPT ![f] = "exited"]
  /\ UNCHANGED <<dbVars, cancelled, sending, root, systemVars, calls, synced>>

FeedStep(f) ==
  \/ UpdateReturns(f) \/ UpdateFinished(f)
  \/ FeedCancelled(f) \/ FeedDrained(f)
-----------------------------------------------------------------------------
Environment ==
  \/ \E s \in Systems :
       \/ \E F \in SUBSET FeedsOf(s) : EditSystem(s, F)
       \/ DeleteSystem(s)
  \/ \E c \in Callers :
       \/ \E req \in Requests : Call(c, req)
       \/ Abandon(c)
  \/ CancelContext

Next ==
  \/ Environment
  \/ \E c \in Callers : Receive(c)
  \/ RootCancelled
  \/ RootStep
  \/ \E s \in Systems : SystemCancelled(s) \/ SystemStep(s)
  \/ \E f \in Feeds : StartUpdate(f) \/ FeedStep(f)

Spec == Init /\ [][Next]_vars

(***************************************************************************)
(* Go's select picks at random among the ready cases, so a case that keeps *)
(* being ready is picked eventually: strong fairness for each receive and  *)
(* each ctx.Done().  The other steps run once they can (weak fairness).    *)
(* UpdateFeed returns: the download has a timeout and the database         *)
(* answers.  A ticker keeps ticking.                                       *)
(***************************************************************************)
Fairness ==
  /\ \A c \in Callers : SF_vars(Receive(c))
  /\ SF_vars(RootCancelled)
  /\ WF_vars(RootStep)
  /\ \A s \in Systems : SF_vars(SystemCancelled(s)) /\ WF_vars(SystemStep(s))
  /\ \A f \in Feeds : /\ WF_vars(StartUpdate(f))
                      /\ WF_vars(UpdateReturns(f))
                      /\ WF_vars(UpdateFinished(f))
                      /\ WF_vars(FeedCancelled(f) \/ FeedDrained(f))

FairSpec == Spec /\ Fairness
-----------------------------------------------------------------------------
(***************************************************************************)
(* Properties.                                                             *)
(***************************************************************************)

\* The variables have their types.
TypeOK ==
  /\ installed \in SUBSET Systems
  /\ wanted \in [Systems -> SUBSET Feeds]
  /\ cancelled \in BOOLEAN
  /\ sending \in [Callers -> Requests \cup {None}]
  /\ root \in RootStates
  /\ ss \in [Systems -> SystemPcs]
  /\ todo \in [Systems -> SUBSET Feeds]
  /\ fs \in [Feeds -> FeedPcs]
  /\ updating \in [Feeds -> BOOLEAN]
  /\ calls \in [Feeds -> Nat]
  /\ reports \in [Feeds -> Nat]
  /\ synced \in [Systems -> BOOLEAN]

\* "The scheduler guarantees that for each feed there is only one update
\* happening at a time", across any number of resets, stops and restarts of
\* the feed's scheduler (the package comment of scheduler.go).
AtMostOneUpdate == \A f \in Feeds : calls[f] <= 1

\* When the root has dropped a system from its map, which is what answers a
\* ResetSystem after DeleteSystem, no update of a feed of the system is still
\* executing and no goroutine of it is left behind.
StoppedSystemIsQuiet ==
  \A s \in Systems \ Started : \A f \in FeedsOf(s) :
    fs[f] = "none" /\ calls[f] = 0 /\ reports[f] = 0

\* When Run has returned nothing it started is still running: the server may
\* close the database pool.
ReturnedMeansQuiet ==
  root.pc = "returned" => /\ Started = {}
                          /\ \A f \in Feeds : calls[f] + reports[f] = 0

\* Between requests, the feeds scheduled for a system are those of its
\* current database configuration, if the last reset of the system succeeded
\* and the configuration did not change since it was read.  A sweep at the
\* end of a successful Reset must not take such a system down.
SyncedSystemIsScheduled ==
  root.pc = "select" /\ ~cancelled =>
    \A s \in Systems : synced[s] => Registered(s) = wanted[s]

\* A failed Reset or ResetSystem never adds a feed to a schedule, and a
\* feed scheduler is only ever started with the configuration of the request
\* being served: at most the feeds the root read for this system.
StartsOnlyWhatWasRead ==
  [][\A f \in Feeds : fs[f] = "none" /\ fs'[f] # "none" =>
       /\ root.pc = "awaitReset"
       /\ root.sys = Owner[f]
       /\ f \in root.feeds]_vars

\* The promise of the scheduler, see AbstractScheduler.
Abstract == INSTANCE AbstractScheduler WITH
  scheduled <- {f \in Feeds : fs[f] \in {"select", "draining"}},
  inProgress <- {f \in Feeds : calls[f] > 0},
  closed <- root.pc = "returned"

\* Every step of the goroutines is a step of the promise or a stutter.
ImplementsAbstract == Abstract!Spec

\* The root is serving a request whose caller has given up waiting.
Abandoned == root.job # None /\ root.client = None

\* While Run's context is live and no waiting caller gives up, every call of
\* Reset, ResetSystem and Status is answered: no deadlock among the root,
\* the system and the feed goroutines, whatever the updates are doing.
EveryCallReturns ==
  [](~cancelled /\ ~Abandoned) =>
    \A c \in Callers :
      sending[c] # None ~> sending[c] = None /\ root.client # c

\* A feed that stays scheduled is updated again and again, whether or not
\* its updates fail.
ScheduledFeedIsUpdated ==
  \A f \in Feeds : <>[](fs[f] = "select") => []<>(calls[f] > 0)

CallersQuietAfterCancel ==
  [](cancelled => \A c \in Callers : sending[c] = None /\ root.client # c)

\* "Run runs the scheduler until the provided context is cancelled"
\* (scheduler.go, Run): if no call of a request method is in progress when the
\* context is cancelled, or comes later, then Run returns.
RunReturnsWhenQuiet ==
  CallersQuietAfterCancel => (cancelled ~> root.pc = "returned")
=============================================================================
