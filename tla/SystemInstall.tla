---------------------------- MODULE SystemInstall ----------------------------
(***************************************************************************)
(* Installing, updating and deleting one system through the admin API      *)
(* (internal/admin/admin.go), down to the reset of the scheduler.          *)
(*                                                                         *)
(* A request is one call of InstallOrUpdateSystem or DeleteSystem.  The    *)
(* first returns when its entry transaction has committed and goes on in a *)
(* goroutine.  Transactions run at READ COMMITTED: one that reads the      *)
(* system row and then writes it by primary key is two steps here, and its *)
(* write misses a row that was deleted in between.  A transaction whose    *)
(* first statement locks the row (upsertSystemMetadata) is one step.       *)
(***************************************************************************)
EXTENDS FiniteSets

CONSTANTS Requests,    \* calls, each made at most once
          Feeds,       \* feed IDs
          Required,    \* the feeds with requiredForInstall
          None         \* no system, no request being served

ASSUME RequiredAssumption == Required \subseteq Feeds

VARIABLES
  system,     \* the system's row: status, and the request that inserted it as
              \* its primary key; or None
  feeds,      \* the feed rows of the system
  stored,     \* the feed rows that have had a successful update
  run,        \* per request: where it is, and its locals
  root,       \* the scheduler's root: the request whose ResetSystem it serves
              \* and the feeds it has read, or None
  scheduled,  \* the feeds the scheduler updates
  up,         \* is the server process running?
  owed,       \* history: a fault lost the reset after a change of the database
  overlapped  \* history: has a request come while another one was running?

rows == <<system, feeds, stored>>
server == <<root, scheduled, up, owed, overlapped>>
vars == <<rows, run, server>>

InProgress == {"INSTALLING", "UPDATING"}
Statuses == InProgress \cup {"ACTIVE", "INSTALL_FAILED", "UPDATE_FAILED"}
Systems == [pk : Requests, status : Statuses]
Deletion == [kind |-> "delete", feeds |-> {}, installOnly |-> FALSE]
Calls == {Deletion}
           \cup [kind : {"install"}, feeds : SUBSET Feeds, installOnly : BOOLEAN]
Over == {"idle", "done", "lost"}
Pcs == Over \cup {"entry", "write", "metadata", "update", "finish", "mark",
                  "delete", "drop", "reset"}

ASSUME NoneAssumption ==
  None \notin Systems \cup [client : Requests, feeds : SUBSET Feeds]

\* A request: what it asks for, the system row that its transaction has read,
\* the required feeds it still has to update, and whether its install failed.
Runs == [pc : Pcs, call : Calls, was : Systems \cup {None},
         left : SUBSET Feeds, failed : BOOLEAN]
At(pc) == [pc |-> pc, call |-> Deletion, was |-> None, left |-> {},
           failed |-> FALSE]

Running(r) == run[r].pc \notin Over
Quiet == \A r \in Requests : ~Running(r)

\* The row a transaction has read is still there.
StillThere(r) == run[r].was # None /\ system # None /\ system.pk = run[r].was.pk

Init ==
  /\ system = None /\ feeds = {} /\ stored = {}
  /\ run = [r \in Requests |-> At("idle")]
  /\ root = None /\ scheduled = {}
  /\ up = TRUE /\ owed = FALSE /\ overlapped = FALSE

\* Request r is at pc and goes on at next with the row was.
Step(r, pc, next, was) ==
  /\ run[r].pc = pc
  /\ run' = [run EXCEPT ![r].pc = next, ![r].was = was]
End(r, how) == run' = [run EXCEPT ![r] = At(how)]
-----------------------------------------------------------------------------
Accept(r, call) ==
  /\ up
  /\ run[r].pc = "idle"
  /\ run' = [run EXCEPT ![r].call = call,
                        ![r].pc = IF call.kind = "install" THEN "entry" ELSE "delete"]
  /\ overlapped' = (overlapped \/ ~Quiet)
  /\ UNCHANGED <<rows, root, scheduled, up, owed>>

\* The first transaction fails and the error is returned to the client.
RequestFails(r) ==
  /\ run[r].pc \in {"entry", "write", "delete", "drop"}
  /\ End(r, "done")
  /\ UNCHANGED <<rows, server>>
-----------------------------------------------------------------------------
(* InstallOrUpdateSystem.                                                  *)

\* upsertSystemEntry: GetSystem.
ReadEntry(r) ==
  /\ IF system # None /\ run[r].call.installOnly /\ system.status = "ACTIVE"
     THEN run[r].pc = "entry" /\ End(r, "done")
     ELSE Step(r, "entry", "write", system)
  /\ UNCHANGED <<rows, server>>

\* upsertSystemEntry: InsertSystem (system.id is unique: RequestFails if it is
\* there by now) or UpdateSystemStatus.  Then the client has its answer.
WriteEntry(r) ==
  /\ Step(r, "write", "metadata", None)
  /\ \/ /\ run[r].was = None /\ system = None
        /\ system' = [pk |-> r, status |-> "INSTALLING"]
     \/ /\ run[r].was # None
        /\ system' = IF StillThere(r)
                     THEN [system EXCEPT !.status = "UPDATING"] ELSE system
  /\ UNCHANGED <<feeds, stored, server>>

\* Mutant of InstallFails: the error is lost.
FailureForgotten(r) ==
  /\ run[r].pc \in {"metadata", "update"}
  /\ run' = [run EXCEPT ![r].pc = "finish", ![r].left = {}]
  /\ UNCHANGED <<rows, server>>

InstallFails(r) ==
  /\ run[r].pc \in {"metadata", "update"}
  /\ run' = [run EXCEPT ![r].failed = TRUE, ![r].pc = "finish", ![r].left = {}]
  /\ UNCHANGED <<rows, server>>

\* upsertSystemMetadata: the feed rows become those of the configuration.
UpsertMetadata(r) ==
  /\ run[r].pc = "metadata"
  /\ system # None
  /\ feeds' = run[r].call.feeds
  /\ stored' = stored \cap feeds'
  /\ run' = [run EXCEPT ![r].left = feeds' \cap Required, ![r].pc = "update"]
  /\ UNCHANGED <<system, server>>

\* update.Update of a required feed ends without an error.  It looks the feed
\* up by its ID, so the feed must still be there.
UpdateFeed(r, f) ==
  /\ run[r].pc = "update"
  /\ f \in run[r].left \cap feeds
  /\ stored' = stored \cup {f}
  /\ run' = [run EXCEPT ![r].left = @ \ {f}]
  /\ UNCHANGED <<system, feeds, server>>

UpdatesDone(r) ==
  /\ run[r].left = {}
  /\ Step(r, "update", "finish", None)
  /\ UNCHANGED <<rows, server>>

\* Mutant of ReadFinish: after a failed install there is nothing to finish.
FinishUnlessFailed(r) ==
  /\ IF system = None \/ run[r].failed
     THEN run[r].pc = "finish" /\ End(r, "done")
     ELSE Step(r, "finish", "mark", system)
  /\ UNCHANGED <<rows, server>>

\* markSystemInstallFinished: GetSystem.  Without the system the goroutine
\* returns and does not reset the scheduler.
ReadFinish(r) ==
  /\ IF system = None
     THEN run[r].pc = "finish" /\ End(r, "done")
     ELSE Step(r, "finish", "mark", system)
  /\ UNCHANGED <<rows, server>>

FinalStatus(r) ==
  IF run[r].failed
  THEN IF run[r].was.status = "INSTALLING" THEN "INSTALL_FAILED"
                                           ELSE "UPDATE_FAILED"
  ELSE "ACTIVE"

\* markSystemInstallFinished: UpdateSystemStatus.
MarkFinished(r) ==
  /\ Step(r, "mark", "reset", None)
  /\ system' = IF StillThere(r)
               THEN [system EXCEPT !.status = FinalStatus(r)] ELSE system
  /\ UNCHANGED <<feeds, stored, server>>

\* The transaction fails: the goroutine logs it and returns.
MarkFails(r) ==
  /\ run[r].pc \in {"finish", "mark"}
  /\ End(r, "lost")
  /\ owed' = TRUE
  /\ UNCHANGED <<rows, root, scheduled, up, overlapped>>
-----------------------------------------------------------------------------
(* DeleteSystem.                                                           *)

ReadDelete(r) ==
  /\ IF system = None
     THEN run[r].pc = "delete" /\ End(r, "done")
     ELSE Step(r, "delete", "drop", system)
  /\ UNCHANGED <<rows, server>>

\* Mutant of Drop: the scheduler is not told.
DropQuietly(r) ==
  /\ run[r].pc = "drop"
  /\ End(r, "done")
  /\ IF StillThere(r)
     THEN system' = None /\ feeds' = {} /\ stored' = {}
     ELSE UNCHANGED rows
  /\ UNCHANGED server

\* The feeds and their data go with the system (ON DELETE CASCADE).
Drop(r) ==
  /\ Step(r, "drop", "reset", None)
  /\ IF StillThere(r)
     THEN system' = None /\ feeds' = {} /\ stored' = {}
     ELSE UNCHANGED rows
  /\ UNCHANGED server
-----------------------------------------------------------------------------
(* scheduler.ResetSystem, served by the one root goroutine of Scheduler.   *)

ResetRead(r) ==
  /\ run[r].pc = "reset"
  /\ root = None
  /\ root' = [client |-> r, feeds |-> feeds]
  /\ owed' = FALSE
  /\ UNCHANGED <<rows, run, scheduled, up, overlapped>>

ResetReturns ==
  /\ root # None
  /\ scheduled' = root.feeds
  /\ root' = None
  /\ End(root.client, "done")
  /\ UNCHANGED <<rows, up, owed, overlapped>>

\* ResetSystem returns an error.  The install goroutine ignores it.
ResetFails(r) ==
  /\ run[r].pc = "reset"
  /\ root = None
  /\ End(r, "done")
  /\ owed' = TRUE
  /\ UNCHANGED <<rows, root, scheduled, up, overlapped>>
-----------------------------------------------------------------------------
(* The server process ends, in whatever way: nothing waits for the         *)
(* goroutines of InstallOrUpdateSystem.                                    *)

Crash ==
  /\ up
  /\ up' = FALSE
  /\ run' = [r \in Requests |-> IF Running(r) THEN At("lost") ELSE run[r]]
  /\ root' = None
  /\ scheduled' = {}
  /\ UNCHANGED <<rows, owed, overlapped>>

\* server.Run resets the scheduler before it serves requests.
Restart ==
  /\ ~up
  /\ up' = TRUE
  /\ scheduled' = feeds
  /\ owed' = FALSE
  /\ UNCHANGED <<rows, run, root, overlapped>>
-----------------------------------------------------------------------------
\* The steps a request takes by itself.
Progress(r) ==
  \/ ReadEntry(r) \/ WriteEntry(r) \/ UpsertMetadata(r)
  \/ \E f \in Feeds : UpdateFeed(r, f)
  \/ UpdatesDone(r) \/ ReadFinish(r) \/ MarkFinished(r)
  \/ RequestFails(r) \/ InstallFails(r)
  \/ ReadDelete(r) \/ Drop(r) \/ ResetRead(r)

Next ==
  \/ \E r \in Requests :
       \/ \E call \in Calls : Accept(r, call)
       \/ Progress(r) \/ MarkFails(r) \/ ResetFails(r)
  \/ ResetReturns
  \/ Crash \/ Restart

Spec == Init /\ [][Next]_vars

\* A goroutine runs on, the database and the feed's server answer or time
\* out, and the scheduler answers a reset (EveryCallReturns of Scheduler).
FairSpec ==
  /\ Spec
  /\ \A r \in Requests : WF_vars(Progress(r))
  /\ WF_vars(ResetReturns)
-----------------------------------------------------------------------------
(* Properties.                                                             *)

\* The variables have their types.
TypeOK ==
  /\ system \in Systems \cup {None}
  /\ feeds \in SUBSET Feeds /\ stored \in SUBSET feeds
  /\ run \in [Requests -> Runs]
  /\ root \in [client : Requests, feeds : SUBSET Feeds] \cup {None}
  /\ scheduled \in SUBSET Feeds
  /\ up \in BOOLEAN /\ owed \in BOOLEAN /\ overlapped \in BOOLEAN

\* When every request has ended, the scheduler updates exactly the feeds the
\* system has: the reset at the end of each request reads what the request
\* committed, whatever other installs and deletions did meanwhile, and a
\* restart starts from the database.
QuietScheduleIsCurrent ==
  up /\ ~owed /\ Quiet => scheduled = feeds

\* The system, if it is active, has the data of every feed required for its
\* install.
Installed ==
  system # None /\ system.status = "ACTIVE" => feeds \cap Required \subseteq stored

\* "The system was successfully installed and is now active" (api/public.proto)
\* and "to fully install a system the data must already be in place"
\* (docs/src/systems.md), when no request is running: this is so of requests that
\* come one after the other, whatever faults happen between and during them.
SequentiallyActiveMeansInstalled == Quiet /\ ~overlapped => Installed

\* A client that polls until the install or update is over stops polling,
\* unless a request is lost.
InProgressEnds ==
  (\A r \in Requests : [](run[r].pc # "lost")) =>
    ((system # None /\ system.status \in InProgress)
       ~> (system = None \/ system.status \notin InProgress))
=============================================================================
