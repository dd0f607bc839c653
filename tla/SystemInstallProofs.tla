------------------------- MODULE SystemInstallProofs -------------------------
(***************************************************************************)
(* Theorems about the module SystemInstall, for every set of requests and  *)
(* feeds, whatever runs concurrently and whatever the faults; and about    *)
(* the module ServerLifecycle.                                             *)
(***************************************************************************)
EXTENDS SystemInstall, OneServer, Integers, Sequences, TLAPS

\* A process that is down has no goroutines, and the root serves requests
\* that wait for it.
ServerInv ==
  /\ ~up => Quiet /\ root = None
  /\ root # None => run[root.client].pc = "reset"

NoSystemNoFeeds == system = None => feeds = {}

\* A request that is still going to call ResetSystem.  One that has not marked
\* its install as finished does so only if the system is there by then.
WillReset(r) ==
  /\ root # None => r # root.client
  /\ run[r].pc \in IF system = None THEN {"reset"}
                                    ELSE {"update", "finish", "mark", "reset"}

\* What the scheduler updates once the root has served its request.
NextScheduled == IF root = None THEN scheduled ELSE root.feeds

\* If the scheduler will not have the feeds of the system, a request has yet
\* to reset it.
ScheduleInv ==
  up /\ ~owed => NextScheduled = feeds \/ \E r \in Requests : WillReset(r)

IInv == TypeOK /\ ServerInv /\ NoSystemNoFeeds /\ ScheduleInv
-----------------------------------------------------------------------------
LEMMA InitIInv == Init => IInv
<1> SUFFICES ASSUME Init PROVE IInv
  OBVIOUS
<1> USE DEF Init
<1>1. At("idle") \in Runs
  BY DEF At, Runs, Pcs, Over, Calls, Deletion
<1>2. TypeOK
  BY <1>1 DEF TypeOK
<1>3. ServerInv /\ NoSystemNoFeeds
  BY DEF ServerInv, NoSystemNoFeeds
<1>4. ScheduleInv
  BY DEF ScheduleInv, NextScheduled
<1>5. QED
  BY <1>2, <1>3, <1>4 DEF IInv

\* A request that goes on within its locals' types keeps the type of run.
LEMMA StepType ==
  ASSUME TypeOK, NEW r \in Requests, NEW from, NEW to \in Pcs,
         NEW was \in Systems \cup {None}, Step(r, from, to, was)
  PROVE  run' \in [Requests -> Runs]
<1>1. run \in [Requests -> Runs]
  BY DEF TypeOK
<1>2. [run[r] EXCEPT !.pc = to, !.was = was] \in Runs
  BY <1>1 DEF Runs
<1>3. run' = [run EXCEPT ![r] = [run[r] EXCEPT !.pc = to, !.was = was]]
  BY <1>1 DEF Step
<1>4. QED
  BY <1>1, <1>2, <1>3

LEMMA EndType ==
  ASSUME TypeOK, NEW r \in Requests, NEW how \in Pcs, End(r, how)
  PROVE  run' \in [Requests -> Runs]
<1>1. At(how) \in Runs
  BY DEF At, Runs, Calls, Deletion
<1>2. QED
  BY <1>1 DEF TypeOK, End

\* Type correctness.
LEMMA TypeStep == TypeOK /\ Next => TypeOK'
<1> SUFFICES ASSUME TypeOK, Next PROVE TypeOK'
  OBVIOUS
<1> USE DEF rows, server
<1>p. {"write", "metadata", "update", "finish", "mark", "drop", "reset",
       "entry", "delete", "done", "lost"} \subseteq Pcs
  BY DEF Pcs, Over
<1>1. ASSUME NEW r \in Requests, NEW call \in Calls, Accept(r, call)
      PROVE  TypeOK'
  <2>1. run' \in [Requests -> Runs]
    <3>1. (IF call.kind = "install" THEN "entry" ELSE "delete") \in Pcs
      BY <1>p
    <3>2. QED
      BY <1>1, <3>1 DEF TypeOK, Accept, Runs
  <2>2. QED
    BY <1>1, <2>1 DEF TypeOK, Accept
<1>2. ASSUME NEW r \in Requests, RequestFails(r) PROVE TypeOK'
  BY <1>2, <1>p, EndType DEF TypeOK, RequestFails
<1>3. ASSUME NEW r \in Requests, ReadEntry(r) PROVE TypeOK'
  <2>1. run' \in [Requests -> Runs]
    BY <1>3, <1>p, EndType, StepType DEF ReadEntry, TypeOK
  <2>2. QED
    BY <1>3, <2>1 DEF ReadEntry, TypeOK
<1>4. ASSUME NEW r \in Requests, WriteEntry(r) PROVE TypeOK'
  <2>1. run' \in [Requests -> Runs]
    BY <1>4, <1>p, StepType DEF WriteEntry
  <2>2. system' \in Systems \cup {None}
    BY <1>4 DEF WriteEntry, TypeOK, Systems, Statuses, InProgress, StillThere
  <2>3. QED
    BY <1>4, <2>1, <2>2 DEF WriteEntry, TypeOK
<1>5. ASSUME NEW r \in Requests, InstallFails(r) PROVE TypeOK'
  <2>1. run' \in [Requests -> Runs]
    BY <1>5, <1>p DEF InstallFails, TypeOK, Runs
  <2>2. QED
    BY <1>5, <2>1 DEF InstallFails, TypeOK
<1>6. ASSUME NEW r \in Requests, UpsertMetadata(r) PROVE TypeOK'
  <2>1. feeds' \in SUBSET Feeds
    BY <1>6 DEF UpsertMetadata, TypeOK, Runs, Calls, Deletion
  <2>2. run' \in [Requests -> Runs]
    <3>1. feeds' \cap Required \in SUBSET Feeds
      BY <2>1
    <3>2. QED
      BY <1>6, <1>p, <3>1 DEF UpsertMetadata, TypeOK, Runs
  <2>3. QED
    BY <1>6, <2>1, <2>2 DEF UpsertMetadata, TypeOK
<1>7. ASSUME NEW r \in Requests, NEW f \in Feeds, UpdateFeed(r, f)
      PROVE  TypeOK'
  <2>1. run' \in [Requests -> Runs]
    BY <1>7 DEF UpdateFeed, TypeOK, Runs
  <2>2. QED
    BY <1>7, <2>1 DEF UpdateFeed, TypeOK
<1>8. ASSUME NEW r \in Requests, UpdatesDone(r) PROVE TypeOK'
  BY <1>8, <1>p, StepType DEF TypeOK, UpdatesDone
<1>9. ASSUME NEW r \in Requests, ReadFinish(r) PROVE TypeOK'
  <2>1. run' \in [Requests -> Runs]
    BY <1>9, <1>p, EndType, StepType DEF ReadFinish, TypeOK
  <2>2. QED
    BY <1>9, <2>1 DEF ReadFinish, TypeOK
<1>10. ASSUME NEW r \in Requests, MarkFinished(r) PROVE TypeOK'
  <2>1. run' \in [Requests -> Runs]
    BY <1>10, <1>p, StepType DEF MarkFinished
  <2>2. FinalStatus(r) \in Statuses
    BY DEF FinalStatus, Statuses
  <2>3. system' \in Systems \cup {None}
    BY <1>10, <2>2 DEF MarkFinished, TypeOK, Systems, StillThere
  <2>4. QED
    BY <1>10, <2>1, <2>3 DEF MarkFinished, TypeOK
<1>11. ASSUME NEW r \in Requests, MarkFails(r) \/ ResetFails(r) PROVE TypeOK'
  <2>1. run' \in [Requests -> Runs]
    BY <1>11, <1>p, EndType DEF MarkFails, ResetFails
  <2>2. QED
    BY <1>11, <2>1 DEF MarkFails, ResetFails, TypeOK
<1>12. ASSUME NEW r \in Requests, ReadDelete(r) PROVE TypeOK'
  <2>1. run' \in [Requests -> Runs]
    BY <1>12, <1>p, EndType, StepType DEF ReadDelete, TypeOK
  <2>2. QED
    BY <1>12, <2>1 DEF ReadDelete, TypeOK
<1>13. ASSUME NEW r \in Requests, Drop(r) PROVE TypeOK'
  <2>1. run' \in [Requests -> Runs]
    BY <1>13, <1>p, StepType DEF Drop
  <2>2. QED
    BY <1>13, <2>1 DEF Drop, TypeOK
<1>14. ASSUME NEW r \in Requests, ResetRead(r) PROVE TypeOK'
  BY <1>14 DEF ResetRead, TypeOK
<1>15. ASSUME ResetReturns PROVE TypeOK'
  <2>1. run' \in [Requests -> Runs]
    BY <1>15, <1>p, EndType DEF ResetReturns, TypeOK
  <2>2. QED
    BY <1>15, <2>1 DEF ResetReturns, TypeOK
<1>16. ASSUME Crash PROVE TypeOK'
  <2>1. At("lost") \in Runs
    BY <1>p DEF At, Runs, Calls, Deletion
  <2>2. QED
    BY <1>16, <2>1 DEF Crash, TypeOK
<1>17. ASSUME Restart PROVE TypeOK'
  BY <1>17 DEF Restart, TypeOK
<1>18. QED
  BY <1>1, <1>2, <1>3, <1>4, <1>5, <1>6, <1>7, <1>8, <1>9, <1>10, <1>11, <1>12,
     <1>13, <1>14, <1>15, <1>16, <1>17 DEF Next, Progress
-----------------------------------------------------------------------------
\* Only a request at "reset" is served by the root, and the root lets go of a
\* request when it ends.
LEMMA ServerStep == IInv /\ Next => ServerInv'
<1> SUFFICES ASSUME IInv, Next PROVE ServerInv'
  OBVIOUS
<1> USE DEF rows, server, IInv, ServerInv
<1>r. /\ root # None => root.client \in Requests
      /\ run \in [Requests -> Runs]
  BY DEF TypeOK
<1>1. ASSUME NEW r \in Requests, UNCHANGED <<up, root>>, up,
             run[r].pc # "reset",
             run' = [run EXCEPT ![r] = run'[r]]
      PROVE  ServerInv'
  BY <1>1, <1>r
<1>2. ASSUME NEW r \in Requests, NEW call \in Calls, Accept(r, call)
      PROVE  ServerInv'
  <2>1. run' = [run EXCEPT ![r] = run'[r]]
    BY <1>2, <1>r DEF Accept
  <2>2. QED
    BY <1>2, <1>1, <2>1 DEF Accept
<1>3. ASSUME NEW r \in Requests, Progress(r) \/ MarkFails(r), ~ResetRead(r)
      PROVE  ServerInv'
  <2>1. /\ run[r].pc \notin Over \cup {"reset"}
        /\ UNCHANGED <<up, root>>
        /\ run' = [run EXCEPT ![r] = run'[r]]
    BY <1>3, <1>r
    DEF Progress, MarkFails, ReadEntry, WriteEntry, UpsertMetadata, UpdateFeed,
        UpdatesDone, ReadFinish, MarkFinished, RequestFails, InstallFails,
        ReadDelete, Drop, Step, End, Over
  <2>2. up
    BY <2>1 DEF Quiet, Running
  <2>3. QED
    BY <1>1, <2>1, <2>2
<1>4. ASSUME NEW r \in Requests, ResetRead(r) PROVE ServerInv'
  <2>1. up
    BY <1>4 DEF ResetRead, Quiet, Running, Over
  <2>2. run[r].pc = "reset" /\ run' = run /\ root'.client = r /\ up'
    BY <1>4, <2>1 DEF ResetRead
  <2>3. QED
    BY <2>2
<1>5. ASSUME NEW r \in Requests, ResetFails(r) PROVE ServerInv'
  <2>1. up
    BY <1>5 DEF ResetFails, Quiet, Running, Over
  <2>2. QED
    BY <1>5, <2>1 DEF ResetFails
<1>6. ASSUME ResetReturns PROVE ServerInv'
  <2>1. up
    BY <1>6 DEF ResetReturns
  <2>2. QED
    BY <1>6, <2>1 DEF ResetReturns
<1>7. ASSUME Crash PROVE ServerInv'
  BY <1>7, <1>r DEF Crash, Quiet, Running, At, Over
<1>8. ASSUME Restart PROVE ServerInv'
  BY <1>8 DEF Restart
<1>9. QED
  BY <1>2, <1>3, <1>4, <1>5, <1>6, <1>7, <1>8 DEF Next

\* The feeds of a system go with it.
LEMMA FeedsStep == IInv /\ Next => NoSystemNoFeeds'
<1> SUFFICES ASSUME IInv, Next PROVE NoSystemNoFeeds'
  OBVIOUS
<1> USE DEF rows, server, IInv, NoSystemNoFeeds
<1>1. ASSUME UNCHANGED <<system, feeds>> PROVE NoSystemNoFeeds'
  BY <1>1
<1>2. ASSUME NEW r \in Requests, WriteEntry(r) \/ MarkFinished(r)
      PROVE  NoSystemNoFeeds'
  <2>1. UNCHANGED feeds
    BY <1>2 DEF WriteEntry, MarkFinished
  <2>2. CASE system = None
    BY <2>1, <2>2
  <2>3. CASE system # None
    <3>1. FinalStatus(r) \in Statuses
      BY DEF FinalStatus, Statuses
    <3>2. system' \in Systems
      BY <1>2, <2>3, <3>1
      DEF WriteEntry, MarkFinished, TypeOK, Systems, Statuses, InProgress
    <3>3. QED
      BY <3>2, NoneAssumption
  <2>4. QED
    BY <2>2, <2>3
<1>3. ASSUME NEW r \in Requests, UpsertMetadata(r) PROVE NoSystemNoFeeds'
  BY <1>3 DEF UpsertMetadata
<1>4. ASSUME NEW r \in Requests, Drop(r) PROVE NoSystemNoFeeds'
  BY <1>4 DEF Drop
<1>5. QED
  BY <1>1, <1>2, <1>3, <1>4
  DEF Next, Progress, Accept, RequestFails, ReadEntry, InstallFails, UpdateFeed,
      UpdatesDone, ReadFinish, MarkFails, ReadDelete, ResetRead, ResetReturns,
      ResetFails, Crash, Restart
-----------------------------------------------------------------------------
\* A step that leaves the scheduler and the feed rows alone, and takes nothing
\* from the requests that will reset the scheduler, keeps ScheduleInv.
LEMMA ScheduleKept ==
  ASSUME ScheduleInv, UNCHANGED <<feeds, root, scheduled, up, owed>>,
         \A r \in Requests : WillReset(r) => WillReset(r)'
  PROVE  ScheduleInv'
BY DEF ScheduleInv, NextScheduled

\* A request other than the one being served comes to a point from which it
\* will reset the scheduler.
LEMMA ScheduleCovered ==
  ASSUME NEW r \in Requests, UNCHANGED root, root # None => r # root.client,
         \/ run'[r].pc = "reset"
         \/ system' # None /\ run'[r].pc \in {"update", "finish", "mark"}
  PROVE  ScheduleInv'
<1>1. WillReset(r)'
  BY DEF WillReset
<1>2. QED
  BY <1>1 DEF ScheduleInv

\* The heart of the argument: whatever a request writes, it, or another one
\* that finds the system deleted, is still going to reset the scheduler, and
\* the root reads the feeds after it has received the request.
LEMMA ScheduleStep == IInv /\ Next => ScheduleInv'
<1> SUFFICES ASSUME IInv, Next PROVE ScheduleInv'
  OBVIOUS
<1> USE DEF rows, server, IInv
<1>t. run \in [Requests -> Runs] /\ (root # None => root.client \in Requests)
  BY DEF TypeOK
<1>n. ASSUME NEW r \in Requests, run[r].pc # "reset"
      PROVE  root # None => r # root.client
  BY <1>n DEF ServerInv
<1>1. ASSUME NEW r \in Requests,
             UNCHANGED <<feeds, root, scheduled, up, owed>>,
             run' = [run EXCEPT ![r] = run'[r]],
             system = None <=> system' = None,
             WillReset(r) => WillReset(r)'
      PROVE  ScheduleInv'
  <2>1. \A q \in Requests : WillReset(q) => WillReset(q)'
    BY <1>1, <1>t DEF WillReset
  <2>2. QED
    BY <1>1, <2>1, ScheduleKept
<1>2. ASSUME NEW r \in Requests, NEW call \in Calls, Accept(r, call)
      PROVE  ScheduleInv'
  <2>1. ~WillReset(r) /\ run' = [run EXCEPT ![r] = run'[r]]
    BY <1>2, <1>t DEF Accept, WillReset
  <2>2. QED
    BY <1>2, <1>1, <2>1 DEF Accept
<1>3. ASSUME NEW r \in Requests, RequestFails(r) \/ ReadEntry(r) \/ ReadDelete(r)
      PROVE  ScheduleInv'
  <2>1. ~WillReset(r)
    BY <1>3 DEF RequestFails, ReadEntry, ReadDelete, WillReset, Step
  <2>2. run' = [run EXCEPT ![r] = run'[r]]
    BY <1>3, <1>t DEF RequestFails, ReadEntry, ReadDelete, Step, End
  <2>3. QED
    BY <1>3, <1>1, <2>1, <2>2 DEF RequestFails, ReadEntry, ReadDelete
<1>4. ASSUME NEW r \in Requests, WriteEntry(r) PROVE ScheduleInv'
  <2>1. system # None => system' # None
    BY <1>4, NoneAssumption DEF WriteEntry, TypeOK, Systems, Statuses, InProgress
  <2>2. \A q \in Requests : run[q].pc # "write" => run'[q] = run[q]
    BY <1>4, <1>t DEF WriteEntry, Step
  <2>3. run[r].pc = "write"
    BY <1>4 DEF WriteEntry, Step
  <2>4. \A q \in Requests : WillReset(q) => WillReset(q)'
    BY <1>4, <2>1, <2>2 DEF WillReset, WriteEntry
  <2>5. QED
    BY <1>4, <2>4, ScheduleKept DEF WriteEntry
<1>5. ASSUME NEW r \in Requests, InstallFails(r) PROVE ScheduleInv'
  <2>1. run' = [run EXCEPT ![r] = run'[r]] /\ run'[r].pc = "finish"
    BY <1>5, <1>t DEF InstallFails, Runs
  <2>2. WillReset(r) => WillReset(r)'
    BY <1>5, <2>1 DEF WillReset, InstallFails
  <2>3. QED
    BY <1>5, <1>1, <2>1, <2>2 DEF InstallFails
<1>6. ASSUME NEW r \in Requests, UpsertMetadata(r) PROVE ScheduleInv'
  <2>1. run'[r].pc = "update"
    BY <1>6, <1>t DEF UpsertMetadata, Runs
  <2>2. run[r].pc # "reset" /\ system' # None /\ UNCHANGED root
    BY <1>6 DEF UpsertMetadata
  <2>3. root # None => r # root.client
    BY <1>n, <2>2
  <2>4. QED
    BY <2>1, <2>2, <2>3, ScheduleCovered
<1>7. ASSUME NEW r \in Requests, NEW f \in Feeds, UpdateFeed(r, f)
      PROVE  ScheduleInv'
  <2>1. run' = [run EXCEPT ![r] = run'[r]] /\ run'[r].pc = run[r].pc
    BY <1>7, <1>t DEF UpdateFeed, Runs
  <2>2. WillReset(r) => WillReset(r)'
    BY <1>7, <2>1 DEF WillReset, UpdateFeed
  <2>3. QED
    BY <1>7, <1>1, <2>1, <2>2 DEF UpdateFeed
<1>8. ASSUME NEW r \in Requests, UpdatesDone(r) \/ ReadFinish(r)
      PROVE  ScheduleInv'
  <2>1. run' = [run EXCEPT ![r] = run'[r]]
    BY <1>8, <1>t DEF UpdatesDone, ReadFinish, Step, End
  <2>2. run[r].pc # "reset" /\ (system # None => run'[r].pc \in {"finish", "mark"})
    BY <1>8, <1>t DEF UpdatesDone, ReadFinish, Step, Runs
  <2>3. UNCHANGED <<rows, server>>
    BY <1>8 DEF UpdatesDone, ReadFinish
  <2>4. WillReset(r) => WillReset(r)'
    BY <2>2, <2>3 DEF WillReset
  <2>5. QED
    BY <1>1, <2>1, <2>3, <2>4
<1>9. ASSUME NEW r \in Requests, MarkFinished(r) \/ Drop(r)
      PROVE  ScheduleInv'
  <2>1. run[r].pc # "reset" /\ run'[r].pc = "reset" /\ UNCHANGED root
    BY <1>9, <1>t DEF MarkFinished, Drop, Step, Runs
  <2>2. root # None => r # root.client
    BY <1>n, <2>1
  <2>3. QED
    BY <2>1, <2>2, ScheduleCovered
<1>10. ASSUME NEW r \in Requests, MarkFails(r) \/ ResetFails(r)
       PROVE  ScheduleInv'
  BY <1>10 DEF MarkFails, ResetFails, ScheduleInv
<1>11. ASSUME NEW r \in Requests, ResetRead(r) PROVE ScheduleInv'
  <2>1. root' # None /\ root'.feeds = feeds /\ feeds' = feeds
    <3>1. [client |-> r, feeds |-> feeds]
            \in [client : Requests, feeds : SUBSET Feeds]
      BY DEF TypeOK
    <3>2. QED
      BY <1>11, <3>1, NoneAssumption DEF ResetRead
  <2>2. QED
    BY <2>1 DEF ScheduleInv, NextScheduled
<1>12. ASSUME ResetReturns PROVE ScheduleInv'
  <2>1. \A q \in Requests : WillReset(q) => WillReset(q)'
    BY <1>12, <1>t DEF ResetReturns, WillReset, End
  <2>2. NextScheduled' = NextScheduled /\ UNCHANGED <<up, owed, feeds>>
    BY <1>12 DEF ResetReturns, NextScheduled
  <2>3. QED
    BY <2>1, <2>2 DEF ScheduleInv
<1>13. ASSUME Crash PROVE ScheduleInv'
  BY <1>13 DEF Crash, ScheduleInv
<1>14. ASSUME Restart PROVE ScheduleInv'
  BY <1>14 DEF Restart, ServerInv, ScheduleInv, NextScheduled
<1>15. QED
  BY <1>2, <1>3, <1>4, <1>5, <1>6, <1>7, <1>8, <1>9, <1>10, <1>11, <1>12,
     <1>13, <1>14 DEF Next, Progress
-----------------------------------------------------------------------------
\* The inductive invariant holds.
THEOREM InstallInvariant == Spec => []IInv
<1>1. IInv /\ [Next]_vars => IInv'
  <2>1. IInv /\ Next => IInv'
    BY TypeStep, ServerStep, FeedsStep, ScheduleStep DEF IInv
  <2>2. IInv /\ UNCHANGED vars => IInv'
    BY DEF IInv, vars, rows, server, TypeOK, ServerInv, NoSystemNoFeeds,
           ScheduleInv, NextScheduled, WillReset, Quiet, Running
  <2>3. QED
    BY <2>1, <2>2
<1>2. QED
  BY <1>1, InitIInv, PTL DEF Spec

\* The variables of SystemInstall have their types.
THEOREM InstallTypeCorrect == Spec => []TypeOK
<1>1. IInv => TypeOK
  BY DEF IInv
<1>2. QED
  BY <1>1, InstallInvariant, PTL

\* When every request has ended, the scheduler updates the feeds the system
\* has, for any number of overlapping installs, updates and deletions.
THEOREM ScheduleIsCurrent == Spec => []QuietScheduleIsCurrent
<1>1. IInv => QuietScheduleIsCurrent
  <2> SUFFICES ASSUME IInv, up, ~owed, Quiet PROVE scheduled = feeds
    BY DEF QuietScheduleIsCurrent
  <2>1. \A r \in Requests : ~WillReset(r)
    BY DEF Quiet, Running, Over, WillReset
  <2>2. root = None
    BY DEF IInv, ServerInv, TypeOK, Quiet, Running, Over
  <2>3. QED
    BY <2>1, <2>2 DEF IInv, ScheduleInv, NextScheduled
<1>2. QED
  BY <1>1, InstallInvariant, PTL
-----------------------------------------------------------------------------
(***************************************************************************)
(* Requests that come one after the other.  While none has overlapped      *)
(* another, whatever faults there were, the one that is running finds the  *)
(* system row as it has left it.                                           *)
(***************************************************************************)

\* Where a request is with its install: the row it read is the row there is,
\* and the required feeds without data are those it still has to update,
\* unless it has failed.
AloneInv(r) ==
  /\ run[r].pc \in {"write", "mark", "drop"} => run[r].was = system
  /\ run[r].pc \in {"metadata", "update", "finish", "mark"} =>
       system # None /\ system.status \in InProgress
  /\ run[r].pc = "update" =>
       run[r].failed \/ feeds \cap Required \subseteq stored \cup run[r].left
  /\ run[r].pc \in {"finish", "mark"} =>
       run[r].failed \/ feeds \cap Required \subseteq stored

SequentialInv ==
  ~overlapped =>
    /\ \A q, r \in Requests : Running(q) /\ Running(r) => q = r
    /\ \A r \in Requests : AloneInv(r)
    /\ Installed

LEMMA InitSequentialInv == Init => SequentialInv
BY DEF Init, SequentialInv, Running, AloneInv, Installed, At, Over

\* Only the request that is running has to be looked at.
LEMMA SequentialKept ==
  ASSUME TypeOK, SequentialInv, NEW r \in Requests, Running(r),
         run' = [run EXCEPT ![r] = run'[r]], UNCHANGED overlapped,
         ~overlapped /\ AloneInv(r) /\ Installed => AloneInv(r)' /\ Installed'
  PROVE  SequentialInv'
<1> SUFFICES ASSUME ~overlapped PROVE SequentialInv'
  BY DEF SequentialInv
<1>1. \A q \in Requests \ {r} : ~Running(q) /\ run'[q] = run[q]
  BY DEF SequentialInv, TypeOK
<1>2. \A q \in Requests \ {r} : ~Running(q)' /\ AloneInv(q)'
  BY <1>1 DEF Running, AloneInv, Over
<1>3. \A q, p \in Requests : Running(q)' /\ Running(p)' => q = p
  BY <1>2
<1>4. AloneInv(r)' /\ Installed'
  BY DEF SequentialInv
<1>5. QED
  BY <1>2, <1>3, <1>4 DEF SequentialInv

LEMMA SequentialStep == TypeOK /\ SequentialInv /\ Next => SequentialInv'
<1> SUFFICES ASSUME TypeOK, SequentialInv, Next PROVE SequentialInv'
  OBVIOUS
<1> USE DEF rows, server
<1>t. run \in [Requests -> Runs] /\ system \in Systems \cup {None}
  BY DEF TypeOK
<1>1. ASSUME NEW r \in Requests, NEW call \in Calls, Accept(r, call)
      PROVE  SequentialInv'
  <2> SUFFICES ASSUME ~overlapped' PROVE SequentialInv'
    BY DEF SequentialInv
  <2>1. Quiet /\ ~overlapped /\ UNCHANGED rows
    BY <1>1 DEF Accept
  <2>2. /\ run'[r].pc \in {"entry", "delete"}
        /\ \A q \in Requests \ {r} : run'[q] = run[q]
    BY <1>1, <1>t DEF Accept, Runs
  <2>3. \A q \in Requests \ {r} : ~Running(q)'
    BY <2>1, <2>2 DEF Quiet, Running
  <2>4. \A q \in Requests : AloneInv(q)'
    BY <2>1, <2>2, <2>3 DEF AloneInv, Running, Over
  <2>5. Installed'
    BY <2>1 DEF SequentialInv, Installed
  <2>6. QED
    BY <2>3, <2>4, <2>5 DEF SequentialInv
<1>2. ASSUME NEW r \in Requests, UNCHANGED <<rows, overlapped>>, Running(r),
             End(r, "done") \/ End(r, "lost")
      PROVE  SequentialInv'
  <2>1. /\ run' = [run EXCEPT ![r] = run'[r]]
        /\ run'[r].pc \in Over
    BY <1>2, <1>t DEF End, At, Over
  <2>2. Installed => AloneInv(r)' /\ Installed'
    BY <1>2, <2>1 DEF AloneInv, Installed, Over
  <2>3. QED
    BY <1>2, <2>1, <2>2, SequentialKept
<1>3. ASSUME NEW r \in Requests, RequestFails(r) \/ MarkFails(r) \/ ResetFails(r)
      PROVE  SequentialInv'
  BY <1>2, <1>3 DEF RequestFails, MarkFails, ResetFails, Running, Over
<1>4. ASSUME NEW r \in Requests, ReadEntry(r) \/ ReadDelete(r) \/ ReadFinish(r)
      PROVE  SequentialInv'
  <2>1. CASE End(r, "done")
    BY <1>2, <1>4, <2>1
    DEF ReadEntry, ReadDelete, ReadFinish, Running, Over, Step
  <2>2. CASE ~End(r, "done")
    <3>1. /\ UNCHANGED <<rows, overlapped>>
          /\ \/ Step(r, "entry", "write", system)
             \/ Step(r, "delete", "drop", system)
             \/ Step(r, "finish", "mark", system)
      BY <1>4, <2>2 DEF ReadEntry, ReadDelete, ReadFinish
    <3>2. /\ run' = [run EXCEPT ![r] = run'[r]] /\ Running(r)
          /\ run'[r].was = system /\ run'[r].failed = run[r].failed
          /\ \/ run[r].pc = "entry" /\ run'[r].pc = "write"
             \/ run[r].pc = "delete" /\ run'[r].pc = "drop"
             \/ run[r].pc = "finish" /\ run'[r].pc = "mark"
      BY <3>1, <1>t DEF Step, Runs, Running, Over
    <3>3. AloneInv(r) /\ Installed => AloneInv(r)' /\ Installed'
      BY <3>1, <3>2 DEF AloneInv, Installed
    <3>4. QED
      BY <3>1, <3>2, <3>3, SequentialKept
  <2>3. QED
    BY <2>1, <2>2
<1>5. ASSUME NEW r \in Requests, WriteEntry(r) PROVE SequentialInv'
  <2>1. /\ run' = [run EXCEPT ![r] = run'[r]] /\ Running(r)
        /\ run[r].pc = "write" /\ run'[r].pc = "metadata"
        /\ UNCHANGED overlapped
    BY <1>5, <1>t DEF WriteEntry, Step, Runs, Running, Over
  <2>2. AloneInv(r) => system' # None /\ system'.status \in InProgress
    <3>1. CASE system = None
      <4>1. AloneInv(r) => system' = [pk |-> r, status |-> "INSTALLING"]
        BY <1>5, <2>1, <3>1 DEF WriteEntry, AloneInv
      <4>2. [pk |-> r, status |-> "INSTALLING"] \in Systems
        BY DEF Systems, Statuses, InProgress
      <4>3. QED
        BY <4>1, <4>2, NoneAssumption DEF InProgress
    <3>2. CASE system # None
      <4>1. AloneInv(r) => system' = [system EXCEPT !.status = "UPDATING"]
        BY <1>5, <2>1, <3>2 DEF WriteEntry, AloneInv, StillThere
      <4>2. /\ [system EXCEPT !.status = "UPDATING"] \in Systems
            /\ [system EXCEPT !.status = "UPDATING"].status = "UPDATING"
        BY <1>t, <3>2 DEF Systems, Statuses, InProgress
      <4>3. QED
        BY <4>1, <4>2, NoneAssumption DEF InProgress
    <3>3. QED
      BY <3>1, <3>2
  <2>3. AloneInv(r) => AloneInv(r)' /\ Installed'
    BY <2>1, <2>2 DEF AloneInv, Installed, InProgress
  <2>4. QED
    BY <2>1, <2>3, SequentialKept
<1>6. ASSUME NEW r \in Requests, InstallFails(r) PROVE SequentialInv'
  <2>1. /\ run' = [run EXCEPT ![r] = run'[r]] /\ Running(r)
        /\ run[r].pc \in {"metadata", "update"} /\ run'[r].pc = "finish"
        /\ run'[r].failed /\ UNCHANGED <<rows, overlapped>>
    BY <1>6, <1>t DEF InstallFails, Runs, Running, Over
  <2>2. AloneInv(r) /\ Installed => AloneInv(r)' /\ Installed'
    BY <2>1 DEF AloneInv, Installed
  <2>3. QED
    BY <2>1, <2>2, SequentialKept
<1>7. ASSUME NEW r \in Requests, UpsertMetadata(r) PROVE SequentialInv'
  <2>1. /\ run' = [run EXCEPT ![r] = run'[r]] /\ Running(r)
        /\ run[r].pc = "metadata" /\ run'[r].pc = "update"
        /\ run'[r].left = feeds' \cap Required
        /\ UNCHANGED <<system, overlapped>>
    BY <1>7, <1>t DEF UpsertMetadata, Runs, Running, Over
  <2>2. AloneInv(r) => AloneInv(r)' /\ Installed'
    BY <2>1 DEF AloneInv, Installed, InProgress
  <2>3. QED
    BY <2>1, <2>2, SequentialKept
<1>8. ASSUME NEW r \in Requests, NEW f \in Feeds, UpdateFeed(r, f)
      PROVE  SequentialInv'
  <2>1. /\ run' = [run EXCEPT ![r] = run'[r]] /\ Running(r)
        /\ run[r].pc = "update" /\ run'[r].pc = "update"
        /\ run'[r].left = run[r].left \ {f} /\ run'[r].failed = run[r].failed
        /\ stored' = stored \cup {f}
        /\ UNCHANGED <<system, feeds, overlapped>>
    BY <1>8, <1>t DEF UpdateFeed, Runs, Running, Over
  <2>2. AloneInv(r) => AloneInv(r)' /\ Installed'
    BY <2>1 DEF AloneInv, Installed, InProgress
  <2>3. QED
    BY <2>1, <2>2, SequentialKept
<1>9. ASSUME NEW r \in Requests, UpdatesDone(r) PROVE SequentialInv'
  <2>1. /\ run' = [run EXCEPT ![r] = run'[r]] /\ Running(r)
        /\ run[r].pc = "update" /\ run'[r].pc = "finish"
        /\ run[r].left = {} /\ run'[r].failed = run[r].failed
        /\ UNCHANGED <<rows, overlapped>>
    BY <1>9, <1>t DEF UpdatesDone, Step, Runs, Running, Over
  <2>2. AloneInv(r) /\ Installed => AloneInv(r)' /\ Installed'
    BY <2>1 DEF AloneInv, Installed
  <2>3. QED
    BY <2>1, <2>2, SequentialKept
<1>10. ASSUME NEW r \in Requests, MarkFinished(r) PROVE SequentialInv'
  <2>1. /\ run' = [run EXCEPT ![r] = run'[r]] /\ Running(r)
        /\ run[r].pc = "mark" /\ run'[r].pc = "reset"
        /\ UNCHANGED <<feeds, stored, overlapped>>
    BY <1>10, <1>t DEF MarkFinished, Step, Runs, Running, Over
  <2>2. AloneInv(r) => system'.status = FinalStatus(r)
    <3>1. AloneInv(r) => /\ system \in Systems
                         /\ system' = [system EXCEPT !.status = FinalStatus(r)]
      BY <1>10, <1>t, <2>1 DEF MarkFinished, AloneInv, StillThere
    <3>2. QED
      BY <3>1 DEF Systems
  <2>3. AloneInv(r) /\ run[r].failed => system'.status # "ACTIVE"
    BY <2>2 DEF FinalStatus
  <2>4. AloneInv(r) => Installed'
    BY <2>1, <2>3 DEF AloneInv, Installed
  <2>5. AloneInv(r)'
    BY <2>1 DEF AloneInv
  <2>6. QED
    BY <2>1, <2>4, <2>5, SequentialKept
<1>11. ASSUME NEW r \in Requests, Drop(r) PROVE SequentialInv'
  <2>1. /\ run' = [run EXCEPT ![r] = run'[r]] /\ Running(r)
        /\ run[r].pc = "drop" /\ run'[r].pc = "reset"
        /\ UNCHANGED overlapped
        /\ system' = None \/ UNCHANGED rows
    BY <1>11, <1>t DEF Drop, Step, Runs, Running, Over
  <2>2. AloneInv(r) /\ Installed => AloneInv(r)' /\ Installed'
    BY <2>1 DEF AloneInv, Installed
  <2>3. QED
    BY <2>1, <2>2, SequentialKept
<1>12. ASSUME UNCHANGED <<rows, run, overlapped>> PROVE SequentialInv'
  BY <1>12 DEF SequentialInv, Running, AloneInv, Installed
<1>13. ASSUME ResetReturns PROVE SequentialInv'
  <2>1. CASE Running(root.client)
    BY <1>2, <1>13, <2>1 DEF ResetReturns, TypeOK
  <2>2. CASE ~Running(root.client)
    <3>1. \A q \in Requests : Running(q)' => Running(q) /\ run'[q] = run[q]
      BY <1>13, <1>t DEF ResetReturns, End, Running, At, Over
    <3>2. \A q \in Requests : ~Running(q)' => AloneInv(q)'
      BY DEF AloneInv, Running, Over
    <3>3. UNCHANGED <<rows, overlapped>>
      BY <1>13 DEF ResetReturns
    <3>4. QED
      BY <3>1, <3>2, <3>3 DEF SequentialInv, AloneInv, Installed
  <2>3. QED
    BY <2>1, <2>2
<1>14. ASSUME Crash PROVE SequentialInv'
  <2>1. \A q \in Requests : ~Running(q)'
    BY <1>14 DEF Crash, Running, At, Over
  <2>2. \A q \in Requests : AloneInv(q)'
    BY <2>1 DEF AloneInv, Running, Over
  <2>3. UNCHANGED <<rows, overlapped>>
    BY <1>14 DEF Crash
  <2>4. QED
    BY <2>1, <2>2, <2>3 DEF SequentialInv, Installed
<1>15. QED
  BY <1>1, <1>3, <1>4, <1>5, <1>6, <1>7, <1>8, <1>9, <1>10, <1>11, <1>12,
     <1>13, <1>14 DEF Next, Progress, ResetRead, Restart

\* Of requests that come one after the other: a system that is ACTIVE has the
\* data of every feed required for its install, also after any crash and any
\* failed transaction or reset.
THEOREM ActiveIsInstalled == Spec => []SequentiallyActiveMeansInstalled
<1>1. SequentialInv => SequentiallyActiveMeansInstalled
  BY DEF SequentialInv, SequentiallyActiveMeansInstalled
<1>2. TypeOK /\ SequentialInv /\ [Next]_vars => SequentialInv'
  <2>1. SequentialInv /\ UNCHANGED vars => SequentialInv'
    BY DEF SequentialInv, vars, rows, server, Running, AloneInv, Installed
  <2>2. QED
    BY <2>1, SequentialStep
<1>3. QED
  BY <1>1, <1>2, InitSequentialInv, InstallTypeCorrect, PTL DEF Spec
-----------------------------------------------------------------------------
(***************************************************************************)
(* The life of the server process (the module ServerLifecycle), for any    *)
(* number of handlers: the pool outlives what Run waits for.               *)
(***************************************************************************)
\* Nothing runs before Prepare, and after Wait nothing that it waits for.
BeforeRun == {"connect", "prepare"}
AfterRun == {"close", "closing", "cancel", "returned"}

LifeQuiet ==
  /\ pc \in BeforeRun => scheduler = "off" /\ \A s \in Life!Servers : serverOf[s] = "off"
  /\ pc \in AfterRun => scheduler \in Life!Done /\ \A s \in Life!Servers : serverOf[s] \in Life!Done

\* The servers that Run has not come to are off.
OffFromNext == \A i \in next..4 : serverOf[Life!Order[i]] = "off"

\* A gRPC server goes on while it has requests.
LifeBusy ==
  /\ updating => scheduler \in {"running", "blocked"}
  /\ \A h \in Handlers : at[h] \in Life!Grpc => serverOf[at[h]] \in {"serving", "draining"}

PoolPhases == pool # "open" => pc \in {"connect", "closing", "cancel", "returned"}

LifeInv == Life!TypeOK /\ LifeQuiet /\ OffFromNext /\ LifeBusy /\ PoolPhases

(* The order of the servers: each once. *)
LEMMA OrderFacts ==
  /\ Len(Life!Order) = 4
  /\ \A i \in 1..4 : Life!Order[i] \in Life!Servers
  /\ \A i, j \in 1..4 : Life!Order[i] = Life!Order[j] => i = j
BY DEF Life!Order, Life!Servers, Life!Grpc

LEMMA LifeInitInv ==
  Life!Init => LifeInv
<1> SUFFICES ASSUME Life!Init PROVE LifeInv
  OBVIOUS
<1>1. Life!TypeOK
  <2>1. args \in [servers : SUBSET Life!Servers, scheduler : BOOLEAN]
    BY DEF Life!Init
  <2>2. cancelled = FALSE /\ pc = "connect" /\ next = 1 /\ failed = FALSE /\ pool = "none"
    BY DEF Life!Init
  <2>3. deferred = {} /\ stopping = {} /\ scheduler = "off" /\ serving = Nobody /\ updating = FALSE
    BY DEF Life!Init
  <2>4. /\ serverOf = [s \in Life!Servers |-> "off"]
        /\ at = [h \in Handlers |-> Nobody] /\ doing = [h \in Handlers |-> "nothing"]
    BY DEF Life!Init
  <2>5. /\ serverOf \in [Life!Servers -> {"off", "starting", "serving", "draining", "done", "exited"}]
        /\ at \in [Handlers -> Life!Servers \cup {"install", Nobody}]
        /\ doing \in [Handlers -> {"nothing", "working", "query", "sending", "awaiting"}]
    BY <2>4
  <2>6. deferred \subseteq args.servers /\ stopping \subseteq deferred /\ next \in 1..(Len(Life!Order) + 1)
    BY <2>2, <2>3, OrderFacts
  <2>7. QED
    BY <2>1, <2>2, <2>3, <2>5, <2>6 DEF Life!TypeOK
<1>2. OffFromNext
  BY OrderFacts DEF Life!Init, OffFromNext
<1>3. QED
  BY NobodyAssumption, <1>1, <1>2 DEF Life!Init, LifeInv, LifeQuiet, BeforeRun, AfterRun, LifeBusy, PoolPhases, Life!Servers

(* The steps of the goroutine of Run keep the invariant. *)
LEMMA MainKeepsInv == LifeInv /\ Life!MainStep => LifeInv'
<1> SUFFICES ASSUME LifeInv, Life!MainStep PROVE LifeInv'
  OBVIOUS
<1> USE OrderFacts DEF LifeInv, LifeQuiet, BeforeRun, AfterRun, LifeBusy, PoolPhases, Life!Done, Life!schedulerVars, Life!handlerVars
<1>1. CASE Life!Connect
  BY <1>1 DEF Life!Connect, Life!TypeOK, OffFromNext
<1>2. CASE Life!Prepare
  BY <1>2 DEF Life!Prepare, Life!TypeOK, OffFromNext
<1>3. CASE Life!ResetCancelled
  BY <1>3 DEF Life!ResetCancelled, Life!TypeOK, OffFromNext
<1>4. CASE Life!StartServer
  <2>1. CASE next > 4
    BY <1>4, <2>1 DEF Life!StartServer, Life!TypeOK, OffFromNext
  <2>2. CASE next \in 1..4 /\ Life!Order[next] \notin args.servers
    BY <1>4, <2>2 DEF Life!StartServer, Life!TypeOK, OffFromNext
  <2>3. CASE next \in 1..4 /\ Life!Order[next] \in args.servers /\ pc' = "shutdown"
    <3>1. /\ pc = "start" /\ deferred' = deferred \cup {Life!Order[next]} /\ failed' = TRUE
          /\ UNCHANGED <<args, next, pool, stopping, cancelled, serverOf, scheduler, serving, updating, at, doing>>
      BY <1>4, <2>3 DEF Life!StartServer, Life!TypeOK
    <3>2. Life!TypeOK'
      BY <2>3, <3>1 DEF Life!TypeOK
    <3>3. QED
      BY <2>3, <3>1, <3>2 DEF OffFromNext
  <2>4. CASE /\ next \in 1..4 /\ Life!Order[next] \in args.servers
             /\ next' = next + 1 /\ serverOf' = [serverOf EXCEPT ![Life!Order[next]] = "starting"]
             /\ UNCHANGED <<pc, failed>>
    <3>1. Life!TypeOK'
      BY <1>4, <2>4 DEF Life!StartServer, Life!TypeOK
    <3>2. OffFromNext'
      BY <1>4, <2>4 DEF Life!StartServer, Life!TypeOK, OffFromNext
    <3>3. LifeBusy'
      BY <1>4, <2>4 DEF Life!StartServer, Life!TypeOK, OffFromNext
    <3>4. QED
      BY <1>4, <2>4, <3>1, <3>2, <3>3 DEF Life!StartServer, Life!TypeOK
  <2>5. QED
    BY <1>4, <2>1, <2>2, <2>3, <2>4 DEF Life!StartServer, Life!TypeOK
<1>5. CASE Life!AwaitCancellation
  BY <1>5 DEF Life!AwaitCancellation, Life!TypeOK, OffFromNext
<1>6. CASE Life!TriggerShutdown
  BY <1>6 DEF Life!TriggerShutdown, Life!TypeOK, OffFromNext
<1>7. CASE Life!Wait
  BY <1>7 DEF Life!Wait, Life!TypeOK, OffFromNext
<1>8. CASE Life!Close
  BY <1>8 DEF Life!Close, Life!TypeOK, OffFromNext
<1>9. CASE Life!Closed
  BY <1>9 DEF Life!Closed, Life!TypeOK, OffFromNext
<1>10. CASE Life!Return
  BY <1>10 DEF Life!Return, Life!TypeOK, OffFromNext
<1>11. QED
  BY <1>1, <1>2, <1>3, <1>4, <1>5, <1>6, <1>7, <1>8, <1>9, <1>10 DEF Life!MainStep

(* The steps of a server keep the invariant. *)
LEMMA ServersKeepInv == ASSUME NEW s \in Life!Servers PROVE LifeInv /\ Life!ServerStep(s) => LifeInv'
<1> SUFFICES ASSUME LifeInv, Life!ServerStep(s) PROVE LifeInv'
  OBVIOUS
<1> USE OrderFacts DEF LifeInv, LifeQuiet, BeforeRun, AfterRun, LifeBusy, PoolPhases, Life!Done, OffFromNext,
                       Life!TypeOK, Life!mainVars, Life!schedulerVars, Life!handlerVars
<1>1. CASE Life!Serve(s)
  <2>1. PICK to \in {"serving", "done"} :
          /\ serverOf' = [serverOf EXCEPT ![s] = to] /\ serverOf[s] = "starting"
          /\ UNCHANGED <<args, cancelled, pc, next, failed, pool, deferred, stopping, scheduler,
                         serving, updating, at, doing>>
    BY <1>1 DEF Life!Serve
  <2>2. QED
    BY <2>1
<1>2. CASE Life!StopServer(s)
  BY <1>2 DEF Life!StopServer
<1>3. CASE Life!ServerDrained(s)
  BY <1>3 DEF Life!ServerDrained
<1>4. CASE Life!ServerExits(s)
  BY <1>4 DEF Life!ServerExits
<1>5. QED
  BY <1>1, <1>2, <1>3, <1>4 DEF Life!ServerStep

(* The steps of the scheduler keep the invariant. *)
LEMMA SchedulerKeepsInv == LifeInv /\ Life!SchedulerStep => LifeInv'
<1> SUFFICES ASSUME LifeInv, Life!SchedulerStep PROVE LifeInv'
  OBVIOUS
<1> USE OrderFacts DEF LifeInv, LifeQuiet, BeforeRun, AfterRun, LifeBusy, PoolPhases, Life!Done, OffFromNext,
                       Life!TypeOK, Life!mainVars, Life!handlerVars
<1>1. CASE Life!Receive
  BY <1>1 DEF Life!Receive
<1>2. CASE Life!Answer
  <2>1. /\ serving' = Nobody /\ Life!Awaited
        /\ UNCHANGED <<args, next, pool, deferred, stopping, cancelled, serverOf, scheduler, updating, at>>
    BY <1>2 DEF Life!Answer
  <2>2. CASE serving = Main
    <3>1. pc = "awaitReset" /\ pc' \in {"start", "shutdown"} /\ failed' \in BOOLEAN /\ doing' = doing
      BY <1>2, <2>1, <2>2 DEF Life!Answer, Life!Awaited
    <3>2. QED
      BY <2>1, <3>1
  <2>3. CASE serving # Main
    <3>1. doing' = [doing EXCEPT ![serving] = "working"] /\ pc' = pc /\ failed' = failed
      BY <1>2, <2>3 DEF Life!Answer
    <3>2. doing' \in [Handlers -> {"nothing", "working", "query", "sending", "awaiting"}]
      BY <3>1
    <3>3. QED
      BY <2>1, <3>1, <3>2
  <2>4. QED
    BY <2>2, <2>3
<1>3. CASE Life!StartUpdate
  BY <1>3 DEF Life!StartUpdate
<1>4. CASE Life!EndUpdate
  BY <1>4 DEF Life!EndUpdate
<1>5. CASE Life!SchedulerReturns
  BY <1>5 DEF Life!SchedulerReturns
<1>6. CASE Life!SchedulerExits
  BY <1>6 DEF Life!SchedulerExits
<1>7. CASE Life!Block
  BY <1>7 DEF Life!Block
<1>8. QED
  BY <1>1, <1>2, <1>3, <1>4, <1>5, <1>6, <1>7 DEF Life!SchedulerStep

(* The steps of a handler keep the invariant. *)
LEMMA HandlerKeepsInv ==
  ASSUME NEW h \in Handlers
  PROVE  LifeInv /\ Life!HandlerStep(h) => LifeInv'
<1> SUFFICES ASSUME LifeInv, Life!HandlerStep(h) PROVE LifeInv'
  OBVIOUS
<1> USE OrderFacts DEF LifeInv, LifeQuiet, BeforeRun, AfterRun, LifeBusy, PoolPhases, Life!Done, OffFromNext,
                       Life!TypeOK, Life!mainVars, Life!schedulerVars
<1>0. ASSUME NEW place \in {"install", Nobody}, at' = [at EXCEPT ![h] = place],
                  UNCHANGED <<Life!mainVars, cancelled, serverOf, Life!schedulerVars>>,
                  doing' \in [Handlers -> {"nothing", "working", "query", "sending", "awaiting"}],
                  place \notin Life!Servers
           PROVE LifeInv'
  <2>1. place \notin Life!Grpc
    BY <1>0 DEF Life!Servers
  <2>2. LifeBusy'
    BY <1>0, <2>1
  <2>3. Life!TypeOK'
    BY <1>0
  <2>4. QED
    BY <1>0, <2>2, <2>3
<1>1. ASSUME NEW s \in Life!Servers, Life!Arrive(h, s) PROVE LifeInv'
  BY <1>1 DEF Life!Arrive
<1>2. CASE Life!Query(h)
  BY <1>2 DEF Life!Query, Life!Work
<1>3. CASE Life!EndQuery(h)
  BY <1>3 DEF Life!EndQuery, Life!Work
<1>4. CASE Life!CallScheduler(h)
  BY <1>4 DEF Life!CallScheduler, Life!Work
<1>5. CASE Life!GoInstall(h)
  <2>1. "install" \notin Life!Servers
    BY DEF Life!Servers, Life!Grpc
  <2>2. QED
    BY <1>5, <2>1, <1>0 DEF Life!GoInstall
<1>6. CASE Life!Finish(h)
  <2>1. doing' \in [Handlers -> {"nothing", "working", "query", "sending", "awaiting"}]
    BY <1>6 DEF Life!Finish
  <2>2. QED
    BY NobodyAssumption, <1>6, <2>1, <1>0 DEF Life!Finish
<1>7. CASE Life!GiveUp(h)
  BY <1>7 DEF Life!GiveUp, Life!Work
<1>8. QED
  BY <1>1, <1>2, <1>3, <1>4, <1>5, <1>6, <1>7 DEF Life!HandlerStep

(* The inductive invariant of the life of the process: before the scheduler's *)
(* goroutine is started nothing runs, after wg.Wait nothing that was waited   *)
(* for does, a gRPC server goes on while it has requests, and the pool is     *)
(* closed only after wg.Wait.                                                 *)
THEOREM LifecycleInvariant ==
  Life!Spec => []LifeInv
<1>1. LifeInv /\ [Life!Next]_Life!vars => LifeInv'
  <2> SUFFICES ASSUME LifeInv, [Life!Next]_Life!vars PROVE LifeInv'
    OBVIOUS
  <2>1. CASE Life!Interrupt
    BY <2>1 DEF Life!Interrupt, LifeInv, LifeQuiet, LifeBusy, PoolPhases, OffFromNext, Life!TypeOK,
                Life!mainVars, Life!schedulerVars, Life!handlerVars
  <2>2. CASE UNCHANGED Life!vars
    BY <2>2 DEF Life!vars, LifeInv, LifeQuiet, LifeBusy, PoolPhases, OffFromNext, Life!TypeOK,
                Life!mainVars, Life!schedulerVars, Life!handlerVars
  <2>3. QED
    BY <2>1, <2>2, MainKeepsInv, ServersKeepInv, SchedulerKeepsInv, HandlerKeepsInv DEF Life!Next
<1>2. QED
  BY LifeInitInv, <1>1, PTL DEF Life!Spec

(* The variables of the server process have their types. *)
THEOREM LifecycleTypeCorrect ==
  Life!Spec => []Life!TypeOK
<1>1. LifeInv => Life!TypeOK
  BY DEF LifeInv
<1>2. QED
  BY <1>1, LifecycleInvariant, PTL

(* No feed update of the scheduler and no gRPC request ever finds the database *)
(* pool closed, however many requests there are and whenever Run is interrupted *)
(* or fails.                                                                  *)
THEOREM PoolIsClosedLast ==
  Life!Spec => []PoolOutlivesServices
<1>1. LifeInv => PoolOutlivesServices
  BY DEF LifeInv, LifeQuiet, BeforeRun, AfterRun, LifeBusy, PoolPhases, PoolOutlivesServices, Life!PoolOutlivesServices, Life!Done, Life!TypeOK, Life!Grpc, Life!Servers
<1>2. QED
  BY <1>1, LifecycleInvariant, PTL
=============================================================================
