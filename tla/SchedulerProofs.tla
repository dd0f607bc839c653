--------------------------- MODULE SchedulerProofs ---------------------------
(***************************************************************************)
(* Theorems about the module Scheduler, for every set of systems, feeds    *)
(* and callers, and about the module FeedScheduler.                        *)
(***************************************************************************)
EXTENDS Scheduler, OneFeed, Sequences, TLAPS

(***************************************************************************)
(* The inductive invariant.  Its parts:                                    *)
(***************************************************************************)

\* The update goroutines of a feed are exactly what its updateRunning says,
\* and a feed scheduler outlives them.
FeedInv(f) ==
  /\ calls[f] + reports[f] = IF updating[f] THEN 1 ELSE 0
  /\ fs[f] \in {"none", "exited"} => ~updating[f]
  /\ fs[f] = "draining" => updating[f]

\* Feed schedulers exist only under a system scheduler that has not exited,
\* and the feeds it still has to start are its own and have none.
SystemInv(s) ==
  /\ ss[s] \in {"none", "exited"} =>
       \A f \in Feeds : Owner[f] = s => fs[f] = "none"
  /\ ss[s] = "starting" => \A f \in todo[s] : fs[f] = "none"

\* A system scheduler serves a reset or a status request only while the root
\* waits for its answer.
ServingInv(s) ==
  /\ ss[s] \in {"stopping", "starting"} =>
       root.pc = "awaitReset" /\ root.sys = s /\ todo[s] \subseteq root.feeds
  /\ ss[s] = "status" => root.pc = "awaitStatus" /\ root.sys = s

ResetPcs == {"agencies", "sendReset", "awaitReset"}

RootInv ==
  /\ root.pc \in {"config", "awaitStatus"} \cup ResetPcs \cup StopPcs =>
       root.sys \in Systems
  /\ root.pc \in ResetPcs => \A f \in root.feeds : Owner[f] = root.sys
  /\ root.pc = "returned" => \A s \in Systems : ss[s] = "none"

WantedInv == \A s \in Systems : \A f \in wanted[s] : Owner[f] = s

IInv ==
  /\ TypeOK
  /\ \A f \in Feeds : FeedInv(f)
  /\ \A s \in Systems : SystemInv(s) /\ ServingInv(s)
  /\ RootInv
  /\ WantedInv
-----------------------------------------------------------------------------
\* The initial state satisfies the inductive invariant.
LEMMA InitIInv == Init => IInv
<1> SUFFICES ASSUME Init PROVE IInv
  OBVIOUS
<1> USE OwnerAssumption DEF Init
<1>1. AtSelect \in RootStates
  BY DEF AtSelect, RootStates, RootPcs
<1>2. TypeOK
  BY <1>1 DEF TypeOK, SystemPcs, FeedPcs
<1>3. /\ \A f \in Feeds : FeedInv(f)
      /\ \A s \in Systems : SystemInv(s) /\ ServingInv(s)
  BY DEF FeedInv, SystemInv, ServingInv
<1>4. RootInv /\ WantedInv
  BY DEF RootInv, WantedInv, AtSelect, ResetPcs, StopPcs
<1>5. QED
  BY <1>2, <1>3, <1>4 DEF IInv

\* What the root looks like after resetSystem has returned.
LEMMA ResetReturnsIs ==
  ASSUME root \in RootStates, root.sys \in Systems, NEW ok \in BOOLEAN
  PROVE  /\ ResetReturns(ok) \in RootStates
         /\ ResetReturns(ok).pc \in {"next", "reply"}
<1>1. ResetReturns(ok) \in RootStates
  <2>1. "next" \in RootPcs /\ "reply" \in RootPcs
    BY DEF RootPcs
  <2>2. (~ok) \in BOOLEAN /\ (IF ok THEN root.updated \cup {root.sys} ELSE root.updated) \in SUBSET Systems
    BY DEF RootStates
  <2>3. QED
    BY <2>1, <2>2 DEF RootStates, ResetReturns
<1>2. ResetReturns(ok).pc \in {"next", "reply"}
  BY DEF RootStates, RootPcs, ResetReturns
<1>3. QED
  BY <1>1, <1>2

\* While the root is not waiting for an answer of a system scheduler none is
\* serving a request, so a step of the root alone disturbs only the root's
\* part of the invariant.
LEMMA RootAlone ==
  ASSUME IInv, TypeOK', RootInv', root.pc \notin {"awaitReset", "awaitStatus"},
         UNCHANGED <<wanted, systemVars, feedVars>>
  PROVE  IInv'
<1> USE DEF IInv, systemVars, feedVars
<1>1. \A f \in Feeds : FeedInv(f)'
  BY DEF FeedInv
<1>2. \A s \in Systems : SystemInv(s)' /\ ServingInv(s)'
  BY DEF SystemInv, ServingInv
<1>3. WantedInv'
  BY DEF WantedInv
<1>4. QED
  BY <1>1, <1>2, <1>3

\* The environment and the callers.
LEMMA EnvironmentIInv == IInv /\ Environment => IInv'
<1> SUFFICES ASSUME IInv, Environment PROVE IInv'
  OBVIOUS
<1> USE OwnerAssumption DEF dbVars, systemVars, feedVars
<1>1. ASSUME NEW s \in Systems, NEW F \in SUBSET FeedsOf(s),
             \/ EditSystem(s, F)
             \/ DeleteSystem(s)
      PROVE  IInv'
  <2> WantedInv /\ TypeOK
    BY DEF IInv
  <2> PICK W \in SUBSET FeedsOf(s) :
           /\ wanted' = [wanted EXCEPT ![s] = W]
           /\ synced' = [synced EXCEPT ![s] = FALSE]
           /\ installed' \in {installed \cup {s}, installed \ {s}}
           /\ UNCHANGED <<cancelled, sending, root, systemVars, feedVars>>
    BY <1>1 DEF EditSystem, DeleteSystem
  <2> W \subseteq Feeds /\ \A f \in W : Owner[f] = s
    BY DEF FeedsOf
  <2>1. TypeOK'
    BY DEF TypeOK
  <2>2. WantedInv'
    BY DEF TypeOK, WantedInv
  <2>3. UNCHANGED <<root, ss, todo, fs, updating, calls, reports>>
    BY <1>1 DEF EditSystem, DeleteSystem
  <2>4. QED
    BY <2>1, <2>2, <2>3 DEF IInv, FeedInv, SystemInv, ServingInv, RootInv
<1>2. ASSUME NEW c \in Callers, NEW req \in Requests, Call(c, req)
      PROVE  IInv'
  <2>1. TypeOK'
    BY <1>2 DEF IInv, TypeOK, Call
  <2>2. QED
    BY <1>2, <2>1 DEF IInv, FeedInv, SystemInv, ServingInv, RootInv, WantedInv,
                      Call
<1>3. ASSUME NEW c \in Callers, Abandon(c)
      PROVE  IInv'
  <2>1. root' \in RootStates
    BY <1>3 DEF IInv, TypeOK, Abandon, RootStates
  <2>2. TypeOK'
    BY <1>3, <2>1 DEF IInv, TypeOK, Abandon
  <2>3. root'.pc = root.pc /\ root'.sys = root.sys /\ root'.feeds = root.feeds
    BY <1>3 DEF IInv, TypeOK, Abandon, RootStates
  <2>4. QED
    BY <1>3, <2>2, <2>3 DEF IInv, FeedInv, SystemInv, ServingInv, RootInv,
                            WantedInv, Abandon
<1>4. ASSUME CancelContext
      PROVE  IInv'
  <2>1. TypeOK'
    BY <1>4 DEF IInv, TypeOK, CancelContext
  <2>2. QED
    BY <1>4, <2>1 DEF IInv, FeedInv, SystemInv, ServingInv, RootInv, WantedInv,
                      CancelContext
<1>5. QED
  BY <1>1, <1>2, <1>3, <1>4 DEF Environment

\* Receiving a request, and the end of the root's context.
LEMMA ReceiveIInv ==
  ASSUME IInv, NEW c \in Callers, Receive(c)
  PROVE  IInv'
<1> USE DEF dbVars, systemVars, feedVars
<1>1. root' \in RootStates /\ RootInv'
  <2> DEFINE serving == [AtSelect EXCEPT !.job = sending[c], !.client = c]
  <2>1. /\ sending[c] \in Requests
        /\ sending[c].kind = "resetSystem" => sending[c].sys \in Systems
    BY DEF Receive, IInv, TypeOK, Requests
  <2>2. CASE root' = [serving EXCEPT !.pc = "list"]
    BY <2>1, <2>2 DEF AtSelect, RootStates, RootPcs, RootInv, ResetPcs, StopPcs
  <2>3. CASE /\ sending[c].kind = "resetSystem"
             /\ root' = [serving EXCEPT !.pc = "config",
                                        !.sys = sending[c].sys]
    BY <2>1, <2>3 DEF AtSelect, RootStates, RootPcs, RootInv, ResetPcs, StopPcs
  <2>4. CASE root' = [serving EXCEPT !.pc = "status", !.left = Started]
    BY <2>1, <2>4 DEF AtSelect, RootStates, RootPcs, RootInv, ResetPcs, StopPcs,
                      Started
  <2>5. QED
    BY <2>2, <2>3, <2>4 DEF Receive
<1>2. TypeOK'
  BY <1>1 DEF Receive, IInv, TypeOK
<1>3. QED
  BY <1>1, <1>2, RootAlone DEF Receive

LEMMA RootCancelledIInv ==
  ASSUME IInv, RootCancelled
  PROVE  IInv'
<1> USE DEF dbVars, systemVars, feedVars
<1>1. root' \in RootStates /\ RootInv'
  BY DEF RootCancelled, IInv, TypeOK, RootStates, RootPcs, RootInv, ResetPcs,
         StopPcs
<1>2. TypeOK'
  BY <1>1 DEF RootCancelled, IInv, TypeOK
<1>3. QED
  BY <1>1, <1>2, RootAlone DEF RootCancelled

\* The steps of the root that neither send to nor create nor drop a system
\* scheduler.
LEMMA RootOnlyIInv ==
  ASSUME IInv,
         \/ ListSystems \/ NextSystem \/ GetSystemConfig
         \/ Sweep \/ StatusDone \/ Reply \/ Shutdown
  PROVE  IInv'
<1> USE DEF dbVars, systemVars, feedVars, ResetPcs, StopPcs
<1>1. CASE ListSystems
  <2> installed \in SUBSET Systems /\ root \in RootStates
    BY DEF IInv, TypeOK
  <2>1. root' \in RootStates /\ RootInv'
    <3>1. ASSUME root' = [root EXCEPT !.pc = "next", !.left = installed]
          PROVE  root' \in RootStates /\ root'.pc = "next"
      BY <3>1 DEF RootStates, RootPcs
    <3>2. ASSUME root' = [root EXCEPT !.pc = "reply", !.failed = TRUE]
          PROVE  root' \in RootStates /\ root'.pc = "reply"
      BY <3>2 DEF RootStates, RootPcs
    <3>3. QED
      BY <1>1, <3>1, <3>2 DEF ListSystems, RootInv
  <2>2. TypeOK'
    BY <1>1, <2>1 DEF ListSystems, IInv, TypeOK
  <2>3. QED
    BY <1>1, <2>1, <2>2, RootAlone DEF ListSystems
<1>2. CASE NextSystem
  <2> root \in RootStates
    BY DEF IInv, TypeOK
  <2>1. root' \in RootStates /\ RootInv'
    <3>1. ASSUME NEW s \in root.left,
                 root' = [root EXCEPT !.pc = "config", !.sys = s, !.left = @ \ {s}]
          PROVE  root' \in RootStates /\ root'.pc = "config" /\ root'.sys \in Systems
      BY <3>1 DEF RootStates, RootPcs
    <3>2. ASSUME root' = [root EXCEPT !.pc = "sweep", !.left = {}]
          PROVE  root' \in RootStates /\ root'.pc = "sweep"
      BY <3>2 DEF RootStates, RootPcs
    <3>3. QED
      BY <1>2, <3>1, <3>2 DEF NextSystem, RootInv
  <2>2. TypeOK'
    BY <1>2, <2>1 DEF NextSystem, IInv, TypeOK
  <2>3. QED
    BY <1>2, <2>1, <2>2, RootAlone DEF NextSystem
<1>3. CASE GetSystemConfig
  <2>1. root \in RootStates /\ root.sys \in Systems /\ root.pc = "config"
    BY <1>3 DEF GetSystemConfig, IInv, TypeOK, RootInv
  <2>2. /\ root' \in {ResetReturns(TRUE), ResetReturns(FALSE)}
             => root' \in RootStates /\ RootInv'
    BY <2>1, ResetReturnsIs DEF RootInv
  <2>3. root' = [root EXCEPT !.pc = "stopReset", !.feeds = {}]
          => root' \in RootStates /\ RootInv'
    BY <2>1 DEF RootStates, RootPcs, RootInv
  <2>4. root' = [root EXCEPT !.pc = "agencies", !.feeds = wanted[root.sys]]
          => root' \in RootStates /\ RootInv'
    <3> wanted[root.sys] \in SUBSET Feeds
      BY <2>1 DEF IInv, TypeOK
    <3> \A f \in wanted[root.sys] : Owner[f] = root.sys
      BY <2>1 DEF IInv, WantedInv
    <3> QED
      BY <2>1 DEF RootStates, RootPcs, RootInv
  <2>5. root' \in RootStates /\ RootInv'
    BY <1>3, <2>2, <2>3, <2>4 DEF GetSystemConfig, ResetFails, StopOrReturn
  <2>6. TypeOK'
    BY <1>3, <2>5 DEF GetSystemConfig, ResetFails, IInv, TypeOK
  <2>7. QED
    BY <1>3, <2>1, <2>5, <2>6, RootAlone DEF GetSystemConfig, ResetFails
<1>4. CASE Sweep
  <2> root \in RootStates
    BY DEF IInv, TypeOK
  <2>1. root' \in RootStates /\ RootInv'
    <3>1. ASSUME NEW s \in Systems, root' = [root EXCEPT !.pc = "stopSweep", !.sys = s]
          PROVE  root' \in RootStates /\ root'.pc = "stopSweep" /\ root'.sys \in Systems
      BY <3>1 DEF RootStates, RootPcs
    <3>2. ASSUME root' = [root EXCEPT !.pc = "reply"]
          PROVE  root' \in RootStates /\ root'.pc = "reply"
      BY <3>2 DEF RootStates, RootPcs
    <3>3. QED
      BY <1>4, <3>1, <3>2 DEF Sweep, Started, RootInv
  <2>2. TypeOK'
    BY <1>4, <2>1 DEF Sweep, Started, IInv, TypeOK, RootStates
  <2>3. QED
    BY <1>4, <2>1, <2>2, RootAlone DEF Sweep
<1>5. CASE StatusDone
  <2>1. root' \in RootStates /\ RootInv'
    BY <1>5 DEF StatusDone, IInv, TypeOK, RootStates, RootPcs, RootInv
  <2>2. TypeOK'
    BY <1>5, <2>1 DEF StatusDone, IInv, TypeOK
  <2>3. QED
    BY <1>5, <2>1, <2>2, RootAlone DEF StatusDone
<1>6. CASE Reply
  <2>1. root' \in RootStates /\ RootInv'
    BY <1>6 DEF Reply, AtSelect, RootStates, RootPcs, RootInv
  <2>2. TypeOK'
    BY <1>6, <2>1 DEF Reply, IInv, TypeOK
  <2>3. QED
    BY <1>6, <2>1, <2>2, RootAlone DEF Reply
<1>7. CASE Shutdown
  <2> root \in RootStates
    BY DEF IInv, TypeOK
  <2>1. root' \in RootStates /\ RootInv'
    <3>1. ASSUME NEW s \in Systems, root' = [root EXCEPT !.pc = "stopShutdown", !.sys = s]
          PROVE  root' \in RootStates /\ root'.pc = "stopShutdown" /\ root'.sys \in Systems
      BY <3>1 DEF RootStates, RootPcs
    <3>2. ASSUME root' = [root EXCEPT !.pc = "returned"]
          PROVE  root' \in RootStates /\ root'.pc = "returned"
      BY <3>2 DEF RootStates, RootPcs
    <3>3. Started = {} => \A s \in Systems : ss'[s] = "none"
      BY <1>7 DEF Shutdown, Started
    <3>4. QED
      BY <1>7, <3>1, <3>2, <3>3 DEF Shutdown, Started, RootInv
  <2>2. TypeOK'
    BY <1>7, <2>1 DEF Shutdown, IInv, TypeOK
  <2>3. QED
    BY <1>7, <2>1, <2>2, RootAlone DEF Shutdown
<1>8. QED
  BY <1>1, <1>2, <1>3, <1>4, <1>5, <1>6, <1>7

\* The root creates a system scheduler, or finds that none is wanted.
LEMMA ListAgenciesIInv == IInv /\ ListAgencies => IInv'
<1> SUFFICES ASSUME IInv, ListAgencies PROVE IInv'
  OBVIOUS
<1> USE DEF dbVars, systemVars, feedVars, ResetPcs, StopPcs
<1>1. /\ root \in RootStates /\ root.sys \in Systems /\ root.pc = "agencies"
      /\ \A f \in root.feeds : Owner[f] = root.sys
  BY DEF ListAgencies, IInv, TypeOK, RootInv
<1>2. CASE UNCHANGED ss
  <2>1. root' \in {ResetReturns(TRUE), ResetReturns(FALSE)}
             => root' \in RootStates /\ RootInv'
    BY <1>1, ResetReturnsIs DEF RootInv
  <2>2. root' \in {[root EXCEPT !.pc = "stopReset", !.feeds = {}],
                  [root EXCEPT !.pc = "sendReset"]}
          => root' \in RootStates /\ RootInv'
    BY <1>1 DEF RootStates, RootPcs, RootInv
  <2>3. root' \in RootStates /\ RootInv'
    BY <2>1, <2>2 DEF ListAgencies, ResetFails, StopOrReturn
  <2>4. TypeOK'
    <3>1. synced' \in [Systems -> BOOLEAN] /\ UNCHANGED <<dbVars, cancelled,
            sending, todo, feedVars>>
      BY <1>1 DEF ListAgencies, ResetFails, IInv, TypeOK
    <3>2. QED
      BY <2>3, <1>2, <3>1 DEF IInv, TypeOK
  <2>5. QED
    BY <1>1, <1>2, <2>3, <2>4, RootAlone DEF ListAgencies, ResetFails
<1>3. CASE ss' # ss
  <2>1. /\ root' = [root EXCEPT !.pc = "sendReset"]
        /\ ss' = [ss EXCEPT ![root.sys] = IF @ = "none" THEN "select" ELSE @]
        /\ UNCHANGED <<dbVars, cancelled, sending, todo, feedVars, synced>>
    BY <1>3 DEF ListAgencies, ResetFails
  <2>2. root' \in RootStates /\ RootInv'
    BY <1>1, <2>1 DEF RootStates, RootPcs, RootInv
  <2>3. TypeOK'
    BY <1>1, <2>1, <2>2 DEF IInv, TypeOK, SystemPcs
  <2>4. \A f \in Feeds : FeedInv(f)'
    BY <2>1 DEF IInv, FeedInv
  <2>5. \A s \in Systems : SystemInv(s)' /\ ServingInv(s)'
    BY <1>1, <2>1 DEF IInv, TypeOK, SystemInv, ServingInv
  <2>6. WantedInv'
    BY <2>1 DEF IInv, WantedInv
  <2>7. QED
    BY <2>2, <2>3, <2>4, <2>5, <2>6 DEF IInv
<1>4. QED
  BY <1>2, <1>3

\* The exchanges between the root and a system scheduler.
LEMMA ExchangeIInv ==
  ASSUME IInv,
         \/ SendReset \/ ResetAnswered \/ StopReturns \/ StatusAnswered
         \/ \E s \in Systems : SendStatus(s)
  PROVE  IInv'
<1> USE DEF dbVars, systemVars, feedVars, ResetPcs, StopPcs
<1>1. root \in RootStates /\ WantedInv /\ TypeOK /\ RootInv
  BY DEF IInv, TypeOK
<1>2. UNCHANGED <<wanted, feedVars>>
  BY DEF SendReset, ResetAnswered, StopReturns, StatusAnswered, SendStatus
<1>3. (\A f \in Feeds : FeedInv(f)') /\ WantedInv'
  BY <1>2 DEF IInv, FeedInv, WantedInv
<1>4. CASE SendReset
  <2>1. root.sys \in Systems /\ \A f \in root.feeds : Owner[f] = root.sys
    BY <1>4, <1>1 DEF SendReset, RootInv
  <2>2. root' \in RootStates /\ RootInv' /\ root'.pc = "awaitReset"
          /\ root'.sys = root.sys /\ root'.feeds = root.feeds
    BY <1>1, <1>4, <2>1 DEF SendReset, RootStates, RootPcs, RootInv
  <2>3. TypeOK'
    BY <1>1, <1>4, <2>1, <2>2 DEF SendReset, TypeOK, SystemPcs, RootStates
  <2>4. \A s \in Systems : SystemInv(s)' /\ ServingInv(s)'
    BY <1>1, <1>4, <2>1, <2>2 DEF SendReset, IInv, TypeOK, SystemInv,
                                  ServingInv
  <2>5. QED
    BY <1>3, <2>2, <2>3, <2>4 DEF IInv
<1>5. CASE ResetAnswered
  <2>1. root.sys \in Systems
    BY <1>5, <1>1 DEF ResetAnswered, RootInv
  <2>2. root' \in RootStates /\ RootInv'
    BY <1>1, <1>5, <2>1, ResetReturnsIs DEF ResetAnswered, RootInv
  <2>3. TypeOK'
    BY <1>1, <1>5, <2>1, <2>2 DEF ResetAnswered, TypeOK, SystemPcs
  <2>4. ASSUME NEW s \in Systems PROVE SystemInv(s)' /\ ServingInv(s)'
    <3>1. SystemInv(s) /\ ServingInv(s)
      BY DEF IInv
    <3>2. CASE s = root.sys
      BY <1>1, <1>5, <3>1, <3>2 DEF ResetAnswered, TypeOK, SystemInv, ServingInv
    <3>3. CASE s # root.sys
      BY <1>1, <1>5, <3>1, <3>3 DEF ResetAnswered, TypeOK, SystemInv, ServingInv
    <3>4. QED
      BY <3>2, <3>3
  <2>5. QED
    BY <1>3, <2>2, <2>3, <2>4 DEF IInv
<1>6. CASE StopReturns
  <2>1. root.sys \in Systems
    BY <1>6, <1>1 DEF StopReturns, RootInv
  <2>2. root' = ResetReturns(TRUE) => root' \in RootStates /\ RootInv'
    BY <1>1, <2>1, ResetReturnsIs DEF RootInv
  <2>3. root' \in {[root EXCEPT !.pc = "sweep", !.sys = None],
                  [root EXCEPT !.pc = "shutdown", !.sys = None]}
          => root' \in RootStates /\ RootInv'
    <3>1. ASSUME NEW to \in {"sweep", "shutdown"}, root' = [root EXCEPT !.pc = to, !.sys = None]
          PROVE  root' \in RootStates /\ root'.pc = to
      BY <1>1, <3>1 DEF RootStates, RootPcs
    <3>2. QED
      BY <3>1 DEF RootInv
  <2>4. root' \in RootStates /\ RootInv'
    BY <1>6, <2>2, <2>3 DEF StopReturns
  <2>5. TypeOK'
    BY <1>1, <1>6, <2>1, <2>4 DEF StopReturns, TypeOK, SystemPcs
  <2>6. \A s \in Systems : SystemInv(s)' /\ ServingInv(s)'
    BY <1>1, <1>6, <2>1 DEF StopReturns, IInv, TypeOK, SystemInv, ServingInv
  <2>7. QED
    BY <1>3, <2>4, <2>5, <2>6 DEF IInv
<1>7. CASE StatusAnswered
  <2>1. root.sys \in Systems
    BY <1>7, <1>1 DEF StatusAnswered, RootInv
  <2>2. root' \in RootStates /\ RootInv'
    BY <1>1, <1>7 DEF StatusAnswered, RootStates, RootPcs, RootInv
  <2>3. TypeOK'
    BY <1>1, <1>7, <2>1, <2>2 DEF StatusAnswered, TypeOK, SystemPcs
  <2>4. \A s \in Systems : SystemInv(s)' /\ ServingInv(s)'
    BY <1>1, <1>7, <2>1 DEF StatusAnswered, IInv, TypeOK, SystemInv, ServingInv
  <2>5. QED
    BY <1>3, <2>2, <2>3, <2>4 DEF IInv
<1>8. ASSUME NEW s \in Systems, SendStatus(s)
      PROVE  IInv'
  <2>1. root' \in RootStates /\ RootInv' /\ root'.pc = "awaitStatus"
          /\ root'.sys = s
    BY <1>1, <1>8 DEF SendStatus, RootStates, RootPcs, RootInv
  <2>2. TypeOK'
    BY <1>1, <1>8, <2>1 DEF SendStatus, TypeOK, SystemPcs, Registered, FeedsOf
  <2>3. ASSUME NEW t \in Systems PROVE SystemInv(t)' /\ ServingInv(t)'
    <3>1. SystemInv(t) /\ ServingInv(t)
      BY DEF IInv
    <3>2. CASE t = s
      BY <1>1, <1>8, <2>1, <3>1, <3>2
      DEF SendStatus, TypeOK, SystemInv, ServingInv
    <3>3. CASE t # s
      BY <1>1, <1>8, <2>1, <3>1, <3>3
      DEF SendStatus, TypeOK, SystemInv, ServingInv
    <3>4. QED
      BY <3>2, <3>3
  <2>4. QED
    BY <1>3, <2>1, <2>2, <2>3 DEF IInv
<1>9. QED
  BY <1>4, <1>5, <1>6, <1>7, <1>8

\* A system scheduler notices its context, waits for its feed schedulers,
\* starts new ones and asks them for their status.
LEMMA SystemIInv ==
  ASSUME IInv, NEW s \in Systems, SystemCancelled(s) \/ SystemStep(s)
  PROVE  IInv'
<1> USE OwnerAssumption DEF dbVars, systemVars, feedVars
<1>1. TypeOK /\ RootInv /\ WantedInv /\ SystemInv(s) /\ ServingInv(s)
  BY DEF IInv
<1>2. UNCHANGED <<wanted, root, calls, reports>>
  BY DEF SystemCancelled, SystemStep, FeedsStopped, StartFeedScheduler,
         FeedStatus
<1>3. CASE SystemCancelled(s)
  <2>1. TypeOK'
    BY <1>1, <1>3 DEF SystemCancelled, TypeOK, SystemPcs
  <2>2. RootInv' /\ WantedInv' /\ \A f \in Feeds : FeedInv(f)'
    BY <1>1, <1>3 DEF SystemCancelled, IInv, TypeOK, RootInv, WantedInv, FeedInv
  <2>3. \A t \in Systems : SystemInv(t)' /\ ServingInv(t)'
    BY <1>1, <1>3 DEF SystemCancelled, IInv, TypeOK, SystemInv, ServingInv
  <2>4. QED
    BY <2>1, <2>2, <2>3 DEF IInv
<1>4. CASE FeedsStopped(s)
  <2>1. TypeOK'
    BY <1>1, <1>4 DEF FeedsStopped, TypeOK, SystemPcs, FeedPcs
  <2>2. RootInv' /\ WantedInv'
    BY <1>1, <1>4 DEF FeedsStopped, TypeOK, RootInv, WantedInv
  <2>3. ASSUME NEW f \in Feeds PROVE FeedInv(f)'
    <3>1. FeedInv(f)
      BY DEF IInv
    <3>2. fs[f] = "none" \/ fs[f] = "exited" \/ Owner[f] # s
      BY <1>4 DEF FeedsStopped, Registered, FeedsOf
    <3>3. fs'[f] = IF Owner[f] = s THEN "none" ELSE fs[f]
      BY <1>4 DEF FeedsStopped
    <3>4. QED
      BY <1>4, <3>1, <3>2, <3>3 DEF FeedsStopped, FeedInv
  <2>4. ASSUME NEW t \in Systems PROVE SystemInv(t)' /\ ServingInv(t)'
    <3>1. SystemInv(t) /\ ServingInv(t)
      BY DEF IInv
    <3>2. \A f \in Feeds : fs'[f] = IF Owner[f] = s THEN "none" ELSE fs[f]
      BY <1>4 DEF FeedsStopped
    <3>3. ss' = [ss EXCEPT ![s] = IF ss[s] = "stopping" THEN "starting"
                                                        ELSE "exited"]
            /\ ss[s] \in {"stopping", "closing"} /\ todo' = todo
      BY <1>4 DEF FeedsStopped
    <3>4. CASE t = s
      <4>1. ss[s] = "stopping" => todo[s] \subseteq root.feeds
               /\ root.pc = "awaitReset" /\ root.sys = s
        BY <1>1 DEF ServingInv
      <4>2. ss[s] = "stopping" => \A f \in todo[s] : f \in Feeds /\ Owner[f] = s
        BY <1>1, <4>1 DEF TypeOK, RootInv, ResetPcs
      <4>3. SystemInv(s)'
        BY <1>1, <3>2, <3>3, <4>2 DEF TypeOK, SystemInv
      <4>4. ServingInv(s)'
        BY <1>1, <1>2, <3>3, <4>1 DEF TypeOK, ServingInv
      <4>5. QED
        BY <3>4, <4>3, <4>4
    <3>5. CASE t # s
      <4>1. ss'[t] = ss[t] /\ todo'[t] = todo[t]
        BY <1>1, <3>3, <3>5 DEF TypeOK
      <4>2. todo[t] \subseteq Feeds
        BY <1>1 DEF TypeOK
      <4>3. \A f \in Feeds : fs[f] = "none" => fs'[f] = "none"
        BY <3>2
      <4>4. SystemInv(t)'
        BY <3>1, <4>1, <4>2, <4>3 DEF SystemInv
      <4>5. ServingInv(t)'
        BY <1>2, <3>1, <4>1 DEF ServingInv
      <4>6. QED
        BY <4>4, <4>5
    <3>6. QED
      BY <3>4, <3>5
  <2>5. QED
    BY <2>1, <2>2, <2>3, <2>4 DEF IInv
<1>5. ASSUME NEW f \in Feeds, StartFeedScheduler(s, f)
      PROVE  IInv'
  <2>1. TypeOK'
    BY <1>1, <1>5 DEF StartFeedScheduler, TypeOK, FeedPcs
  <2>2. RootInv' /\ WantedInv'
    BY <1>1, <1>5 DEF StartFeedScheduler, RootInv, WantedInv
  <2>3. fs[f] = "none" /\ Owner[f] = s
    BY <1>1, <1>5 DEF StartFeedScheduler, SystemInv, ServingInv, RootInv, ResetPcs
  <2>4. \A g \in Feeds : FeedInv(g)'
    BY <1>1, <1>5, <2>3 DEF StartFeedScheduler, IInv, TypeOK, FeedInv
  <2>5. ASSUME NEW t \in Systems PROVE SystemInv(t)' /\ ServingInv(t)'
    <3>1. SystemInv(t) /\ ServingInv(t)
      BY DEF IInv
    <3>2. CASE t = s
      BY <1>1, <1>5, <2>3, <3>1, <3>2
      DEF StartFeedScheduler, TypeOK, SystemInv, ServingInv
    <3>3. CASE t # s
      <4>1. todo[t] \subseteq Feeds /\ todo'[t] = todo[t] /\ ss' = ss
        BY <1>1, <1>5, <3>3 DEF StartFeedScheduler, TypeOK
      <4>2. ss[t] \notin {"stopping", "starting"}
        BY <1>1, <1>5, <3>1, <3>3 DEF StartFeedScheduler, ServingInv
      <4>3. \A g \in Feeds : Owner[g] = t => fs'[g] = fs[g]
        BY <1>1, <1>5, <2>3, <3>3 DEF StartFeedScheduler, TypeOK
      <4>4. QED
        BY <1>2, <3>1, <4>1, <4>2, <4>3 DEF SystemInv, ServingInv
    <3>4. QED
      BY <3>2, <3>3
  <2>6. QED
    BY <2>1, <2>2, <2>4, <2>5 DEF IInv
<1>6. ASSUME NEW f \in Feeds, FeedStatus(s, f)
      PROVE  IInv'
  <2>1. TypeOK'
    BY <1>1, <1>6 DEF FeedStatus, TypeOK
  <2>2. RootInv' /\ WantedInv' /\ \A g \in Feeds : FeedInv(g)'
    BY <1>1, <1>6 DEF FeedStatus, IInv, RootInv, WantedInv, FeedInv
  <2>3. \A t \in Systems : SystemInv(t)' /\ ServingInv(t)'
    BY <1>1, <1>6 DEF FeedStatus, IInv, TypeOK, SystemInv, ServingInv
  <2>4. QED
    BY <2>1, <2>2, <2>3 DEF IInv
<1>7. QED
  BY <1>3, <1>4, <1>5, <1>6 DEF SystemStep

\* The feed scheduler and its update goroutines.
LEMMA FeedIInv ==
  ASSUME IInv, NEW f \in Feeds, StartUpdate(f) \/ FeedStep(f)
  PROVE  IInv'
<1> USE DEF dbVars, systemVars
<1>1. TypeOK /\ RootInv /\ WantedInv /\ FeedInv(f)
  BY DEF IInv
<1>2. UNCHANGED <<wanted, root, ss, todo>>
  BY DEF StartUpdate, FeedStep, UpdateReturns, UpdateFinished, FeedCancelled,
         FeedDrained
<1>3. RootInv' /\ WantedInv'
  BY <1>1, <1>2 DEF RootInv, WantedInv
<1>4. TypeOK'
  <2>1. CASE StartUpdate(f)
    BY <1>1, <2>1 DEF StartUpdate, TypeOK
  <2>2. CASE UpdateReturns(f)
    BY <1>1, <2>2 DEF UpdateReturns, TypeOK
  <2>3. CASE UpdateFinished(f)
    BY <1>1, <2>3 DEF UpdateFinished, TypeOK
  <2>4. CASE FeedCancelled(f)
    BY <1>1, <2>4 DEF FeedCancelled, TypeOK, FeedPcs
  <2>5. CASE FeedDrained(f)
    BY <1>1, <2>5 DEF FeedDrained, TypeOK, FeedPcs
  <2>6. QED
    BY <2>1, <2>2, <2>3, <2>4, <2>5 DEF FeedStep
<1>5. ASSUME NEW g \in Feeds PROVE FeedInv(g)'
  <2>1. FeedInv(g)
    BY DEF IInv
  <2>2. CASE StartUpdate(f)
    BY <1>1, <2>1, <2>2 DEF StartUpdate, TypeOK, FeedInv
  <2>3. CASE UpdateReturns(f)
    BY <1>1, <2>1, <2>3 DEF UpdateReturns, TypeOK, FeedInv
  <2>4. CASE UpdateFinished(f)
    BY <1>1, <2>1, <2>4 DEF UpdateFinished, TypeOK, FeedInv
  <2>5. CASE FeedCancelled(f)
    BY <1>1, <2>1, <2>5 DEF FeedCancelled, TypeOK, FeedInv
  <2>6. CASE FeedDrained(f)
    BY <1>1, <2>1, <2>6 DEF FeedDrained, TypeOK, FeedInv
  <2>7. QED
    BY <2>2, <2>3, <2>4, <2>5, <2>6 DEF FeedStep
<1>6. ASSUME NEW s \in Systems PROVE SystemInv(s)' /\ ServingInv(s)'
  <2>1. SystemInv(s) /\ ServingInv(s)
    BY DEF IInv
  <2>2. \A g \in Feeds : fs[g] = "none" => fs'[g] = "none"
    BY <1>1 DEF StartUpdate, FeedStep, UpdateReturns, UpdateFinished,
                FeedCancelled, FeedDrained, TypeOK
  <2>3. todo[s] \subseteq Feeds
    BY <1>1 DEF TypeOK
  <2>4. QED
    BY <1>2, <2>1, <2>2, <2>3 DEF SystemInv, ServingInv
<1>7. QED
  BY <1>3, <1>4, <1>5, <1>6 DEF IInv

\* Every step preserves the inductive invariant.
LEMMA NextIInv == IInv /\ [Next]_vars => IInv'
<1> SUFFICES ASSUME IInv, [Next]_vars PROVE IInv'
  OBVIOUS
<1>1. CASE Environment
  BY <1>1, EnvironmentIInv
<1>2. CASE \E c \in Callers : Receive(c)
  BY <1>2, ReceiveIInv
<1>3. CASE RootCancelled
  BY <1>3, RootCancelledIInv
<1>4. CASE RootStep
  BY <1>4, RootOnlyIInv, ListAgenciesIInv, ExchangeIInv DEF RootStep
<1>5. CASE \E s \in Systems : SystemCancelled(s) \/ SystemStep(s)
  BY <1>5, SystemIInv
<1>6. CASE \E f \in Feeds : StartUpdate(f) \/ FeedStep(f)
  BY <1>6, FeedIInv
<1>7. CASE UNCHANGED vars
  BY <1>7 DEF vars, IInv, TypeOK, FeedInv, SystemInv, ServingInv, RootInv,
              WantedInv, ResetPcs, StopPcs
<1>8. QED
  BY <1>1, <1>2, <1>3, <1>4, <1>5, <1>6, <1>7 DEF Next
-----------------------------------------------------------------------------
\* The inductive invariant holds of every behaviour of the scheduler.
THEOREM Invariant == Spec => []IInv
BY InitIInv, NextIInv, PTL DEF Spec

\* Every variable of the scheduler keeps its type.
THEOREM TypeCorrect == Spec => []TypeOK
<1>1. IInv => TypeOK
  BY DEF IInv
<1>2. QED
  BY <1>1, Invariant, PTL

\* The guarantee of the package comment of scheduler.go: whatever the resets,
\* stops and shutdowns, at most one update of a feed is executing.
THEOREM OneUpdateAtATime == Spec => []AtMostOneUpdate
<1>1. IInv => AtMostOneUpdate
  BY DEF IInv, TypeOK, FeedInv, AtMostOneUpdate
<1>2. QED
  BY <1>1, Invariant, PTL

\* stopScheduler leaves nothing of the system behind.
THEOREM StopIsComplete == Spec => []StoppedSystemIsQuiet
<1>1. IInv => StoppedSystemIsQuiet
  <2> SUFFICES ASSUME IInv, NEW s \in Systems \ Started, NEW f \in FeedsOf(s)
               PROVE  fs[f] = "none" /\ calls[f] = 0 /\ reports[f] = 0
    BY DEF StoppedSystemIsQuiet
  <2>1. f \in Feeds /\ Owner[f] = s /\ s \in Systems /\ ss[s] = "none"
    BY DEF FeedsOf, Started
  <2>2. fs[f] = "none"
    BY <2>1 DEF IInv, SystemInv
  <2>3. calls[f] + reports[f] = 0 /\ calls[f] \in Nat /\ reports[f] \in Nat
    BY <2>1, <2>2 DEF IInv, TypeOK, FeedInv
  <2>4. QED
    BY <2>2, <2>3
<1>2. QED
  BY <1>1, Invariant, PTL

\* When Run has returned, nothing it started is still running.
THEOREM ReturnIsComplete == Spec => []ReturnedMeansQuiet
<1>1. IInv => ReturnedMeansQuiet
  <2> SUFFICES ASSUME IInv, root.pc = "returned"
               PROVE  Started = {} /\ \A f \in Feeds : calls[f] + reports[f] = 0
    BY DEF ReturnedMeansQuiet
  <2>1. \A s \in Systems : ss[s] = "none"
    BY DEF IInv, RootInv
  <2>2. ASSUME NEW f \in Feeds PROVE calls[f] + reports[f] = 0
    <3>1. Owner[f] \in Systems
      BY OwnerAssumption
    <3>2. fs[f] = "none"
      BY <2>1, <3>1 DEF IInv, SystemInv
    <3>3. QED
      BY <3>2 DEF IInv, FeedInv
  <2>3. QED
    BY <2>1, <2>2 DEF Started
<1>2. QED
  BY <1>1, Invariant, PTL

\* A feed scheduler is only started for a feed of the request being served.
THEOREM StartsAreRead == Spec => StartsOnlyWhatWasRead
<1>1. ASSUME IInv, [Next]_vars, NEW f \in Feeds, fs[f] = "none", fs'[f] # "none"
      PROVE  root.pc = "awaitReset" /\ root.sys = Owner[f] /\ f \in root.feeds
  <2>1. TypeOK
    BY <1>1 DEF IInv
  <2>2. PICK s \in Systems : StartFeedScheduler(s, f)
    <3>1. CASE fs' = fs
      BY <1>1, <3>1
    <3>2. CASE \E s \in Systems : FeedsStopped(s)
      BY <1>1, <3>2 DEF FeedsStopped
    <3>3. CASE \E s \in Systems, g \in Feeds : StartFeedScheduler(s, g)
      <4>1. PICK s \in Systems, g \in Feeds : StartFeedScheduler(s, g)
        BY <3>3
      <4>2. g = f
        BY <1>1, <2>1, <4>1 DEF StartFeedScheduler, TypeOK
      <4>3. QED
        BY <4>1, <4>2
    <3>4. CASE \E g \in Feeds : FeedCancelled(g) \/ FeedDrained(g)
      BY <1>1, <2>1, <3>4 DEF FeedCancelled, FeedDrained, TypeOK
    <3>5. \/ fs' = fs
          \/ \E s \in Systems : FeedsStopped(s)
          \/ \E s \in Systems, g \in Feeds : StartFeedScheduler(s, g)
          \/ \E g \in Feeds : FeedCancelled(g) \/ FeedDrained(g)
      <4> USE DEF feedVars
      <4>1. Environment => fs' = fs
        <5>1. \A z \in Systems : DeleteSystem(z) => fs' = fs
          BY DEF DeleteSystem
        <5>2. \A z \in Systems : \A F \in SUBSET FeedsOf(z) : EditSystem(z, F) => fs' = fs
          BY DEF EditSystem
        <5>3. \A c \in Callers : Abandon(c) => fs' = fs
          BY DEF Abandon
        <5>4. \A c \in Callers, req \in Requests : Call(c, req) => fs' = fs
          BY DEF Call
        <5>5. CancelContext => fs' = fs
          BY Zenon DEF CancelContext
        <5>6. QED
          BY <5>1, <5>2, <5>3, <5>4, <5>5 DEF Environment
      <4>2. (\E c \in Callers : Receive(c)) \/ RootCancelled => fs' = fs
        BY DEF Receive, RootCancelled
      <4>3. RootStep => fs' = fs
        BY DEF RootStep, ListSystems, NextSystem, GetSystemConfig, ListAgencies,
               ResetFails, SendReset, ResetAnswered, StopReturns, Sweep,
               SendStatus, StatusAnswered, StatusDone, Reply, Shutdown
      <4>4. ASSUME NEW s \in Systems, SystemCancelled(s) \/ SystemStep(s)
            PROVE  \/ fs' = fs
                   \/ FeedsStopped(s)
                   \/ \E g \in Feeds : StartFeedScheduler(s, g)
        BY <4>4 DEF SystemCancelled, SystemStep, FeedStatus
      <4>5. ASSUME NEW g \in Feeds, StartUpdate(g) \/ FeedStep(g)
            PROVE  fs' = fs \/ FeedCancelled(g) \/ FeedDrained(g)
        BY <4>5 DEF StartUpdate, FeedStep, UpdateReturns, UpdateFinished
      <4>6. QED
        BY <1>1, <4>1, <4>2, <4>3, <4>4, <4>5 DEF Next, vars
    <3>6. QED
      BY <3>1, <3>2, <3>3, <3>4, <3>5
  <2>3. ServingInv(s) /\ ss[s] = "starting" /\ f \in todo[s]
    BY <1>1, <2>2 DEF IInv, StartFeedScheduler
  <2>4. root.pc = "awaitReset" /\ root.sys = s /\ f \in root.feeds
    BY <2>3 DEF ServingInv
  <2>5. Owner[f] = s
    BY <1>1, <2>4 DEF IInv, RootInv, ResetPcs
  <2>6. QED
    BY <2>4, <2>5
<1>2. IInv /\ [Next]_vars => [\A f \in Feeds : fs[f] = "none" /\ fs'[f] # "none" =>
                               /\ root.pc = "awaitReset"
                               /\ root.sys = Owner[f]
                               /\ f \in root.feeds]_vars
  BY <1>1
<1>3. QED
  BY <1>2, Invariant, PTL DEF Spec, StartsOnlyWhatWasRead

\* Only scheduled feeds are being updated, and nothing is scheduled once Run
\* has returned: what the steps of AbstractScheduler need.
LEMMA ScheduledFeeds ==
  ASSUME IInv, NEW f \in Feeds
  PROVE  /\ calls[f] \in {0, 1}
         /\ calls[f] > 0 => updating[f] /\ fs[f] \in {"select", "draining"}
         /\ updating[f] \in BOOLEAN
         /\ root.pc = "returned" => fs[f] = "none"
<1>1. /\ calls[f] \in Nat /\ reports[f] \in Nat /\ updating[f] \in BOOLEAN
      /\ fs[f] \in FeedPcs
  BY DEF IInv, TypeOK
<1>2. FeedInv(f)
  BY DEF IInv
<1>3. root.pc = "returned" => fs[f] = "none"
  BY OwnerAssumption DEF IInv, RootInv, SystemInv
<1>4. QED
  BY <1>1, <1>2, <1>3 DEF FeedInv, FeedPcs

\* The three variables of AbstractScheduler, as the refinement maps them.
scheduledFeeds == {f \in Feeds : fs[f] \in {"select", "draining"}}
updatedFeeds == {f \in Feeds : calls[f] > 0}
isClosed == root.pc = "returned"

\* A step that changes no program counter of a feed scheduler, no count of
\* executing updates and not the end of Run is a stutter.
LEMMA AbstractStutter ==
  ASSUME UNCHANGED <<fs, calls>>, root'.pc = "returned" <=> root.pc = "returned"
  PROVE  UNCHANGED Abstract!vars
BY DEF Abstract!vars

\* A step that schedules other feeds without forgetting one being updated.
LEMMA AbstractSchedule ==
  ASSUME IInv, IInv', UNCHANGED <<calls, root>>, root.pc # "returned"
  PROVE  Abstract!Next
<1>1. PICK S \in SUBSET Feeds : S = scheduledFeeds'
  BY DEF scheduledFeeds
<1>2. updatedFeeds \subseteq S
  <2>1. SUFFICES ASSUME NEW f \in Feeds, calls'[f] > 0
                 PROVE  fs'[f] \in {"select", "draining"}
    BY <1>1 DEF updatedFeeds, scheduledFeeds
  <2>2. TypeOK' /\ FeedInv(f)'
    BY DEF IInv
  <2>3. QED
    BY <2>1, <2>2 DEF TypeOK, FeedInv, FeedPcs
<1>3. Abstract!Schedule(S)
  BY <1>1, <1>2 DEF Abstract!Schedule, updatedFeeds, scheduledFeeds
<1>4. QED
  BY <1>3 DEF Abstract!Next

\* Every step of the scheduler is a step of AbstractScheduler or a stutter.
LEMMA AbstractStep ==
  ASSUME IInv, IInv', [Next]_vars
  PROVE  [Abstract!Next]_(Abstract!vars)
<1> USE DEF dbVars, systemVars, feedVars
<1>1. TypeOK /\ root \in RootStates
  BY DEF IInv, TypeOK
<1>2. CASE Environment
  <2>1. UNCHANGED <<fs, calls>> /\ root'.pc = root.pc
    BY <1>1, <1>2 DEF Environment, EditSystem, DeleteSystem, Call, Abandon,
                      CancelContext, RootStates
  <2>2. QED
    BY <2>1, AbstractStutter
<1>3. CASE (\E c \in Callers : Receive(c)) \/ RootCancelled
  <2>1. UNCHANGED <<fs, calls>> /\ root.pc = "select"
    BY <1>3 DEF Receive, RootCancelled
  <2>2. root'.pc # "returned"
    <3>1. (\E c \in Callers : Receive(c)) => root'.pc \in {"list", "config", "status"}
      BY DEF Receive, AtSelect
    <3>2. RootCancelled => root'.pc = "shutdown"
      BY <1>1 DEF RootCancelled, RootStates
    <3>3. QED
      BY <1>3, <3>1, <3>2
  <2>3. QED
    BY Zenon, <2>1, <2>2, AbstractStutter
<1>4. CASE Shutdown
  <2>1. UNCHANGED <<fs, calls>> /\ root.pc = "shutdown"
    BY <1>4 DEF Shutdown
  <2>2. CASE root'.pc # "returned"
    BY <2>1, <2>2, AbstractStutter
  <2>3. CASE root'.pc = "returned"
    <3>1. TypeOK' /\ RootInv' /\ \A s \in Systems : SystemInv(s)'
      BY DEF IInv
    <3>2. \A f \in Feeds : fs'[f] = "none"
      BY <2>3, <3>1, OwnerAssumption DEF RootInv, SystemInv
    <3>3. Abstract!Close
      BY <2>1, <2>3, <3>2 DEF Abstract!Close
    <3>4. QED
      BY <3>3 DEF Abstract!Next
  <2>4. QED
    BY <2>2, <2>3
<1>5. CASE RootStep /\ ~Shutdown
  <2>1. UNCHANGED <<fs, calls>>
    BY <1>5 DEF RootStep, ListSystems, NextSystem, GetSystemConfig,
                ListAgencies, ResetFails, SendReset, ResetAnswered, StopReturns,
                Sweep, SendStatus, StatusAnswered, StatusDone, Reply
  <2>2. root.pc # "returned"
    BY <1>5 DEF RootStep, ListSystems, NextSystem, GetSystemConfig,
                ListAgencies, SendReset, ResetAnswered, StopReturns, StopPcs,
                Sweep, SendStatus, StatusAnswered, StatusDone, Reply
  <2>3. root'.pc # "returned"
    <3>1. root' \in {ResetReturns(TRUE), ResetReturns(FALSE)}
            => root'.pc # "returned"
      BY <1>1 DEF ResetReturns, RootStates
    <3>2. ListSystems \/ NextSystem => root'.pc # "returned"
      BY <1>1 DEF ListSystems, NextSystem, RootStates
    <3>3. GetSystemConfig => root'.pc # "returned"
      BY <1>1, <3>1 DEF GetSystemConfig, ResetFails, StopOrReturn, RootStates
    <3>4. ListAgencies => root'.pc # "returned"
      BY <1>1, <3>1 DEF ListAgencies, ResetFails, StopOrReturn, RootStates
    <3>5. SendReset \/ ResetAnswered => root'.pc # "returned"
      BY <1>1, <3>1 DEF SendReset, ResetAnswered, RootStates
    <3>6. StopReturns => root'.pc # "returned"
      BY <1>1, <3>1 DEF StopReturns, RootStates
    <3>7. Sweep \/ StatusAnswered \/ StatusDone => root'.pc # "returned"
      BY <1>1 DEF Sweep, StatusAnswered, StatusDone, RootStates
    <3>8. Reply => root'.pc # "returned"
      BY DEF Reply, AtSelect
    <3>9. (\E s \in Systems : SendStatus(s)) => root'.pc # "returned"
      BY <1>1 DEF SendStatus, RootStates
    <3>10. QED
      BY <1>5, <3>2, <3>3, <3>4, <3>5, <3>6, <3>7, <3>8, <3>9 DEF RootStep
  <2>4. QED
    BY <2>1, <2>2, <2>3, AbstractStutter
<1>6. ASSUME NEW s \in Systems, SystemCancelled(s) \/ SystemStep(s)
      PROVE  [Abstract!Next]_(Abstract!vars)
  <2>1. CASE UNCHANGED fs
    <3>1. UNCHANGED <<calls, root>>
      BY <1>6 DEF SystemCancelled, SystemStep, FeedsStopped,
                  StartFeedScheduler, FeedStatus
    <3>2. QED
      BY <2>1, <3>1, AbstractStutter
  <2>2. CASE fs' # fs
    <3>1. UNCHANGED <<calls, root>>
      BY <1>6 DEF SystemCancelled, SystemStep, FeedsStopped,
                  StartFeedScheduler, FeedStatus
    <3>2. ss[s] \in {"stopping", "closing", "starting"}
      BY <1>6, <2>2 DEF SystemCancelled, SystemStep, FeedsStopped,
                        StartFeedScheduler, FeedStatus
    <3>3. root.pc # "returned"
      BY <3>2 DEF IInv, RootInv
    <3>4. QED
      BY <3>1, <3>3, AbstractSchedule
  <2>3. QED
    BY <2>1, <2>2
<1>7. ASSUME NEW f \in Feeds, StartUpdate(f)
      PROVE  Abstract!Next
  <2>1. calls[f] = 0 /\ calls' = [calls EXCEPT ![f] = 1]
    <3>1. calls[f] \in {0, 1} /\ (calls[f] > 0 => updating[f])
      BY ScheduledFeeds
    <3>2. calls[f] = 0
      BY <1>7, <3>1 DEF StartUpdate
    <3>3. QED
      BY <1>7, <3>2 DEF StartUpdate
  <2>2. fs' = fs /\ fs[f] = "select" /\ root' = root
    BY <1>7 DEF StartUpdate
  <2>3. updatedFeeds' = updatedFeeds \cup {f}
    BY <1>1, <2>1 DEF updatedFeeds, TypeOK
  <2>4. Abstract!StartUpdate(f)
    BY <2>1, <2>2, <2>3 DEF Abstract!StartUpdate, updatedFeeds
  <2>5. QED
    BY <2>4 DEF Abstract!Next
<1>8. ASSUME NEW f \in Feeds, UpdateReturns(f)
      PROVE  Abstract!Next
  <2>1. calls[f] = 1 /\ calls' = [calls EXCEPT ![f] = 0]
    <3>1. calls[f] = 1
      BY <1>8, ScheduledFeeds DEF UpdateReturns
    <3>2. QED
      BY <1>8, <3>1 DEF UpdateReturns
  <2>2. fs' = fs /\ root' = root
    BY <1>8 DEF UpdateReturns
  <2>3. updatedFeeds' = updatedFeeds \ {f}
    BY <1>1, <2>1 DEF updatedFeeds, TypeOK
  <2>4. Abstract!FinishUpdate(f)
    BY <2>1, <2>2, <2>3 DEF Abstract!FinishUpdate, updatedFeeds
  <2>5. QED
    BY <2>4 DEF Abstract!Next
<1>9. ASSUME NEW f \in Feeds,
             UpdateFinished(f) \/ FeedCancelled(f) \/ FeedDrained(f)
      PROVE  [Abstract!Next]_(Abstract!vars)
  <2>1. UNCHANGED <<calls, root>> /\ fs[f] # "none"
    BY <1>9 DEF UpdateFinished, FeedCancelled, FeedDrained
  <2>2. root.pc # "returned"
    BY <2>1, ScheduledFeeds
  <2>3. QED
    BY <2>1, <2>2, AbstractSchedule
<1>10. CASE UNCHANGED vars
  BY <1>10, AbstractStutter DEF vars
<1>11. QED
  BY <1>2, <1>3, <1>4, <1>5, <1>6, <1>7, <1>8, <1>9, <1>10 DEF Next, FeedStep

\* The scheduler implements its promise.
THEOREM Refinement == Spec => ImplementsAbstract
<1>1. Init => Abstract!Init
  BY DEF Init, AtSelect, Abstract!Init
<1>2. QED
  BY <1>1, AbstractStep, Invariant, PTL
  DEF Spec, ImplementsAbstract, Abstract!Spec
-----------------------------------------------------------------------------
(***************************************************************************)
(* Between requests the schedules are those of the database.  What makes   *)
(* SyncedSystemIsScheduled inductive, beside the invariant above:          *)
(***************************************************************************)

\* A deleted system has no configuration.
InstalledInv == \A s \in Systems : s \notin installed => wanted[s] = {}

\* The loop over the listed systems has come to its end before the sweep.
ListedInv == root.pc \in {"sweep", "stopSweep"} => root.left = {}

\* The root is replacing or stopping the schedule of s.
Resetting(s) == root.sys = s /\ root.pc \in ResetPcs \cup StopPcs

\* Where the configuration that the last reset of s has read is: with the
\* root, on its way to the system scheduler, or in the schedule.
ConfigurationInv(s) ==
  /\ ~Resetting(s) => Registered(s) = wanted[s]
  /\ root.sys = s /\ root.pc \in {"agencies", "sendReset"} =>
       root.feeds = wanted[s]
  /\ ss[s] = "stopping" => todo[s] = wanted[s]
  /\ ss[s] = "starting" => Registered(s) \cup todo[s] = wanted[s]
  /\ root.sys = s /\ root.pc \in StopPcs => wanted[s] = {}

\* The root resets one system; it runs a resetAllRequest without an error.
OneSystemPcs == {"config", "stopReset"} \cup ResetPcs
Sweeping ==
  \/ root.pc \in {"next", "sweep", "stopSweep"} /\ ~root.failed
  \/ root.pc \in OneSystemPcs /\ root.job.kind = "resetAll"

\* A system with feeds in a current schedule is one that the sweep spares.
SparedInv(s) ==
  \/ wanted[s] = {}
  \/ s \in root.updated \cup root.left
  \/ root.pc \in OneSystemPcs /\ root.sys = s

\* While Run's context is live, a system scheduler ends only on demand.
LiveInv ==
  /\ root.pc \notin {"shutdown", "stopShutdown", "returned"}
  /\ \A s \in Systems :
       ss[s] \in {"closing", "exited"} => root.pc \in StopPcs /\ root.sys = s
  /\ \A s \in Systems : synced[s] => ConfigurationInv(s)
  /\ Sweeping => \A s \in Systems : synced[s] => SparedInv(s)

SyncInv ==
  /\ InstalledInv
  /\ ListedInv
  /\ ~cancelled => LiveInv

LEMMA InitSyncInv == Init => SyncInv
<1> SUFFICES ASSUME Init PROVE SyncInv
  OBVIOUS
<1>1. InstalledInv /\ ListedInv
  BY DEF Init, InstalledInv, ListedInv, AtSelect
<1>2. LiveInv
  BY DEF Init, LiveInv, AtSelect, StopPcs, Sweeping, OneSystemPcs, ResetPcs
<1>3. QED
  BY <1>1, <1>2 DEF SyncInv

\* The steps of the callers, of the feed goroutines and of a system scheduler
\* asking for a status: nothing the invariant looks at changes.
LEMMA SyncFrame ==
  ASSUME TypeOK, SyncInv,
         UNCHANGED <<installed, wanted, synced, ss>>,
         cancelled => cancelled',
         root' = [root EXCEPT !.client = root'.client],
         \A f \in Feeds : fs'[f] = "none" <=> fs[f] = "none",
         \A s \in Systems : ss[s] \in {"stopping", "starting"} =>
                              todo'[s] = todo[s]
  PROVE  SyncInv'
<1>1. /\ root'.pc = root.pc /\ root'.sys = root.sys /\ root'.job = root.job
      /\ root'.feeds = root.feeds /\ root'.left = root.left
      /\ root'.updated = root.updated /\ root'.failed = root.failed
  BY DEF TypeOK, RootStates
<1>2. InstalledInv' /\ ListedInv'
  BY <1>1 DEF SyncInv, InstalledInv, ListedInv
<1>3. ASSUME ~cancelled' PROVE LiveInv'
  <2>1. LiveInv
    BY <1>3 DEF SyncInv
  <2>2. \A s \in Systems : Registered(s)' = Registered(s)
    BY DEF Registered, FeedsOf
  <2>3. \A s \in Systems : ConfigurationInv(s) => ConfigurationInv(s)'
    BY <1>1, <2>2 DEF ConfigurationInv, Resetting
  <2>4. Sweeping' = Sweeping
    BY <1>1 DEF Sweeping
  <2>5. \A s \in Systems : SparedInv(s) => SparedInv(s)'
    BY <1>1 DEF SparedInv
  <2>6. QED
    BY <1>1, <2>1, <2>3, <2>4, <2>5 DEF LiveInv
<1>4. QED
  BY <1>2, <1>3 DEF SyncInv

LEMMA EnvironmentSyncInv ==
  ASSUME IInv, SyncInv, Environment
  PROVE  SyncInv'
<1> USE DEF dbVars, systemVars, feedVars
<1>1. TypeOK
  BY DEF IInv
<1>2. ASSUME NEW s \in Systems, NEW F \in SUBSET FeedsOf(s),
             EditSystem(s, F) \/ DeleteSystem(s)
      PROVE  SyncInv'
  <2>1. UNCHANGED <<cancelled, root, ss, todo, fs>>
    BY <1>2 DEF EditSystem, DeleteSystem
  <2>2. /\ ~synced'[s]
        /\ \A t \in Systems \ {s} : synced'[t] = synced[t] /\ wanted'[t] = wanted[t]
    BY <1>1, <1>2 DEF EditSystem, DeleteSystem, TypeOK
  <2>3. InstalledInv'
    BY <1>1, <1>2 DEF EditSystem, DeleteSystem, TypeOK, SyncInv, InstalledInv
  <2>4. ListedInv'
    BY <2>1 DEF SyncInv, ListedInv
  <2>5. LiveInv => LiveInv'
    BY <2>1, <2>2 DEF LiveInv, ConfigurationInv, Resetting, Registered,
                      Sweeping, SparedInv
  <2>6. QED
    BY <2>1, <2>3, <2>4, <2>5 DEF SyncInv
<1>3. CASE (\E c \in Callers, req \in Requests : Call(c, req)) \/ CancelContext
  <2>1. /\ UNCHANGED <<installed, wanted, synced, ss, todo, fs, root>>
        /\ cancelled => cancelled'
    BY <1>3 DEF Call, CancelContext
  <2>2. root' = [root EXCEPT !.client = root'.client]
    BY <1>1, <2>1 DEF TypeOK, RootStates
  <2>3. QED
    BY <1>1, <2>1, <2>2, SyncFrame
<1>4. CASE \E c \in Callers : Abandon(c)
  <2>1. /\ UNCHANGED <<installed, wanted, synced, ss, todo, fs, cancelled>>
        /\ root' = [root EXCEPT !.client = None]
    BY <1>4 DEF Abandon
  <2>2. root' = [root EXCEPT !.client = root'.client]
    BY <1>1, <2>1 DEF TypeOK, RootStates
  <2>3. QED
    BY <1>1, <2>1, <2>2, SyncFrame
<1>5. QED
  BY <1>2, <1>3, <1>4 DEF Environment

LEMMA ReceiveSyncInv ==
  ASSUME IInv, SyncInv, NEW c \in Callers, Receive(c)
  PROVE  SyncInv'
<1> USE DEF dbVars, systemVars, feedVars, ResetPcs, StopPcs, OneSystemPcs
<1>1. UNCHANGED <<installed, wanted, cancelled, ss, todo, fs, synced>>
  BY DEF Receive
<1>2. /\ root.pc = "select" /\ root'.pc \in {"list", "config", "status"}
      /\ root'.pc = "config" => root'.job.kind = "resetSystem"
  <2> DEFINE serving == [AtSelect EXCEPT !.job = sending[c], !.client = c]
  <2>1. CASE root' = [serving EXCEPT !.pc = "list"]
    BY <2>1 DEF Receive, AtSelect
  <2>2. CASE /\ sending[c].kind = "resetSystem"
             /\ root' = [serving EXCEPT !.pc = "config",
                                        !.sys = sending[c].sys]
    BY <2>2 DEF Receive, AtSelect
  <2>3. CASE root' = [serving EXCEPT !.pc = "status", !.left = Started]
    BY <2>3 DEF Receive, AtSelect
  <2>4. QED
    BY <2>1, <2>2, <2>3 DEF Receive
<1>3. \A s \in Systems : ss[s] \notin {"stopping", "starting"}
  BY <1>2 DEF IInv, ServingInv
<1>4. InstalledInv' /\ ListedInv'
  BY <1>1, <1>2 DEF SyncInv, InstalledInv, ListedInv
<1>5. \A s \in Systems : ConfigurationInv(s) => ConfigurationInv(s)'
  BY <1>1, <1>2, <1>3 DEF ConfigurationInv, Resetting, Registered
<1>6. LiveInv => LiveInv'
  BY <1>1, <1>2, <1>5 DEF LiveInv, Sweeping
<1>7. QED
  BY <1>1, <1>4, <1>6 DEF SyncInv

\* The steps of the root that change its own state only, and perhaps synced.
LEMMA RootAloneSyncInv ==
  ASSUME IInv, SyncInv,
         \/ RootCancelled \/ ListSystems \/ NextSystem \/ Sweep
         \/ StatusDone \/ Reply \/ Shutdown
  PROVE  SyncInv'
<1> USE DEF dbVars, systemVars, feedVars
<1>1. TypeOK /\ root \in RootStates
  BY DEF IInv, TypeOK
<1>2. UNCHANGED <<installed, wanted, cancelled, ss, todo, fs>>
  BY DEF RootCancelled, ListSystems, NextSystem, Sweep, StatusDone, Reply,
         Shutdown
<1>3. InstalledInv'
  BY <1>2 DEF SyncInv, InstalledInv
<1>4. \A s \in Systems : Registered(s)' = Registered(s)
  BY <1>2 DEF Registered
<1> USE DEF ResetPcs, StopPcs, OneSystemPcs
<1>6. CASE RootCancelled
  BY <1>1, <1>2, <1>3, <1>6 DEF RootCancelled, SyncInv, ListedInv, RootStates
<1>7. CASE ListSystems
  <2>1. /\ root.pc = "list" /\ synced' = synced
        /\ \/ root'.pc = "next" /\ root'.left = installed
           \/ root'.pc = "reply"
    BY <1>1, <1>7 DEF ListSystems, RootStates
  <2>2. ListedInv'
    BY <2>1 DEF ListedInv
  <2>3. \A s \in Systems : ss[s] \notin {"stopping", "starting"}
    BY <2>1 DEF IInv, ServingInv
  <2>4. \A s \in Systems : ConfigurationInv(s) => ConfigurationInv(s)'
    BY <1>2, <1>4, <2>1, <2>3 DEF ConfigurationInv, Resetting
  <2>5. Sweeping' => \A s \in Systems : SparedInv(s)'
    BY <1>2, <2>1 DEF Sweeping, SparedInv, SyncInv, InstalledInv
  <2>6. LiveInv => LiveInv'
    BY <1>2, <2>1, <2>4, <2>5 DEF LiveInv
  <2>7. QED
    BY <1>2, <1>3, <2>2, <2>6 DEF SyncInv
<1>8. CASE NextSystem
  <2>1. /\ root.pc = "next" /\ synced' = synced
        /\ \/ /\ ~root.failed /\ root'.pc = "config"
              /\ root'.updated = root.updated
              /\ root'.left = root.left \ {root'.sys}
           \/ /\ root'.pc = "sweep" /\ root'.left = {}
              /\ root'.updated = root.updated /\ root'.failed = root.failed
              /\ root.failed \/ root.left = {}
    <3>1. CASE ~root.failed /\ \E s \in root.left :
                 root' = [root EXCEPT !.pc = "config", !.sys = s,
                                      !.left = @ \ {s}]
      <4>1. PICK s \in root.left : root' = [root EXCEPT !.pc = "config", !.sys = s,
                                                        !.left = @ \ {s}]
        BY <3>1
      <4>2. /\ root'.pc = "config" /\ root'.sys = s /\ root'.left = root.left \ {s}
            /\ root'.updated = root.updated
        BY <1>1, <4>1 DEF RootStates
      <4>3. QED
        BY <1>8, <3>1, <4>2 DEF NextSystem
    <3>2. CASE /\ root.failed \/ root.left = {}
               /\ root' = [root EXCEPT !.pc = "sweep", !.left = {}]
      BY <1>1, <1>8, <3>2 DEF NextSystem, RootStates
    <3>3. QED
      BY <1>8, <3>1, <3>2 DEF NextSystem
  <2>2. ListedInv'
    BY <2>1 DEF ListedInv
  <2>3. \A s \in Systems : ss[s] \notin {"stopping", "starting"}
    BY <2>1 DEF IInv, ServingInv
  <2>4. \A s \in Systems : ConfigurationInv(s) => ConfigurationInv(s)'
    BY <1>2, <1>4, <2>1, <2>3 DEF ConfigurationInv, Resetting
  <2>5. Sweeping' => Sweeping /\ \A s \in Systems : SparedInv(s) => SparedInv(s)'
    BY <1>2, <2>1 DEF Sweeping, SparedInv
  <2>6. LiveInv => LiveInv'
    BY <1>2, <2>1, <2>4, <2>5 DEF LiveInv
  <2>7. QED
    BY <1>2, <1>3, <2>2, <2>6 DEF SyncInv
<1>9. CASE Sweep
  <2>1. /\ root.pc = "sweep" /\ root.left = {}
        /\ \A s \in Systems : ss[s] \notin {"stopping", "starting"}
    <3>1. root.pc = "sweep"
      BY <1>9 DEF Sweep
    <3>2. QED
      BY <3>1 DEF SyncInv, ListedInv, IInv, ServingInv
  <2>2. CASE root' = [root EXCEPT !.pc = "reply"] /\ UNCHANGED synced
    <3>1. root'.pc = "reply"
      BY <1>1, <2>2 DEF RootStates
    <3>2. ~Sweeping' /\ ListedInv'
      BY <3>1 DEF Sweeping, ListedInv
    <3>3. \A s \in Systems : ConfigurationInv(s) => ConfigurationInv(s)'
      BY <1>2, <1>4, <2>1, <3>1 DEF ConfigurationInv, Resetting
    <3>4. LiveInv => LiveInv'
      BY <1>2, <2>1, <2>2, <3>1, <3>2, <3>3 DEF LiveInv
    <3>5. QED
      BY <1>2, <1>3, <3>2, <3>4 DEF SyncInv
  <2>3. ASSUME NEW s \in Started \ root.updated,
               root' = [root EXCEPT !.pc = "stopSweep", !.sys = s],
               synced' = [synced EXCEPT ![s] = @ /\ ~root.failed]
        PROVE  SyncInv'
    <3>1. /\ root'.pc = "stopSweep" /\ root'.sys = s /\ root'.left = {}
          /\ root'.failed = root.failed /\ root'.updated = root.updated
      BY <1>1, <2>1, <2>3 DEF RootStates
    <3>2. /\ s \in Systems
          /\ synced'[s] => synced[s] /\ ~root.failed
          /\ \A t \in Systems \ {s} : synced'[t] = synced[t]
      BY <1>1, <2>3 DEF TypeOK, Started
    <3>3. ListedInv'
      BY <3>1 DEF ListedInv
    <3>4. LiveInv /\ synced'[s] => wanted[s] = {}
      BY <2>1, <3>2, <2>3 DEF LiveInv, Sweeping, SparedInv
    <3>5. LiveInv => \A t \in Systems : synced'[t] => ConfigurationInv(t)'
      BY <1>2, <1>4, <2>1, <3>1, <3>2, <3>4 DEF LiveInv, ConfigurationInv, Resetting
    <3>6. Sweeping' => Sweeping
      BY <2>1, <3>1 DEF Sweeping
    <3>7. \A t \in Systems : SparedInv(t) => SparedInv(t)'
      BY <1>2, <2>1, <3>1 DEF SparedInv
    <3>8. \A t \in Systems : ss[t] \in {"closing", "exited"} =>
             ~ (LiveInv)
      BY <2>1 DEF LiveInv
    <3>9. LiveInv => LiveInv'
      BY <1>2, <3>1, <3>2, <3>5, <3>6, <3>7, <3>8 DEF LiveInv
    <3>10. QED
      BY <1>2, <1>3, <3>3, <3>9 DEF SyncInv
  <2>4. QED
    BY <1>9, <2>2, <2>3 DEF Sweep
<1>10. CASE StatusDone \/ Reply
  <2>1. /\ root.pc \in {"status", "reply"} /\ root'.pc \in {"reply", "select"}
        /\ synced' = synced
    BY <1>1, <1>10 DEF StatusDone, Reply, AtSelect, RootStates
  <2>2. ~Sweeping' /\ ListedInv'
    BY <2>1 DEF Sweeping, ListedInv
  <2>3. \A s \in Systems : ss[s] \notin {"stopping", "starting"}
    BY <2>1 DEF IInv, ServingInv
  <2>4. \A s \in Systems : ConfigurationInv(s) => ConfigurationInv(s)'
    BY <1>2, <1>4, <2>1, <2>3 DEF ConfigurationInv, Resetting
  <2>5. LiveInv => LiveInv'
    BY <1>2, <2>1, <2>2, <2>4 DEF LiveInv
  <2>6. QED
    BY <1>2, <1>3, <2>2, <2>5 DEF SyncInv
<1>11. CASE Shutdown
  <2>1. root.pc = "shutdown" /\ root'.pc \in {"stopShutdown", "returned"}
    <3>1. CASE \E s \in Started :
                 root' = [root EXCEPT !.pc = "stopShutdown", !.sys = s]
      BY <1>1, <1>11, <3>1 DEF Shutdown, RootStates
    <3>2. CASE root' = [root EXCEPT !.pc = "returned"]
      BY <1>1, <1>11, <3>2 DEF Shutdown, RootStates
    <3>3. QED
      BY <1>11, <3>1, <3>2 DEF Shutdown
  <2>2. cancelled
    BY <2>1 DEF SyncInv, LiveInv
  <2>3. QED
    BY <1>2, <1>3, <2>1, <2>2 DEF SyncInv, ListedInv
<1>12. QED
  BY <1>6, <1>7, <1>8, <1>9, <1>10, <1>11

\* A step for the system the root is resetting leaves the others alone.
OthersAlone ==
  /\ UNCHANGED <<installed, wanted, cancelled>>
  /\ \A t \in Systems \ {root.sys} :
       /\ ss'[t] = ss[t]
       /\ todo'[t] = todo[t]
       /\ synced'[t] = synced[t]
       /\ Registered(t)' = Registered(t)

\* A step inside resetSystem.
LEMMA ResetGoesOn ==
  ASSUME SyncInv, OthersAlone, root.sys \in Systems,
         root.pc \in OneSystemPcs, root'.pc \in OneSystemPcs,
         root'.sys = root.sys, root'.job = root.job,
         root'.left = root.left, root'.updated = root.updated,
         ~cancelled =>
           /\ synced'[root.sys] => ConfigurationInv(root.sys)'
           /\ ss'[root.sys] \in {"closing", "exited"} => root'.pc = "stopReset"
  PROVE  SyncInv'
<1> USE DEF ResetPcs, StopPcs, OneSystemPcs
<1>1. InstalledInv' /\ ListedInv'
  BY DEF OthersAlone, SyncInv, InstalledInv, ListedInv
<1>2. ASSUME ~cancelled' PROVE LiveInv'
  <2>1. LiveInv /\ ~cancelled
    BY <1>2 DEF SyncInv, OthersAlone
  <2>2. ASSUME NEW t \in Systems, synced'[t] PROVE ConfigurationInv(t)'
    <3>1. CASE t = root.sys
      BY <2>1, <2>2, <3>1
    <3>2. CASE t # root.sys
      <4>1. ConfigurationInv(t)
        BY <2>1, <2>2, <3>2 DEF LiveInv, OthersAlone
      <4>2. QED
        BY <3>2, <4>1 DEF OthersAlone, ConfigurationInv, Resetting
    <3>3. QED
      BY <3>1, <3>2
  <2>3. Sweeping' => Sweeping
    BY DEF Sweeping
  <2>4. \A t \in Systems : SparedInv(t) => SparedInv(t)'
    BY DEF SparedInv, OthersAlone
  <2>5. Sweeping' => \A t \in Systems : synced'[t] => SparedInv(t)'
    BY <2>1, <2>3, <2>4 DEF LiveInv, OthersAlone, SparedInv
  <2>6. QED
    BY <2>1, <2>2, <2>5 DEF LiveInv, OthersAlone
<1>3. QED
  BY <1>1, <1>2 DEF SyncInv

\* The end of resetSystem.
LEMMA ResetEnds ==
  ASSUME TypeOK, SyncInv, OthersAlone, NEW s \in Systems, root.sys = s,
         root.pc \in OneSystemPcs,
         NEW ok \in BOOLEAN, root' = ResetReturns(ok),
         ~cancelled =>
           /\ synced'[s] => ok /\ Registered(s)' = wanted[s]
           /\ ss'[s] \notin {"stopping", "starting", "closing", "exited"}
  PROVE  SyncInv'
<1> USE DEF ResetPcs, StopPcs, OneSystemPcs
<1>1. /\ root'.pc = IF root.job.kind = "resetAll" THEN "next" ELSE "reply"
      /\ root'.failed = ~ok /\ root'.left = root.left
      /\ root'.updated = IF ok THEN root.updated \cup {root.sys}
                               ELSE root.updated
  BY DEF TypeOK, RootStates, ResetReturns
<1>2. InstalledInv' /\ ListedInv'
  BY <1>1 DEF OthersAlone, SyncInv, InstalledInv, ListedInv
<1>3. ASSUME ~cancelled' PROVE LiveInv'
  <2>1. LiveInv /\ ~cancelled
    BY <1>3 DEF SyncInv, OthersAlone
  <2>2. ASSUME NEW t \in Systems, synced'[t] PROVE ConfigurationInv(t)'
    BY <1>1, <2>1, <2>2 DEF LiveInv, OthersAlone, ConfigurationInv, Resetting
  <2>3. Sweeping' => Sweeping /\ ok
    BY <1>1 DEF Sweeping
  <2>4. Sweeping' => \A t \in Systems : SparedInv(t) => SparedInv(t)'
    BY <1>1, <2>3 DEF SparedInv, OthersAlone
  <2>5. Sweeping' => \A t \in Systems : synced'[t] => SparedInv(t)'
    BY <1>1, <2>1, <2>3, <2>4 DEF LiveInv, OthersAlone, SparedInv
  <2>6. QED
    BY <1>1, <2>1, <2>2, <2>5 DEF LiveInv, OthersAlone
<1>4. QED
  BY <1>2, <1>3 DEF SyncInv

\* resetSystem fails before it has touched the system scheduler.
LEMMA ResetFailsSyncInv ==
  ASSUME IInv, SyncInv, root.pc \in {"config", "agencies"}, ResetFails
  PROVE  SyncInv'
<1> USE DEF dbVars, systemVars, feedVars
<1>1. TypeOK /\ root.sys \in Systems
  BY DEF IInv, RootInv, ResetPcs
<1>2. OthersAlone /\ ~synced'[root.sys] /\ ss' = ss
  BY <1>1 DEF ResetFails, OthersAlone, TypeOK, Registered
<1>3. ~cancelled =>
        ss[root.sys] \notin {"stopping", "starting", "closing", "exited"}
  BY <1>1 DEF IInv, ServingInv, SyncInv, LiveInv, StopPcs
<1>4. QED
  BY <1>1, <1>2, <1>3, ResetEnds DEF ResetFails, ResetPcs, OneSystemPcs

\* resetSystem finds that no feed of the system is to be scheduled.
LEMMA StopOrReturnSyncInv ==
  ASSUME IInv, SyncInv, root.pc \in {"config", "agencies"}, StopOrReturn,
         UNCHANGED <<installed, wanted, cancelled, ss, todo, fs>>,
         \A t \in Systems \ {root.sys} : synced'[t] = synced[t],
         synced'[root.sys] /\ ~cancelled => wanted[root.sys] = {}
  PROVE  SyncInv'
<1> USE DEF ResetPcs, StopPcs, OneSystemPcs
<1>1. TypeOK /\ root \in RootStates /\ root.sys \in Systems
  BY DEF IInv, TypeOK, RootInv
<1>2. OthersAlone
  BY DEF OthersAlone, Registered
<1>3. ss[root.sys] \notin {"stopping", "starting"}
  BY <1>1 DEF IInv, ServingInv
<1>4. ~cancelled => ss[root.sys] \notin {"closing", "exited"}
  BY <1>1 DEF SyncInv, LiveInv
<1>5. CASE root.sys \in Started
  <2>1. root' = [root EXCEPT !.pc = "stopReset", !.feeds = {}]
    BY <1>5 DEF StopOrReturn
  <2>2. /\ root'.pc = "stopReset" /\ root'.sys = root.sys
        /\ root'.job = root.job /\ root'.left = root.left
        /\ root'.updated = root.updated
    BY <1>1, <2>1 DEF RootStates
  <2>3. ~cancelled /\ synced'[root.sys] => ConfigurationInv(root.sys)'
    BY <1>3, <2>2 DEF ConfigurationInv, Resetting
  <2>4. QED
    BY <1>1, <1>2, <1>4, <2>2, <2>3, ResetGoesOn
<1>6. CASE root.sys \notin Started
  <2>1. root' = ResetReturns(TRUE) /\ ss[root.sys] = "none"
    BY <1>1, <1>6 DEF StopOrReturn, Started
  <2>2. PICK s \in Systems : s = root.sys
    BY <1>1
  <2>3. Registered(s)' = {}
    BY <2>1, <2>2 DEF IInv, SystemInv, Registered, FeedsOf
  <2>4. QED
    BY <1>1, <1>2, <1>3, <1>4, <2>1, <2>2, <2>3, ResetEnds
<1>7. QED
  BY <1>5, <1>6

LEMMA GetSystemConfigSyncInv ==
  ASSUME IInv, SyncInv, GetSystemConfig
  PROVE  SyncInv'
<1> USE DEF dbVars, systemVars, feedVars, ResetPcs, StopPcs, OneSystemPcs
<1>1. /\ root.pc = "config" /\ TypeOK /\ root \in RootStates
      /\ root.sys \in Systems
  BY DEF GetSystemConfig, IInv, TypeOK, RootInv
<1>2. CASE ResetFails
  BY <1>1, <1>2, ResetFailsSyncInv
<1>3. CASE ~ResetFails
  <2>1. /\ UNCHANGED <<installed, wanted, cancelled, ss, todo, fs>>
        /\ synced' = [synced EXCEPT ![root.sys] = TRUE]
    BY <1>3 DEF GetSystemConfig
  <2>2. \A t \in Systems \ {root.sys} : synced'[t] = synced[t]
    BY <1>1, <2>1 DEF TypeOK
  <2>3. CASE root.sys \notin installed
    <3>1. StopOrReturn
      BY <1>3, <2>3 DEF GetSystemConfig
    <3>2. wanted[root.sys] = {}
      BY <1>1, <2>3 DEF SyncInv, InstalledInv
    <3>3. QED
      BY <1>1, <2>1, <2>2, <3>1, <3>2, StopOrReturnSyncInv
  <2>4. CASE root.sys \in installed
    <3>1. root' = [root EXCEPT !.pc = "agencies", !.feeds = wanted[root.sys]]
      BY <1>3, <2>4 DEF GetSystemConfig
    <3>2. /\ root'.pc = "agencies" /\ root'.sys = root.sys
          /\ root'.job = root.job /\ root'.left = root.left
          /\ root'.updated = root.updated /\ root'.feeds = wanted[root.sys]
      BY <1>1, <3>1 DEF RootStates
    <3>3. OthersAlone
      BY <2>1, <2>2 DEF OthersAlone, Registered
    <3>4. ss[root.sys] \notin {"stopping", "starting"}
      BY <1>1 DEF IInv, ServingInv
    <3>5. ~cancelled => ss[root.sys] \notin {"closing", "exited"}
      BY <1>1 DEF SyncInv, LiveInv
    <3>6. ConfigurationInv(root.sys)'
      BY <2>1, <3>2, <3>4 DEF ConfigurationInv, Resetting
    <3>7. QED
      BY <1>1, <2>1, <3>2, <3>3, <3>5, <3>6, ResetGoesOn
  <2>5. QED
    BY <2>3, <2>4
<1>4. QED
  BY <1>2, <1>3

LEMMA ListAgenciesSyncInv ==
  ASSUME IInv, SyncInv, ListAgencies
  PROVE  SyncInv'
<1> USE DEF dbVars, systemVars, feedVars, ResetPcs, StopPcs, OneSystemPcs
<1>1. /\ root.pc = "agencies" /\ TypeOK /\ root \in RootStates
      /\ root.sys \in Systems
  BY DEF ListAgencies, IInv, TypeOK, RootInv
<1>2. ~cancelled /\ synced[root.sys] => root.feeds = wanted[root.sys]
  BY <1>1 DEF SyncInv, LiveInv, ConfigurationInv
<1>3. CASE ResetFails
  BY <1>1, <1>3, ResetFailsSyncInv
<1>4. CASE ~ResetFails /\ root.feeds = {}
  <2>1. /\ StopOrReturn
        /\ UNCHANGED <<installed, wanted, cancelled, ss, todo, fs, synced>>
    BY <1>4 DEF ListAgencies
  <2>2. QED
    BY <1>1, <1>2, <1>4, <2>1, StopOrReturnSyncInv
<1>5. CASE ~ResetFails /\ root.feeds # {}
  <2>1. /\ root' = [root EXCEPT !.pc = "sendReset"]
        /\ ss' = [ss EXCEPT ![root.sys] = IF @ = "none" THEN "select" ELSE @]
        /\ UNCHANGED <<installed, wanted, cancelled, todo, fs, synced>>
    BY <1>5 DEF ListAgencies
  <2>2. /\ root'.pc = "sendReset" /\ root'.sys = root.sys
        /\ root'.job = root.job /\ root'.left = root.left
        /\ root'.updated = root.updated /\ root'.feeds = root.feeds
    BY <1>1, <2>1 DEF RootStates
  <2>3. OthersAlone
    BY <1>1, <2>1 DEF OthersAlone, Registered, TypeOK
  <2>4. ss[root.sys] \notin {"stopping", "starting"}
    BY <1>1 DEF IInv, ServingInv
  <2>5. ~cancelled => ss[root.sys] \notin {"closing", "exited"}
    BY <1>1 DEF SyncInv, LiveInv
  <2>6. ss'[root.sys] \in {ss[root.sys], "select"}
    BY <1>1, <2>1 DEF TypeOK
  <2>7. ~cancelled /\ synced'[root.sys] => ConfigurationInv(root.sys)'
    BY <1>2, <2>1, <2>2, <2>4, <2>6 DEF ConfigurationInv, Resetting
  <2>8. QED
    BY <1>1, <2>2, <2>3, <2>5, <2>6, <2>7, ResetGoesOn
<1>6. QED
  BY <1>3, <1>4, <1>5

\* The exchanges between the root and a system scheduler.
LEMMA SendResetSyncInv ==
  ASSUME IInv, SyncInv, SendReset
  PROVE  SyncInv'
<1> USE DEF dbVars, systemVars, feedVars, ResetPcs, StopPcs, OneSystemPcs
<1>1. /\ root.pc = "sendReset" /\ TypeOK /\ root \in RootStates
      /\ root.sys \in Systems
  BY DEF SendReset, IInv, TypeOK, RootInv
<1>2. /\ root'.pc = "awaitReset" /\ root'.sys = root.sys
      /\ root'.job = root.job /\ root'.left = root.left
      /\ root'.updated = root.updated
  BY <1>1 DEF SendReset, RootStates
<1>3. OthersAlone /\ UNCHANGED <<wanted, synced, cancelled>>
  BY <1>1 DEF SendReset, OthersAlone, Registered, TypeOK
<1>4. ss'[root.sys] = "stopping" /\ todo'[root.sys] = root.feeds
  BY <1>1 DEF SendReset, TypeOK
<1>5. ~cancelled /\ synced'[root.sys] => ConfigurationInv(root.sys)'
  BY <1>1, <1>2, <1>3, <1>4 DEF SyncInv, LiveInv, ConfigurationInv, Resetting
<1>6. QED
  BY <1>1, <1>2, <1>3, <1>4, <1>5, ResetGoesOn

LEMMA ResetAnsweredSyncInv ==
  ASSUME IInv, SyncInv, ResetAnswered
  PROVE  SyncInv'
<1> USE DEF dbVars, systemVars, feedVars, ResetPcs, StopPcs, OneSystemPcs
<1>1. /\ root.pc = "awaitReset" /\ TypeOK /\ root.sys \in Systems
      /\ ss[root.sys] = "starting" /\ todo[root.sys] = {}
  BY DEF ResetAnswered, IInv, RootInv
<1>2. /\ OthersAlone /\ UNCHANGED synced
      /\ ss'[root.sys] = "select" /\ root' = ResetReturns(TRUE)
  BY <1>1 DEF ResetAnswered, OthersAlone, Registered, TypeOK
<1>3. PICK s \in Systems : s = root.sys
  BY <1>1
<1>4. Registered(s)' = Registered(s)
  BY DEF ResetAnswered, Registered
<1>5. ~cancelled /\ synced'[s] => Registered(s)' = wanted[s]
  BY <1>1, <1>2, <1>3, <1>4 DEF SyncInv, LiveInv, ConfigurationInv
<1>6. QED
  BY <1>1, <1>2, <1>3, <1>5, ResetEnds

LEMMA StopReturnsSyncInv ==
  ASSUME IInv, SyncInv, StopReturns
  PROVE  SyncInv'
<1> USE DEF dbVars, systemVars, feedVars, ResetPcs, StopPcs, OneSystemPcs
<1>1. /\ root.pc \in StopPcs /\ TypeOK /\ root \in RootStates
      /\ root.sys \in Systems /\ ss[root.sys] = "exited"
  BY DEF StopReturns, IInv, TypeOK, RootInv
<1>2. OthersAlone /\ UNCHANGED <<installed, wanted, cancelled, synced, fs>>
  BY <1>1 DEF StopReturns, OthersAlone, Registered, TypeOK
<1>3. ss'[root.sys] = "none"
  BY <1>1 DEF StopReturns, TypeOK
<1>4. Registered(root.sys) = {}
  BY <1>1 DEF IInv, SystemInv, Registered, FeedsOf
<1>5. ~cancelled /\ synced[root.sys] => wanted[root.sys] = {}
  BY <1>1 DEF SyncInv, LiveInv, ConfigurationInv
<1>6. CASE root.pc = "stopReset"
  <2>1. root' = ResetReturns(TRUE)
    BY <1>6 DEF StopReturns
  <2>2. PICK s \in Systems : s = root.sys
    BY <1>1
  <2>3. Registered(s)' = {}
    BY <1>2, <1>4, <2>2 DEF Registered
  <2>4. QED
    BY <1>1, <1>2, <1>3, <1>5, <1>6, <2>1, <2>2, <2>3, ResetEnds
<1>7. CASE root.pc = "stopSweep"
  <2>1. root' = [root EXCEPT !.pc = "sweep", !.sys = None]
    BY <1>7 DEF StopReturns
  <2>2. /\ root'.pc = "sweep" /\ root'.left = root.left
        /\ root'.failed = root.failed /\ root'.updated = root.updated
    BY <1>1, <2>1 DEF RootStates
  <2>3. InstalledInv' /\ ListedInv'
    BY <1>2, <1>7, <2>2 DEF SyncInv, InstalledInv, ListedInv
  <2>4. ASSUME ~cancelled' PROVE LiveInv'
    <3>1. LiveInv /\ ~cancelled
      BY <1>2, <2>4 DEF SyncInv
    <3>2. ASSUME NEW t \in Systems, synced'[t] PROVE ConfigurationInv(t)'
      <4>1. CASE t = root.sys
        <5>1. Registered(t)' = {}
          BY <1>2, <1>4, <4>1 DEF Registered
        <5>2. QED
          BY <1>2, <1>3, <1>5, <2>2, <3>1, <3>2, <4>1, <5>1
          DEF ConfigurationInv, Resetting
      <4>2. CASE t # root.sys
        BY <1>2, <2>2, <3>1, <3>2, <4>2
        DEF LiveInv, OthersAlone, ConfigurationInv, Resetting
      <4>3. QED
        BY <4>1, <4>2
    <3>3. Sweeping' => \A t \in Systems : synced'[t] => SparedInv(t)'
      BY <1>2, <1>7, <2>2, <3>1 DEF LiveInv, Sweeping, SparedInv
    <3>4. QED
      BY <1>3, <1>2, <2>2, <3>1, <3>2, <3>3 DEF LiveInv, OthersAlone
  <2>5. QED
    BY <2>3, <2>4 DEF SyncInv
<1>8. CASE root.pc = "stopShutdown"
  <2>1. cancelled' /\ root'.pc = "shutdown"
    <3>1. cancelled
      BY <1>8 DEF SyncInv, LiveInv
    <3>2. root' = [root EXCEPT !.pc = "shutdown", !.sys = None]
      BY <1>8 DEF StopReturns
    <3>3. QED
      BY <1>1, <1>2, <3>1, <3>2 DEF RootStates
  <2>2. QED
    BY <1>2, <2>1 DEF SyncInv, InstalledInv, ListedInv
<1>9. QED
  BY <1>1, <1>6, <1>7, <1>8

\* The exchanges of a status request change no schedule.
LEMMA StatusSyncInv ==
  ASSUME IInv, SyncInv,
         StatusAnswered \/ \E s \in Systems : SendStatus(s)
  PROVE  SyncInv'
<1> USE DEF dbVars, systemVars, feedVars, ResetPcs, StopPcs, OneSystemPcs
<1>1. TypeOK /\ root \in RootStates
  BY DEF IInv, TypeOK
<1>2. /\ root.pc \in {"status", "awaitStatus"}
      /\ root'.pc \in {"status", "awaitStatus"}
  BY <1>1 DEF StatusAnswered, SendStatus, RootStates
<1>3. UNCHANGED <<installed, wanted, cancelled, synced, fs>>
  BY DEF StatusAnswered, SendStatus
<1>4. \A t \in Systems : ss'[t] \in {ss[t], "status", "select"}
  <2>1. CASE StatusAnswered
    BY <1>1, <2>1 DEF StatusAnswered, TypeOK
  <2>2. CASE \E s \in Systems : SendStatus(s)
    BY <1>1, <2>2 DEF SendStatus, TypeOK
  <2>3. QED
    BY <2>1, <2>2
<1>5. \A t \in Systems : ss[t] \notin {"stopping", "starting"}
  BY <1>2 DEF IInv, ServingInv
<1>6. InstalledInv' /\ ListedInv'
  BY <1>2, <1>3 DEF SyncInv, InstalledInv, ListedInv
<1>7. \A t \in Systems : ConfigurationInv(t) => ConfigurationInv(t)'
  BY <1>2, <1>3, <1>4, <1>5 DEF ConfigurationInv, Resetting, Registered
<1>8. LiveInv => LiveInv'
  BY <1>2, <1>3, <1>4, <1>7 DEF LiveInv, Sweeping
<1>9. QED
  BY <1>3, <1>6, <1>8 DEF SyncInv

\* A system scheduler.
LEMMA SystemSyncInv ==
  ASSUME IInv, SyncInv, NEW s \in Systems, SystemCancelled(s) \/ SystemStep(s)
  PROVE  SyncInv'
<1> USE OwnerAssumption DEF dbVars, systemVars, feedVars
<1>1. TypeOK /\ ServingInv(s) /\ SystemInv(s)
  BY DEF IInv
<1>2. UNCHANGED <<installed, wanted, cancelled, root, synced>>
  BY DEF SystemCancelled, SystemStep, FeedsStopped, StartFeedScheduler,
         FeedStatus
<1>3. InstalledInv' /\ ListedInv'
  BY <1>2 DEF SyncInv, InstalledInv, ListedInv
<1>4. ASSUME \A t \in Systems \ {s} : /\ ss'[t] = ss[t]
                                      /\ todo'[t] = todo[t]
                                      /\ Registered(t)' = Registered(t),
             ~cancelled =>
               /\ ss'[s] \in {"closing", "exited"} =>
                    root.pc \in StopPcs /\ root.sys = s
               /\ synced[s] => ConfigurationInv(s)'
      PROVE  SyncInv'
  <2>1. \A t \in Systems \ {s} : ConfigurationInv(t) => ConfigurationInv(t)'
    BY <1>2, <1>4 DEF ConfigurationInv, Resetting
  <2>2. Sweeping' => Sweeping /\ \A t \in Systems : SparedInv(t) => SparedInv(t)'
    BY <1>2 DEF Sweeping, SparedInv
  <2>3. ~cancelled /\ LiveInv => LiveInv'
    BY <1>2, <1>4, <2>1, <2>2 DEF LiveInv
  <2>4. QED
    BY <1>2, <1>3, <2>3 DEF SyncInv
<1>5. ~cancelled /\ synced[s] => ConfigurationInv(s)
  BY DEF SyncInv, LiveInv
<1>6. CASE SystemCancelled(s)
  <2>1. /\ ss[s] = "select" /\ ss' = [ss EXCEPT ![s] = "closing"]
        /\ todo' = todo /\ fs' = fs
        /\ ~cancelled => root.pc \in StopPcs /\ root.sys = s
    BY <1>6 DEF SystemCancelled, SystemDone
  <2>2. \A t \in Systems : Registered(t)' = Registered(t)
    BY <2>1 DEF Registered
  <2>3. ~cancelled /\ synced[s] => ConfigurationInv(s)'
    BY <1>1, <1>2, <1>5, <2>1, <2>2 DEF ConfigurationInv, Resetting, TypeOK
  <2>4. QED
    BY <1>1, <1>4, <2>1, <2>2, <2>3 DEF TypeOK
<1>7. CASE FeedsStopped(s)
  <2>1. /\ ss[s] \in {"stopping", "closing"} /\ todo' = todo
        /\ ss' = [ss EXCEPT ![s] = IF @ = "stopping" THEN "starting"
                                                     ELSE "exited"]
        /\ \A f \in Feeds : fs'[f] = IF Owner[f] = s THEN "none" ELSE fs[f]
    BY <1>7 DEF FeedsStopped
  <2>2. /\ Registered(s)' = {}
        /\ \A t \in Systems \ {s} : Registered(t)' = Registered(t)
    BY <2>1 DEF Registered, FeedsOf
  <2>3. /\ ss[s] = "stopping" => root.pc \in ResetPcs /\ root.sys = s
        /\ ss[s] = "closing" /\ ~cancelled => root.pc \in StopPcs /\ root.sys = s
    BY <1>1 DEF ServingInv, SyncInv, LiveInv, ResetPcs
  <2>4. ~cancelled /\ synced[s] => ConfigurationInv(s)'
    BY <1>1, <1>2, <1>5, <2>1, <2>2, <2>3
    DEF ConfigurationInv, Resetting, TypeOK
  <2>5. QED
    BY <1>1, <1>4, <2>1, <2>2, <2>3, <2>4 DEF TypeOK
<1>8. ASSUME NEW f \in Feeds, StartFeedScheduler(s, f)
      PROVE  SyncInv'
  <2>1. /\ ss[s] = "starting" /\ f \in todo[s] /\ ss' = ss
        /\ todo' = [todo EXCEPT ![s] = @ \ {f}]
        /\ fs' = [fs EXCEPT ![f] = "select"]
    BY <1>8 DEF StartFeedScheduler
  <2>2. Owner[f] = s /\ root.pc = "awaitReset" /\ root.sys = s
    BY <1>1, <2>1 DEF IInv, ServingInv, RootInv, ResetPcs
  <2>3. /\ Registered(s)' = Registered(s) \cup {f}
        /\ \A t \in Systems \ {s} : Registered(t)' = Registered(t)
    BY <1>1, <2>1, <2>2 DEF Registered, FeedsOf, TypeOK
  <2>4. todo'[s] = todo[s] \ {f} /\ \A t \in Systems \ {s} : todo'[t] = todo[t]
    BY <1>1, <2>1 DEF TypeOK
  <2>5. ~cancelled /\ synced[s] => ConfigurationInv(s)'
    BY <1>2, <1>5, <2>1, <2>2, <2>3, <2>4
    DEF ConfigurationInv, Resetting, ResetPcs, StopPcs
  <2>6. QED
    BY <1>4, <2>1, <2>3, <2>4, <2>5
<1>9. ASSUME NEW f \in Feeds, FeedStatus(s, f)
      PROVE  SyncInv'
  <2>1. /\ UNCHANGED <<ss, fs>> /\ ss[s] = "status"
        /\ \A t \in Systems \ {s} : todo'[t] = todo[t]
    BY <1>1, <1>9 DEF FeedStatus, TypeOK
  <2>2. root' = [root EXCEPT !.client = root'.client]
    BY <1>1, <1>2 DEF TypeOK, RootStates
  <2>3. QED
    BY <1>1, <1>2, <2>1, <2>2, SyncFrame
<1>10. QED
  BY <1>6, <1>7, <1>8, <1>9 DEF SystemStep

\* A feed scheduler and its update goroutines.
LEMMA FeedSyncInv ==
  ASSUME IInv, SyncInv, NEW f \in Feeds, StartUpdate(f) \/ FeedStep(f)
  PROVE  SyncInv'
<1> USE DEF dbVars, systemVars
<1>1. TypeOK
  BY DEF IInv
<1>2. UNCHANGED <<installed, wanted, cancelled, root, ss, todo, synced>>
  BY DEF StartUpdate, FeedStep, UpdateReturns, UpdateFinished, FeedCancelled,
         FeedDrained
<1>3. \A g \in Feeds : fs'[g] = "none" <=> fs[g] = "none"
  BY <1>1 DEF StartUpdate, FeedStep, UpdateReturns, UpdateFinished,
              FeedCancelled, FeedDrained, TypeOK
<1>4. root' = [root EXCEPT !.client = root'.client]
  BY <1>1, <1>2 DEF TypeOK, RootStates
<1>5. QED
  BY <1>1, <1>2, <1>3, <1>4, SyncFrame

LEMMA NextSyncInv == IInv /\ SyncInv /\ [Next]_vars => SyncInv'
<1> SUFFICES ASSUME IInv, SyncInv, [Next]_vars PROVE SyncInv'
  OBVIOUS
<1>1. CASE Environment
  BY <1>1, EnvironmentSyncInv
<1>2. CASE \E c \in Callers : Receive(c)
  BY <1>2, ReceiveSyncInv
<1>3. CASE RootCancelled \/ RootStep
  BY <1>3, RootAloneSyncInv, GetSystemConfigSyncInv, ListAgenciesSyncInv,
     SendResetSyncInv, ResetAnsweredSyncInv, StopReturnsSyncInv, StatusSyncInv
  DEF RootStep
<1>4. CASE \E s \in Systems : SystemCancelled(s) \/ SystemStep(s)
  BY <1>4, SystemSyncInv
<1>5. CASE \E f \in Feeds : StartUpdate(f) \/ FeedStep(f)
  BY <1>5, FeedSyncInv
<1>6. CASE UNCHANGED vars
  <2>1. root' = [root EXCEPT !.client = root'.client]
    BY <1>6 DEF vars, IInv, TypeOK, RootStates
  <2>2. QED
    BY <1>6, <2>1, SyncFrame DEF vars, IInv
<1>7. QED
  BY <1>1, <1>2, <1>3, <1>4, <1>5, <1>6 DEF Next

\* Between requests, a system whose last reset succeeded has exactly the feeds
\* of the configuration that reset has read, and the sweep of a successful
\* resetAllRequest takes no such system down.
THEOREM SyncedIsScheduled == Spec => []SyncedSystemIsScheduled
<1>1. IInv /\ SyncInv => SyncedSystemIsScheduled
  <2> SUFFICES ASSUME SyncInv, root.pc = "select", ~cancelled,
                      NEW s \in Systems, synced[s]
               PROVE  Registered(s) = wanted[s]
    BY DEF SyncedSystemIsScheduled
  <2>1. ConfigurationInv(s)
    BY DEF SyncInv, LiveInv
  <2>2. QED
    BY <2>1 DEF ConfigurationInv, Resetting, ResetPcs, StopPcs
<1>2. Spec => []SyncInv
  BY InitSyncInv, NextSyncInv, Invariant, PTL DEF Spec
<1>3. QED
  BY <1>1, <1>2, Invariant, PTL
-----------------------------------------------------------------------------
(***************************************************************************)
(* One feed scheduler with its ticker and its update goroutine, in detail  *)
(* (the module FeedScheduler), for any bound on its updates: what its      *)
(* status says is what happened, its done channel is closed only behind    *)
(* its last update, and it implements the abstract scheduler for its feed. *)
(***************************************************************************)
\* The updates whose result the feed scheduler has received.
Received == Len(outcomes) - (IF Feed!Reporting THEN 1 ELSE 0)
NoError(n) == {i \in 1..n : Feed!ErrorOf(outcomes[i]) = "nil"}

\* Before its first select there is nothing to report.
FreshAtStart ==
  pc = "starting" =>
    /\ update = "none" /\ ~running
    /\ outcomes = <<>> /\ lastFinished = 0 /\ lastSuccessful = 0

\* What the update goroutine is about to report is the last outcome, and while
\* it executes there is room for one more.
ReportIsLast ==
  /\ Feed!Reporting => /\ Len(outcomes) > 0
                  /\ update = Feed!ErrorOf(outcomes[Len(outcomes)])
  /\ update = "executing" => Len(outcomes) < MaxUpdates

StatusFollows ==
  pc = "select" =>
    /\ running <=> update # "none"
    /\ lastFinished = Received
    /\ lastSuccessful \in NoError(Received) \cup {0}
    /\ \A i \in NoError(Received) : i <= lastSuccessful

FeedSchedulerInv ==
  /\ Feed!TypeOK
  /\ FreshAtStart
  /\ ReportIsLast
  /\ StatusFollows
  /\ Feed!DoneMeansNoUpdate
-----------------------------------------------------------------------------
LEMMA FeedSchedulerInit ==
  Feed!Init => FeedSchedulerInv
<1> SUFFICES ASSUME Feed!Init PROVE FeedSchedulerInv
    OBVIOUS
<1>1. outcomes \in Seq(Feed!Outcomes) /\ Len(outcomes) = 0
    BY DEF Feed!Init
<1>2. 0 \in 0..MaxUpdates /\ 0 <= MaxUpdates
    BY MaxUpdatesAssumption
<1>3. Feed!TypeOK
    BY <1>1, <1>2 DEF Feed!Init, Feed!TypeOK
<1> QED
    BY <1>3 DEF Feed!Init, FeedSchedulerInv, FreshAtStart, ReportIsLast, StatusFollows, Feed!Reporting,
       Feed!DoneMeansNoUpdate

\* The type invariant is kept by every step: the last two of the counters it
\* bounds are copies of the number of outcomes.
LEMMA FeedSchedulerStepType ==
  FeedSchedulerInv /\ [Feed!Next]_Feed!vars => Feed!TypeOK'
<1> SUFFICES ASSUME FeedSchedulerInv, [Feed!Next]_Feed!vars PROVE Feed!TypeOK'
    OBVIOUS
<1> USE DEF FeedSchedulerInv, Feed!TypeOK
<1>1. CASE Feed!Cancel \/ Feed!Ask \/ Feed!ClockTick \/ Feed!TakeTick \/ Feed!StopTicker \/ Feed!Start
    BY <1>1 DEF Feed!Cancel, Feed!Ask, Feed!ClockTick, Feed!TakeTick, Feed!StopTicker, Feed!Start, Feed!statusVars
<1>2. CASE Feed!Tick
    BY <1>2 DEF Feed!Tick, Feed!statusVars
<1>3. CASE Feed!UpdateReturns
  <2>1. PICK o \in Feed!Outcomes :
          outcomes' = Append(outcomes, o) /\ update' = Feed!ErrorOf(o)
      BY <1>3 DEF Feed!UpdateReturns
  <2>2. /\ outcomes' \in Seq(Feed!Outcomes)
        /\ Len(outcomes') = Len(outcomes) + 1
      BY <2>1
  <2>3. Len(outcomes') <= MaxUpdates
      BY MaxUpdatesAssumption, <1>3, <2>2 DEF Feed!UpdateReturns, ReportIsLast
  <2> QED
      BY <1>3, <2>1, <2>2, <2>3 DEF Feed!UpdateReturns, Feed!statusVars, Feed!ErrorOf
<1>4. CASE Feed!UpdateFinished
  <2>1. Len(outcomes) \in 0..MaxUpdates
      OBVIOUS
  <2>2. lastFinished' \in 0..MaxUpdates /\ lastSuccessful' \in 0..MaxUpdates
      BY <1>4, <2>1 DEF Feed!UpdateFinished
  <2> QED
      BY <1>4, <2>2 DEF Feed!UpdateFinished
<1>5. CASE Feed!AnswerStatus \/ Feed!NoticeCancel \/ Feed!Drain
    BY <1>5 DEF Feed!AnswerStatus, Feed!NoticeCancel, Feed!Drain, Feed!statusVars
<1>6. CASE UNCHANGED Feed!vars
    BY <1>6 DEF Feed!vars
<1> QED
    BY <1>1, <1>2, <1>3, <1>4, <1>5, <1>6 DEF Feed!Next

LEMMA FeedSchedulerStep ==
  FeedSchedulerInv /\ [Feed!Next]_Feed!vars => FeedSchedulerInv'
<1> SUFFICES ASSUME FeedSchedulerInv, [Feed!Next]_Feed!vars PROVE FeedSchedulerInv'
    OBVIOUS
<1>0. Feed!TypeOK'
    BY FeedSchedulerStepType
<1> USE DEF FeedSchedulerInv, Feed!Reporting, Received, NoError
<1>1. CASE Feed!Cancel \/ Feed!Ask \/ Feed!ClockTick \/ Feed!TakeTick \/ Feed!StopTicker \/ Feed!AnswerStatus
           \/ Feed!NoticeCancel \/ UNCHANGED Feed!vars
    BY <1>0, <1>1 DEF Feed!Cancel, Feed!Ask, Feed!ClockTick, Feed!TakeTick, Feed!StopTicker, Feed!AnswerStatus,
       Feed!NoticeCancel, Feed!vars, Feed!statusVars, Feed!TypeOK, FreshAtStart, ReportIsLast,
       StatusFollows, Feed!DoneMeansNoUpdate
<1>2. CASE Feed!Start
    BY <1>0, <1>2 DEF Feed!Start, Feed!statusVars, Feed!TypeOK, FreshAtStart, ReportIsLast,
       StatusFollows, Feed!DoneMeansNoUpdate
<1>3. CASE Feed!Tick
  <2>1. pc = "select" /\ pc' = "select"
      BY <1>3 DEF Feed!Tick
  <2>2. Received' = Received /\ NoError(Received)' = NoError(Received)
      BY <1>3, <2>1 DEF Feed!Tick, StatusFollows
  <2>3. ReportIsLast'
      BY MaxUpdatesAssumption, <1>3, <2>1 DEF Feed!Tick, Feed!TypeOK, ReportIsLast
  <2>4. StatusFollows'
      BY <1>3, <2>1, <2>2 DEF Feed!Tick, Feed!statusVars, StatusFollows
  <2> QED
      BY <1>0, <2>1, <2>3, <2>4 DEF FreshAtStart, Feed!DoneMeansNoUpdate
<1>4. CASE Feed!UpdateReturns
  <2>1. PICK o \in Feed!Outcomes :
          outcomes' = Append(outcomes, o) /\ update' = Feed!ErrorOf(o)
      BY <1>4 DEF Feed!UpdateReturns
  <2>2. /\ Len(outcomes) \in Nat
        /\ Len(outcomes') = Len(outcomes) + 1
        /\ outcomes'[Len(outcomes')] = o
        /\ \A i \in 1..Len(outcomes) : outcomes'[i] = outcomes[i]
      BY <2>1 DEF Feed!TypeOK
  <2>3. update = "executing" /\ Feed!Reporting'
      BY <1>4, <2>1 DEF Feed!UpdateReturns, Feed!ErrorOf
  <2>4. ReportIsLast'
      BY <2>1, <2>2, <2>3 DEF ReportIsLast
  <2>5. Received' = Len(outcomes) /\ Received = Len(outcomes)
      BY <2>2, <2>3
  <2>6. NoError(Received)' = NoError(Received)
      BY <2>2, <2>5
  <2>7. StatusFollows'
      BY <1>4, <2>3, <2>5, <2>6 DEF Feed!UpdateReturns, Feed!statusVars, StatusFollows
  <2> QED
      BY <1>0, <1>4, <2>3, <2>4, <2>7
      DEF Feed!UpdateReturns, FreshAtStart, Feed!DoneMeansNoUpdate
<1>5. CASE Feed!UpdateFinished
  <2>1. /\ Feed!Reporting /\ ~Feed!Reporting'
        /\ pc = "select" /\ pc' = "select"
        /\ outcomes' = outcomes
        /\ ~running' /\ update' = "none"
      BY <1>5 DEF Feed!UpdateFinished
  <2>2. /\ Len(outcomes) \in Nat /\ Len(outcomes) > 0
        /\ Received = Len(outcomes) - 1
        /\ Received' = Len(outcomes)
        /\ update = Feed!ErrorOf(outcomes[Len(outcomes)])
      BY <2>1 DEF Feed!TypeOK, ReportIsLast
  <2>3. NoError(Received)' = IF update = "nil"
                             THEN NoError(Received) \cup {Len(outcomes)}
                             ELSE NoError(Received)
      BY <2>1, <2>2
  <2>4. lastFinished' = Received'
      BY <1>5, <2>2 DEF Feed!UpdateFinished
  <2>5. /\ lastSuccessful \in NoError(Received) \cup {0}
        /\ \A i \in NoError(Received) : i <= lastSuccessful
      BY <2>1 DEF StatusFollows
  <2>6. /\ lastSuccessful' \in NoError(Received)' \cup {0}
        /\ \A i \in NoError(Received)' : i <= lastSuccessful'
    <3>1. CASE update = "nil"
        BY <1>5, <2>2, <2>3, <3>1 DEF Feed!UpdateFinished
    <3>2. CASE update # "nil"
        BY <1>5, <2>3, <2>5, <3>2 DEF Feed!UpdateFinished
    <3> QED
        BY <3>1, <3>2
  <2>7. StatusFollows'
      BY <2>1, <2>4, <2>6 DEF StatusFollows
  <2> QED
      BY <1>0, <2>1, <2>7 DEF FreshAtStart, ReportIsLast, Feed!DoneMeansNoUpdate
<1>6. CASE Feed!Drain
    BY <1>0, <1>6 DEF Feed!Drain, Feed!statusVars, FreshAtStart, ReportIsLast,
       StatusFollows, Feed!DoneMeansNoUpdate
<1> QED
    BY <1>1, <1>2, <1>3, <1>4, <1>5, <1>6 DEF Feed!Next

\* The inductive invariant of the feed scheduler.
THEOREM FeedSchedulerInvariant ==
  Feed!Spec => []FeedSchedulerInv
<1> QED
    BY FeedSchedulerInit, FeedSchedulerStep, PTL DEF Feed!Spec
-----------------------------------------------------------------------------
\* While it runs, what the feed scheduler answers to a status request
\* (scheduler.go:374-380) is what happened.
THEOREM StatusTellsTheTruth ==
  Feed!Spec => []StatusIsAccurate
<1>1. \A outcome : Feed!ErrorOf(outcome) = "nil" <=> outcome # "noFeedUpdate"
    BY DEF Feed!ErrorOf
<1>2. \A n : /\ NoError(n) = {i \in 1..n : outcomes[i] # "noFeedUpdate"}
            /\ \A i \in 1..n : outcomes[i] = "succeeded" => i \in NoError(n)
    BY <1>1 DEF NoError
<1>3. FeedSchedulerInv => StatusIsAccurate
    BY <1>2 DEF FeedSchedulerInv, StatusFollows, StatusIsAccurate, Feed!StatusIsAccurate, Received
<1> QED
    BY <1>3, FeedSchedulerInvariant, PTL

\* fs.done is closed only when the update goroutine is gone (scheduler.go:351-359).
THEOREM DoneIsClosedLast ==
  Feed!Spec => []Feed!DoneMeansNoUpdate
<1>1. FeedSchedulerInv => Feed!DoneMeansNoUpdate
    BY DEF FeedSchedulerInv
<1> QED
    BY <1>1, FeedSchedulerInvariant, PTL
-----------------------------------------------------------------------------
LEMMA FeedAbstractInit == Feed!Init => Feed!Abstract!Init
BY DEF Feed!Init, Feed!Abstract!Init

\* A step of the feed scheduler schedules its feed or takes it off the schedule,
\* starts or finishes an update, or changes nothing the abstract one shows.
LEMMA FeedAbstractStep == FeedSchedulerInv /\ [Feed!Next]_Feed!vars => [Feed!Abstract!Next]_Feed!Abstract!vars
<1> SUFFICES ASSUME FeedSchedulerInv, [Feed!Next]_Feed!vars
             PROVE  Feed!Abstract!Next \/ UNCHANGED Feed!Abstract!vars
    BY DEF Feed!Abstract!vars
<1> DEFINE sched == IF pc \in {"select", "draining"} THEN {feed} ELSE {}
           going == IF update = "executing" THEN {feed} ELSE {}
<1>1. ASSUME sched' \in SUBSET {feed}, going \subseteq sched', going' = going
      PROVE  Feed!Abstract!Next
    BY <1>1 DEF Feed!Abstract!Next, Feed!Abstract!Schedule
<1>2. CASE Feed!Cancel \/ Feed!Ask \/ Feed!ClockTick \/ Feed!TakeTick \/ Feed!AnswerStatus
           \/ Feed!UpdateFinished \/ Feed!StopTicker \/ UNCHANGED Feed!vars
    BY <1>2 DEF Feed!Cancel, Feed!Ask, Feed!ClockTick, Feed!TakeTick, Feed!AnswerStatus, Feed!UpdateFinished,
       Feed!StopTicker, Feed!Reporting, Feed!vars, Feed!Abstract!vars
<1>3. CASE Feed!Start
    BY <1>1, <1>3 DEF Feed!Start, FeedSchedulerInv, FreshAtStart
<1>4. CASE Feed!Tick
  <2>1. CASE update' = update
      BY <1>4, <2>1 DEF Feed!Tick, Feed!Abstract!vars
  <2>2. CASE update' # update
    <3>1. pc = "select" /\ pc' = "select" /\ update = "none"
          /\ update' = "executing"
        BY <1>4, <2>2 DEF Feed!Tick, FeedSchedulerInv, StatusFollows
    <3>2. Feed!Abstract!StartUpdate(feed)
        BY <3>1 DEF Feed!Abstract!StartUpdate
    <3> QED
        BY <3>2 DEF Feed!Abstract!Next
  <2> QED
      BY <2>1, <2>2
<1>5. CASE Feed!UpdateReturns
  <2>1. update = "executing" /\ update' # "executing" /\ pc' = pc
      BY <1>5 DEF Feed!UpdateReturns, Feed!ErrorOf
  <2>2. Feed!Abstract!FinishUpdate(feed)
      BY <2>1 DEF Feed!Abstract!FinishUpdate
  <2> QED
      BY <2>2 DEF Feed!Abstract!Next
<1>6. CASE Feed!NoticeCancel
  <2>1. CASE running
      BY <1>6, <2>1 DEF Feed!NoticeCancel, Feed!Abstract!vars
  <2>2. CASE ~running
      BY <1>1, <1>6, <2>2 DEF Feed!NoticeCancel, FeedSchedulerInv, StatusFollows
  <2> QED
      BY <2>1, <2>2
<1>7. CASE Feed!Drain
    BY <1>1, <1>7 DEF Feed!Drain, Feed!Reporting
<1> QED
    BY <1>2, <1>3, <1>4, <1>5, <1>6, <1>7 DEF Feed!Next

\* The feed scheduler implements the abstract scheduler for its feed: one update
\* at a time, and off the schedule only behind the last one.
THEOREM FeedRefinement ==
  Feed!Spec => FeedImplementsAbstract
<1> QED
    BY FeedAbstractInit, FeedAbstractStep, FeedSchedulerInvariant, PTL
    DEF Feed!Spec, FeedImplementsAbstract, Feed!ImplementsAbstract, Feed!Abstract!Spec
=============================================================================
