--------------------------- MODULE ServerLifecycle ---------------------------
(***************************************************************************)
(* The life of the server process, internal/server/server.go: Run starts   *)
(* the scheduler and the API servers, waits, and shuts down through its    *)
(* deferred calls.                                                         *)
(*                                                                         *)
(* Scheduler has the scheduler in detail.  Here it receives one call at a  *)
(* time and runs one update.  Of net/http, gRPC and pgxpool the module has *)
(* what Run relies on: ListenAndServe returns when Shutdown begins, Serve  *)
(* when GracefulStop has ended, which waits for the calls in progress, and *)
(* Close when every connection has been given back.                        *)
(***************************************************************************)
EXTENDS Integers, Sequences, FiniteSets

CONSTANTS Handlers,  \* goroutines that handle requests, and installs
          Main,      \* the goroutine of Run
          None       \* none of them, and no server

Grpc == {"public gRPC", "admin gRPC"}
Admin == {"admin HTTP", "admin gRPC"}
Servers == Grpc \cup {"public HTTP", "admin HTTP"}
Order == <<"public HTTP", "public gRPC", "admin HTTP", "admin gRPC">>

VARIABLES
  args,       \* the servers with an address, and is the scheduler enabled?
  cancelled,  \* is ctx cancelled?
  pc,         \* of the goroutine of Run
  next,       \* index of the server that Run starts next
  failed,     \* has the first reset, or a net.Listen, failed?
  pool,       \* the database pool: none, open or closed (or closing)
  deferred,   \* the servers whose shutdown is deferred
  stopping,   \* the servers whose shutdown has been triggered
  server,     \* per server: its goroutine
  scheduler,  \* the scheduler's goroutine
  serving,    \* the caller whose request the scheduler is working on
  updating,   \* is a feed update of the scheduler running?
  at,         \* per handler: the server of its request, "install", or None
  doing       \* per handler: what it does

mainVars == <<args, pc, next, failed, pool, deferred, stopping>>
schedulerVars == <<scheduler, serving, updating>>
handlerVars == <<at, doing>>
vars == <<mainVars, cancelled, server, schedulerVars, handlerVars>>

\* wg.Done is called before cancelFunc.
Done == {"off", "done", "exited"}

\* Without a scheduler, calls to it do nothing (NoOpScheduler).  Read-only
\* servers have no scheduler and no admin API.
Init ==
  /\ \/ args \in [servers : SUBSET Servers, scheduler : BOOLEAN]
     \/ args \in [servers : SUBSET (Servers \ Admin), scheduler : {FALSE}]
  /\ cancelled = FALSE
  /\ pc = "connect" /\ next = 1 /\ failed = FALSE
  /\ pool = "none"
  /\ deferred = {} /\ stopping = {}
  /\ server = [s \in Servers |-> "off"]
  /\ scheduler = "off" /\ serving = None /\ updating = FALSE
  /\ at = [h \in Handlers |-> None]
  /\ doing = [h \in Handlers |-> "nothing"]
-----------------------------------------------------------------------------
(* Run: starting. *)

\* The context given to Run is cancelled: an interrupt.
Interrupt ==
  /\ ~cancelled
  /\ cancelled' = TRUE
  /\ UNCHANGED <<mainVars, server, schedulerVars, handlerVars>>

Connect ==
  /\ pc = "connect"
  /\ \/ pool' = "open" /\ pc' = "prepare"
     \/ pool' = pool /\ pc' = "cancel"
  /\ UNCHANGED <<args, next, failed, deferred, stopping, cancelled, server, schedulerVars, handlerVars>>

\* Ping, the migrations, and the goroutine of the scheduler.
Prepare ==
  /\ pc = "prepare"
  /\ \/ /\ ~cancelled
        /\ pc' = IF args.scheduler THEN "sendReset" ELSE "start"
        /\ scheduler' = IF args.scheduler THEN "running" ELSE "off"
     \/ pc' = "close" /\ UNCHANGED scheduler
  /\ UNCHANGED <<args, next, failed, pool, deferred, stopping, cancelled, server, serving, updating, handlerVars>>

\* The caller of Reset stops waiting for the answer when ctx is cancelled.
ResetCancelled ==
  /\ pc = "awaitReset" /\ cancelled
  /\ pc' = "shutdown" /\ failed' = TRUE
  /\ UNCHANGED <<args, next, pool, deferred, stopping, cancelled, server, schedulerVars, handlerVars>>

\* A server without an address is skipped.  The goroutine of the others is
\* started, unless net.Listen fails, for gRPC.
StartServer ==
  /\ pc = "start"
  /\ IF next > Len(Order)
     THEN pc' = "serve" /\ UNCHANGED <<next, failed, deferred, server>>
     ELSE LET s == Order[next]
          IN IF s \notin args.servers
             THEN next' = next + 1 /\ UNCHANGED <<pc, failed, deferred, server>>
             ELSE /\ deferred' = deferred \cup {s}
                  /\ \/ /\ next' = next + 1
                        /\ server' = [server EXCEPT ![s] = "starting"]
                        /\ UNCHANGED <<pc, failed>>
                     \/ /\ s \in Grpc
                        /\ pc' = "shutdown" /\ failed' = TRUE
                        /\ UNCHANGED <<next, server>>
  /\ UNCHANGED <<args, pool, stopping, cancelled, schedulerVars, handlerVars>>

AwaitCancellation ==
  /\ pc = "serve" /\ cancelled
  /\ pc' = "shutdown"
  /\ UNCHANGED <<args, next, failed, pool, deferred, stopping, cancelled, server, schedulerVars, handlerVars>>
-----------------------------------------------------------------------------
(* Run: its deferred calls. *)

\* go Shutdown and go GracefulStop.
TriggerShutdown ==
  /\ pc = "shutdown"
  /\ pc' = "wait"
  /\ stopping' = deferred
  /\ UNCHANGED <<args, next, failed, pool, deferred, cancelled, server, schedulerVars, handlerVars>>

\* Mutant of Wait: the goroutines are not waited for.
DoNotWait ==
  /\ pc = "wait"
  /\ pc' = "close"
  /\ UNCHANGED <<args, next, failed, pool, deferred, stopping, cancelled, server, schedulerVars, handlerVars>>

\* wg.Wait
Wait ==
  /\ pc = "wait"
  /\ scheduler \in Done /\ \A s \in Servers : server[s] \in Done
  /\ pc' = "close"
  /\ UNCHANGED <<args, next, failed, pool, deferred, stopping, cancelled, server, schedulerVars, handlerVars>>

\* pool.Close: no connection is acquired any more, and those acquired have to
\* be released.
Close ==
  /\ pc = "close"
  /\ pool' = "closed"
  /\ pc' = "closing"
  /\ UNCHANGED <<args, next, failed, deferred, stopping, cancelled, server, schedulerVars, handlerVars>>

Closed ==
  /\ pc = "closing"
  /\ ~updating /\ \A h \in Handlers : doing[h] # "query"
  /\ pc' = "cancel"
  /\ UNCHANGED <<args, next, failed, pool, deferred, stopping, cancelled, server, schedulerVars, handlerVars>>

Return ==
  /\ pc = "cancel"
  /\ cancelled' = TRUE
  /\ pc' = "returned"
  /\ UNCHANGED <<args, next, failed, pool, deferred, stopping, server, schedulerVars, handlerVars>>
-----------------------------------------------------------------------------
(* The goroutines of the servers and of the scheduler. *)

\* A server begins to serve.  One whose shutdown has come first returns, and
\* so does an HTTP server that cannot listen.
Serve(s) ==
  /\ server[s] = "starting"
  /\ \/ s \notin stopping /\ server' = [server EXCEPT ![s] = "serving"]
     \/ (s \in stopping \/ s \notin Grpc) /\ server' = [server EXCEPT ![s] = "done"]
  /\ UNCHANGED <<mainVars, cancelled, schedulerVars, handlerVars>>

\* GracefulStop of a gRPC server lets its requests end; Shutdown of an HTTP
\* server lets ListenAndServe return at once.
StopServer(s) ==
  /\ server[s] = "serving" /\ s \in stopping
  /\ server' = [server EXCEPT ![s] = IF s \in Grpc THEN "draining" ELSE "done"]
  /\ UNCHANGED <<mainVars, cancelled, schedulerVars, handlerVars>>

ServerDrained(s) ==
  /\ server[s] = "draining"
  /\ \A h \in Handlers : at[h] # s
  /\ server' = [server EXCEPT ![s] = "done"]
  /\ UNCHANGED <<mainVars, cancelled, schedulerVars, handlerVars>>

\* Mutant of ServerExits: the end of a server does not end the process.
ServerExitsAlone(s) ==
  /\ server[s] = "done"
  /\ server' = [server EXCEPT ![s] = "exited"]
  /\ UNCHANGED <<mainVars, cancelled, schedulerVars, handlerVars>>

\* defer cancelFunc()
ServerExits(s) ==
  /\ server[s] = "done"
  /\ server' = [server EXCEPT ![s] = "exited"]
  /\ cancelled' = TRUE
  /\ UNCHANGED <<mainVars, schedulerVars, handlerVars>>

\* The scheduler returns when ctx is cancelled and its updates have ended.
SchedulerReturns ==
  /\ scheduler = "running" /\ serving = None
  /\ cancelled /\ ~updating
  /\ scheduler' = "done"
  /\ UNCHANGED <<mainVars, cancelled, server, serving, updating, handlerVars>>

SchedulerExits ==
  /\ scheduler = "done"
  /\ scheduler' = "exited"
  /\ cancelled' = TRUE
  /\ UNCHANGED <<mainVars, server, serving, updating, handlerVars>>

StartUpdate ==
  /\ scheduler \in {"running", "blocked"} /\ ~updating
  /\ updating' = TRUE
  /\ UNCHANGED <<mainVars, cancelled, server, scheduler, serving, handlerVars>>

EndUpdate ==
  /\ updating
  /\ updating' = FALSE
  /\ UNCHANGED <<mainVars, cancelled, server, scheduler, serving, handlerVars>>

\* The scheduler receives the request of a caller, and answers it.
Receive ==
  /\ scheduler = "running" /\ serving = None
  /\ \/ pc = "sendReset" /\ pc' = "awaitReset" /\ serving' = Main /\ UNCHANGED doing
     \/ \E h \in Handlers :
          /\ doing[h] = "sending"
          /\ doing' = [doing EXCEPT ![h] = "awaiting"]
          /\ serving' = h
          /\ UNCHANGED pc
  /\ UNCHANGED <<args, next, failed, pool, deferred, stopping, cancelled, server, scheduler, updating, at>>

\* Does the caller that the scheduler is serving wait for the answer?
Awaited == IF serving = Main THEN pc = "awaitReset" ELSE doing[serving] = "awaiting"

\* msg.resp is not buffered: if the caller has stopped waiting, the scheduler is
\* blocked for good.
Answer ==
  /\ scheduler = "running" /\ serving # None /\ Awaited
  /\ serving' = None
  /\ IF serving = Main
     THEN \E ok \in BOOLEAN :
            pc' = (IF ok THEN "start" ELSE "shutdown") /\ failed' = ~ok /\ UNCHANGED doing
     ELSE doing' = [doing EXCEPT ![serving] = "working"] /\ UNCHANGED <<pc, failed>>
  /\ UNCHANGED <<args, next, pool, deferred, stopping, cancelled, server, scheduler, updating, at>>

\* The request needs the goroutine of a system, which has returned, or waits
\* for that of a feed, which has: the cancellation has reached it first.
Block ==
  /\ scheduler = "running" /\ serving # None /\ cancelled
  /\ scheduler' = "blocked"
  /\ UNCHANGED <<mainVars, cancelled, server, serving, updating, handlerVars>>
-----------------------------------------------------------------------------
(* Handlers of requests. *)

Arrive(h, s) ==
  /\ at[h] = None /\ server[s] = "serving"
  /\ at' = [at EXCEPT ![h] = s]
  /\ doing' = [doing EXCEPT ![h] = "working"]
  /\ UNCHANGED <<mainVars, cancelled, server, schedulerVars>>

Work(h, from, to) ==
  /\ doing[h] = from
  /\ doing' = [doing EXCEPT ![h] = to]
  /\ UNCHANGED <<mainVars, cancelled, server, schedulerVars, at>>

Query(h) == pool = "open" /\ Work(h, "working", "query")
EndQuery(h) == Work(h, "query", "working")

\* ResetScheduler, GetSchedulerStatus, DeleteSystem and installs.
CallScheduler(h) ==
  /\ args.scheduler /\ at[h] \in Admin \cup {"install"}
  /\ Work(h, "working", "sending")

\* The caller stops waiting for the answer when the context of the request is
\* cancelled, which that of an asynchronous install never is.
GiveUp(h) ==
  /\ at[h] # "install"
  /\ Work(h, "awaiting", "working")

\* The request of an asynchronous install ends, and a goroutine goes on.
GoInstall(h) ==
  /\ at[h] \in Admin /\ doing[h] = "working"
  /\ at' = [at EXCEPT ![h] = "install"]
  /\ UNCHANGED <<mainVars, cancelled, server, schedulerVars, doing>>

Finish(h) ==
  /\ doing[h] = "working"
  /\ at' = [at EXCEPT ![h] = None]
  /\ doing' = [doing EXCEPT ![h] = "nothing"]
  /\ UNCHANGED <<mainVars, cancelled, server, schedulerVars>>
-----------------------------------------------------------------------------
MainStep ==
  Connect \/ Prepare \/ ResetCancelled \/ StartServer \/ AwaitCancellation
  \/ TriggerShutdown \/ Wait \/ Close \/ Closed \/ Return

ServerStep(s) == Serve(s) \/ StopServer(s) \/ ServerDrained(s) \/ ServerExits(s)
SchedulerStep ==
  Receive \/ Answer \/ Block \/ StartUpdate \/ EndUpdate \/ SchedulerReturns \/ SchedulerExits

HandlerStep(h) ==
  \/ \E s \in Servers : Arrive(h, s)
  \/ Query(h) \/ EndQuery(h) \/ CallScheduler(h) \/ GiveUp(h) \/ GoInstall(h) \/ Finish(h)

\* The process ends when Run has returned.
Next ==
  /\ pc # "returned"
  /\ \/ Interrupt \/ MainStep \/ SchedulerStep
     \/ \E s \in Servers : ServerStep(s)
     \/ \E h \in Handlers : HandlerStep(h)

Spec == Init /\ [][Next]_vars
-----------------------------------------------------------------------------
(* Properties. *)

TypeOK ==
  /\ args \in [servers : SUBSET Servers, scheduler : BOOLEAN]
  /\ cancelled \in BOOLEAN
  /\ pc \in {"connect", "prepare", "sendReset", "awaitReset", "start", "serve", "shutdown",
             "wait", "close", "closing", "cancel", "returned"}
  /\ next \in 1..(Len(Order) + 1) /\ failed \in BOOLEAN
  /\ pool \in {"none", "open", "closed"}
  /\ deferred \subseteq args.servers /\ stopping \subseteq deferred
  /\ server \in [Servers -> {"off", "starting", "serving", "draining", "done", "exited"}]
  /\ scheduler \in {"off", "running", "blocked", "done", "exited"}
  /\ serving \in Handlers \cup {Main, None} /\ updating \in BOOLEAN
  /\ at \in [Handlers -> Servers \cup {"install", None}]
  /\ doing \in [Handlers -> {"nothing", "working", "query", "sending", "awaiting"}]

\* While a feed update of the scheduler or a gRPC request is in progress, the
\* pool it queries is open: Run closes it after wg.Wait.  HTTP requests and
\* installs may find it closed, for nothing waits for them.
PoolOutlivesServices ==
  updating \/ (\E h \in Handlers : at[h] \in Grpc) => pool = "open"

\* A send to the scheduler has no effect once it has returned, and the sender
\* does not look at its context: it is blocked for good.  An admin gRPC request
\* that is blocked so keeps GracefulStop, hence Run, from returning, and so does
\* the first reset.
Stranded ==
  /\ scheduler \in {"done", "exited"}
  /\ pc = "sendReset" \/ \E h \in Handlers : at[h] \in Grpc /\ doing[h] = "sending"

\* The scheduler is blocked for good, on a caller that has stopped waiting or on
\* the goroutine of a system: wg.Wait waits for it.
SchedulerStuck == scheduler = "blocked" \/ (serving # None /\ ~Awaited)

\* Run is interrupted, or a server has ended or could not be started.  If only
\* the scheduler is there, as after a failed first reset, nothing cancels its
\* context, and Run waits until it is interrupted.
HasToEnd ==
  \/ cancelled
  \/ \E s \in Servers : server[s] = "done"
  \/ failed /\ (args.scheduler => \E s \in Servers : server[s] # "off")

\* When it has to end Run returns, unless a caller is stranded or the scheduler
\* stuck.
RunReturns == HasToEnd ~> pc = "returned" \/ Stranded \/ SchedulerStuck

\* Goroutines are scheduled; select takes any of its cases that stays ready; a
\* handler makes finitely many queries, and an update ends.
Fairness ==
  /\ WF_vars(MainStep)
  /\ \A s \in Servers : WF_vars(ServerStep(s))
  /\ WF_vars(Answer) /\ WF_vars(EndUpdate) /\ SF_vars(Receive)
  /\ SF_vars(SchedulerReturns) /\ WF_vars(SchedulerExits)
  /\ \A h \in Handlers : SF_vars(Finish(h)) /\ WF_vars(EndQuery(h))

FairSpec == Spec /\ Fairness
=============================================================================
