------------------------------ MODULE OneServer ------------------------------
(***************************************************************************)
(* ServerLifecycle under names that SystemInstall does not have, so that a *)
(* module can extend both.                                                 *)
(***************************************************************************)
CONSTANTS Handlers, Main, Nobody

VARIABLES args, cancelled, pc, next, failed, pool, deferred, stopping, serverOf,
          scheduler, serving, updating, at, doing

Life == INSTANCE ServerLifecycle WITH server <- serverOf, None <- Nobody

ASSUME MainAssumption == Main \notin Handlers /\ Nobody \notin Handlers \cup {Main}
ASSUME NobodyAssumption == Nobody \notin Life!Servers

LifeSpec == Life!FairSpec

\* The pool is open while a feed update of the scheduler or a gRPC request is in
\* progress.
PoolOutlivesServices == Life!PoolOutlivesServices

\* When it is interrupted, or a server ends or fails, Run returns, unless a caller
\* of the scheduler is stranded or the scheduler itself is stuck.
RunReturns == Life!RunReturns
=============================================================================
