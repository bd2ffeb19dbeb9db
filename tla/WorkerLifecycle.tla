--------------------------- MODULE WorkerLifecycle ---------------------------
(***************************************************************************)
(* A Temporal worker in an Effect scope (packages/workflow/src/            *)
(* TemporalWorker.ts), as the testing package composes it: a server, a     *)
(* connection and a worker are acquired in this order, fibers run and shut *)
(* down the worker, some of them forked in the scope, and the scope        *)
(* releases everything in reverse order, whenever it closes.               *)
(*                                                                         *)
(* JavaScript runs one synchronous piece at a time: an action is what a    *)
(* fiber does between two awaits.                                          *)
(***************************************************************************)
EXTENDS Naturals, Sequences

CONSTANTS
  Fibers,    \* fibers that each use the worker once
  Scoped,    \* those forked in the scope of the worker
  None

Resources == <<"environment", "connection", "worker">>

ASSUME FibersAssumption ==
  /\ Scoped \subseteq Fibers
  /\ Fibers \cap {"environment", "connection", "worker", "drive", "no", None} = {}
  /\ None \notin {"drive", "no"}

VARIABLES
  scope,        \* "acquiring", "open", "closing", "closed"
  finalizers,   \* its stack: resources and scoped fibers
  environment,  \* the test server
  connection,
  worker,       \* the SDK's state of the worker
  runner,       \* the one whose worker.run() found it INITIALIZED
  completion,   \* the one whose promise is the completion
  closing,      \* "no", or the completion the shutdown waits for
  fiber,        \* "idle", "using", "leaving" (its onInterrupt), "done"
  use,          \* what a fiber does with the worker
  thunk         \* the promise given to runUntil

workerVars == <<worker, runner, completion, closing>>
fiberVars == <<fiber, use, thunk>>
resourceVars == <<environment, connection>>
vars == <<scope, finalizers, resourceVars, workerVars, fiberVars>>

\* An unused worker is driven through a run of its own.
Runs == Fibers \cup {"drive"}

Init ==
  /\ scope = "acquiring"
  /\ finalizers = <<>>
  /\ environment = "none" /\ connection = "none"
  /\ worker = "none" /\ runner = None /\ completion = None /\ closing = "no"
  /\ fiber = [f \in Fibers |-> "idle"]
  /\ use = [f \in Fibers |-> None]
  /\ thunk = [f \in Runs |-> "none"]

-----------------------------------------------------------------------------
(* The scope.                                                              *)

Stopped == {"none", "STOPPED", "FAILED"}

Top == finalizers[Len(finalizers)]
Push(r) == finalizers' = Append(finalizers, r)
Pop == finalizers' = SubSeq(finalizers, 1, Len(finalizers) - 1)

Acquire ==
  /\ scope = "acquiring"
  /\ LET r == Resources[Len(finalizers) + 1] IN
     /\ Push(r)
     /\ scope' = IF r = "worker" THEN "open" ELSE scope
     /\ environment' = IF r = "environment" THEN "open" ELSE environment
     /\ connection' = IF r = "connection" THEN "open" ELSE connection
     /\ worker' = IF r = "worker" THEN "INITIALIZED" ELSE worker
  /\ UNCHANGED <<runner, completion, closing, fiberVars>>

\* The body ends, fails or is interrupted, or a resource cannot be acquired.
BeginClose ==
  /\ scope \in {"acquiring", "open"}
  /\ scope' = "closing"
  /\ UNCHANGED <<finalizers, resourceVars, workerVars, fiberVars>>

Closes(r) == scope = "closing" /\ finalizers # <<>> /\ Top = r

CloseScope ==
  /\ scope = "closing" /\ finalizers = <<>>
  /\ scope' = "closed"
  /\ UNCHANGED <<finalizers, resourceVars, workerVars, fiberVars>>

-----------------------------------------------------------------------------
(* ownWorker.                                                              *)

\* worker.run() of r: the SDK refuses it unless the worker was never run.
TrackBug(r) ==
  /\ IF worker = "INITIALIZED" THEN worker' = "RUNNING" /\ runner' = r
                               ELSE UNCHANGED <<worker, runner>>
  /\ completion' = r

Track(r) ==
  /\ IF worker = "INITIALIZED" THEN worker' = "RUNNING" /\ runner' = r
                               ELSE UNCHANGED <<worker, runner>>
  /\ completion' = IF completion = None THEN r ELSE completion

\* The promise of r has settled: its run was refused or the worker stopped,
\* and so has the promise it was given.
Settled(r) == r = None \/ (thunk[r] # "pending" /\ (r = runner => worker \in Stopped))

\* The first call of shutdown; later ones wait for the same.
ShutDownBug ==
  IF closing # "no" THEN UNCHANGED <<workerVars, thunk>>
  ELSE /\ IF completion = None /\ worker = "INITIALIZED"
          THEN Track("drive") /\ thunk' = [thunk EXCEPT !["drive"] = "pending"]
          ELSE UNCHANGED <<worker, runner, completion, thunk>>
       /\ closing' = completion'

ShutDown ==
  IF closing # "no" THEN UNCHANGED <<workerVars, thunk>>
  ELSE /\ IF completion = None /\ worker = "INITIALIZED"
          THEN Track("drive") /\ thunk' = [thunk EXCEPT !["drive"] = "pending"]
          ELSE /\ worker' = IF worker = "RUNNING" THEN "STOPPING" ELSE worker
               /\ UNCHANGED <<runner, completion, thunk>>
       /\ closing' = completion'

HasShutDown == closing # "no" /\ Settled(closing)

\* A fiber starts to use the worker, also one outside the scope that kept it.
Uses(f, u) ==
  /\ fiber[f] = "idle" /\ worker # "none"
  /\ IF f \in Scoped THEN scope = "open" /\ Push(f) ELSE UNCHANGED finalizers
  /\ fiber' = [fiber EXCEPT ![f] = "using"]
  /\ use' = [use EXCEPT ![f] = u]
  /\ UNCHANGED <<scope, resourceVars>>

Run(f) ==
  /\ Uses(f, "run") /\ Track(f)
  /\ UNCHANGED <<closing, thunk>>

RunUntil(f) ==
  /\ Uses(f, "runUntil") /\ Track(f)
  /\ thunk' = [thunk EXCEPT ![f] = "pending"]
  /\ UNCHANGED closing

CallShutdown(f) == Uses(f, "shutdown") /\ ShutDown

\* The promise given to runUntil settles, and stops a worker that runs,
\* whoever runs it.
ThunkSettles(r) ==
  /\ thunk[r] = "pending"
  /\ thunk' = [thunk EXCEPT ![r] = "settled"]
  /\ worker' = IF worker = "RUNNING" THEN "STOPPING" ELSE worker
  /\ UNCHANGED <<scope, finalizers, resourceVars, runner, completion, closing, fiber, use>>

\* The worker drains and stops, or fails before.
WorkerStops ==
  /\ worker = "STOPPING"
  /\ worker' = "STOPPED"
  /\ UNCHANGED <<scope, finalizers, resourceVars, runner, completion, closing, fiberVars>>

WorkerFails ==
  /\ worker \in {"RUNNING", "STOPPING"}
  /\ worker' = "FAILED"
  /\ UNCHANGED <<scope, finalizers, resourceVars, runner, completion, closing, fiberVars>>

\* The promise a fiber waits for settles: that of its run, or the closing.
Return(f) ==
  /\ \/ fiber[f] = "using" /\ use[f] # "shutdown" /\ Settled(f)
     \/ fiber[f] = "using" /\ use[f] = "shutdown" /\ HasShutDown
     \/ fiber[f] = "leaving" /\ HasShutDown
  /\ fiber' = [fiber EXCEPT ![f] = "done"]
  /\ UNCHANGED <<scope, finalizers, resourceVars, workerVars, use, thunk>>

\* An interrupted run shuts the worker down before the fiber ends.
Interrupt(f) ==
  /\ fiber[f] = "using"
  /\ f \in Scoped => Closes(f)
  /\ IF use[f] = "shutdown"
     THEN fiber' = [fiber EXCEPT ![f] = "done"] /\ UNCHANGED <<workerVars, thunk>>
     ELSE fiber' = [fiber EXCEPT ![f] = "leaving"] /\ ShutDown
  /\ UNCHANGED <<scope, finalizers, resourceVars, use>>

-----------------------------------------------------------------------------
(* The finalizers.                                                         *)

FiberReleased(f) ==
  /\ Closes(f) /\ fiber[f] = "done" /\ Pop
  /\ UNCHANGED <<scope, resourceVars, workerVars, fiberVars>>

ReleaseWorker ==
  /\ Closes("worker") /\ closing = "no" /\ ShutDown
  /\ UNCHANGED <<scope, finalizers, resourceVars, fiber, use>>

WorkerReleasedBug ==
  /\ Closes("worker") /\ closing # "no" /\ Pop
  /\ UNCHANGED <<scope, resourceVars, workerVars, fiberVars>>

WorkerReleased ==
  /\ Closes("worker") /\ HasShutDown /\ Pop
  /\ UNCHANGED <<scope, resourceVars, workerVars, fiberVars>>

\* A connection that a worker still refers to refuses to close, and the
\* finalizer dies.
ReleaseConnection ==
  /\ Closes("connection") /\ Pop
  /\ connection' = IF worker \in Stopped THEN "closed" ELSE connection
  /\ UNCHANGED <<scope, environment, workerVars, fiberVars>>

ReleaseEnvironment ==
  /\ Closes("environment") /\ Pop
  /\ environment' = "closed"
  /\ UNCHANGED <<scope, connection, workerVars, fiberVars>>

Release ==
  \/ ReleaseWorker \/ WorkerReleased \/ ReleaseConnection \/ ReleaseEnvironment
  \/ CloseScope
  \/ \E f \in Scoped : FiberReleased(f) \/ Interrupt(f)

FiberStep(f) == Run(f) \/ RunUntil(f) \/ CallShutdown(f) \/ Return(f) \/ Interrupt(f)

Next ==
  \/ Acquire \/ BeginClose \/ Release
  \/ \E f \in Fibers : FiberStep(f)
  \/ \E r \in Runs : ThunkSettles(r)
  \/ WorkerStops \/ WorkerFails

Spec == Init /\ [][Next]_vars

\* A scope that closes goes on, a settled promise resumes its fiber, a worker
\* drains, and the empty promise of an unused worker settles.  Nothing obliges
\* the promise given to runUntil to settle.
Fairness ==
  /\ WF_vars(Release) /\ WF_vars(WorkerStops) /\ WF_vars(ThunkSettles("drive"))
  /\ \A f \in Fibers : WF_vars(Return(f))

FairSpec == Spec /\ Fairness

-----------------------------------------------------------------------------
(* Properties.                                                             *)

WorkerStates == {"none", "INITIALIZED", "RUNNING", "STOPPING", "STOPPED", "FAILED"}
ResourceStates == {"none", "open", "closed"}

\* Type correctness, and: a worker that may still run has its finalizer.
TypeOK ==
  /\ scope \in {"acquiring", "open", "closing", "closed"}
  /\ finalizers \in Seq({"environment", "connection", "worker"} \cup Scoped)
  /\ environment \in ResourceStates /\ connection \in ResourceStates
  /\ worker \in WorkerStates
  /\ runner \in Runs \cup {None}
  /\ completion \in Runs \cup {None}
  /\ closing \in Runs \cup {None, "no"}
  /\ fiber \in [Fibers -> {"idle", "using", "leaving", "done"}]
  /\ use \in [Fibers -> {"run", "runUntil", "shutdown", None}]
  /\ thunk \in [Runs -> {"none", "pending", "settled"}]
  /\ worker \notin Stopped => Len(finalizers) >= Len(Resources)

\* Who awaits a shutdown goes on only when the worker has stopped, also when a
\* run was refused or another fiber was there first: "A second (invalid) run
\* must not replace the first run's completion" (TemporalWorker.ts:69).
ShutdownStops == HasShutDown => worker \in Stopped \ {"none"}

\* A closed scope leaves no connection and no server behind: the worker has let
\* go of the connection when it is closed, whatever the fibers do.
ConnectionsReleased ==
  scope = "closed" => connection # "open" /\ environment # "open"

\* A scope that closes gets to its end, but for a promise given to runUntil
\* that does not settle: the completion waits for it.
ScopeCloses ==
  scope = "closing" ~> scope = "closed" \/ \E f \in Fibers : thunk[f] = "pending"
=============================================================================
