------------------------ MODULE WorkerLifecycleProofs ------------------------
(***************************************************************************)
(* Proofs about WorkerLifecycle for any fibers: type correctness, that a   *)
(* shutdown returns only when the worker has stopped, and that a closed    *)
(* scope has released what it acquired.                                    *)
(***************************************************************************)
EXTENDS WorkerLifecycle, SequenceTheorems, TLAPS

USE DEF workerVars, fiberVars, resourceVars, vars

Finalizers == {"environment", "connection", "worker"} \cup Scoped

Types ==
  /\ scope \in {"acquiring", "open", "closing", "closed"}
  /\ finalizers \in Seq(Finalizers)
  /\ environment \in ResourceStates /\ connection \in ResourceStates
  /\ worker \in WorkerStates
  /\ runner \in Runs \cup {None}
  /\ completion \in Runs \cup {None}
  /\ closing \in Runs \cup {None, "no"}
  /\ fiber \in [Fibers -> {"idle", "using", "leaving", "done"}]
  /\ use \in [Fibers -> {"run", "runUntil", "shutdown", None}]
  /\ thunk \in [Runs -> {"none", "pending", "settled"}]

\* The resources are at the bottom of the stack, in the order of acquisition,
\* and below them nothing that is still held.
StackInOrder ==
  /\ \A i \in 1..Len(finalizers) :
       /\ i <= 3 => finalizers[i] = Resources[i]
       /\ i > 3 => finalizers[i] \in Scoped
  /\ scope = "acquiring" => Len(finalizers) < 3 /\ worker = "none"
  /\ scope = "open" => Len(finalizers) >= 3
  /\ scope = "closed" => finalizers = <<>>
  /\ worker \notin Stopped => Len(finalizers) >= 3
  /\ worker = "none" => Len(finalizers) < 3
  /\ connection = "open" => Len(finalizers) >= 2
  /\ environment = "open" => Len(finalizers) >= 1

\* The completion is the run that runs the worker, and a shutdown waits for
\* it: a worker that exists and was not run has neither.
CompletionRuns ==
  /\ completion = runner
  /\ runner = None <=> worker \in {"none", "INITIALIZED"}
  /\ closing # "no" => closing = completion /\ completion # None

\* A fiber uses a worker there is.
WorkerThere ==
  worker = "none" => /\ \A f \in Fibers : fiber[f] = "idle"
                     /\ \A r \in Runs : thunk[r] = "none"

IInv == Types /\ StackInOrder /\ CompletionRuns /\ WorkerThere

\* The invariant holds initially.
LEMMA InitIInv == Init => IInv
<1> SUFFICES ASSUME Init PROVE IInv
  OBVIOUS
<1>1. Types
  BY DEF Init, Types, ResourceStates, WorkerStates
<1>2. StackInOrder
  BY DEF Init, StackInOrder, Stopped
<1>3. CompletionRuns
  BY DEF Init, CompletionRuns
<1>4. WorkerThere
  BY DEF Init, WorkerThere
<1>5. QED
  BY <1>1, <1>2, <1>3, <1>4 DEF IInv

-----------------------------------------------------------------------------
(* The stack.                                                              *)

\* A push leaves what is below.
LEMMA Pushed ==
  ASSUME finalizers \in Seq(Finalizers), NEW r \in Finalizers, Push(r)
  PROVE  /\ finalizers' \in Seq(Finalizers)
         /\ Len(finalizers) \in Nat /\ Len(finalizers') = Len(finalizers) + 1
         /\ finalizers'[Len(finalizers) + 1] = r
         /\ \A i \in 1..Len(finalizers) : finalizers'[i] = finalizers[i]
BY AppendProperties, LenProperties DEF Push

\* So does a pop.
LEMMA Popped ==
  ASSUME finalizers \in Seq(Finalizers), finalizers # <<>>, Pop
  PROVE  /\ finalizers' \in Seq(Finalizers)
         /\ Len(finalizers) \in Nat \ {0} /\ Len(finalizers') = Len(finalizers) - 1
         /\ \A i \in 1..Len(finalizers') : finalizers'[i] = finalizers[i]
<1>1. Len(finalizers) \in Nat \ {0}
  BY EmptySeq
<1>2. PICK n \in Nat : n = Len(finalizers) - 1
  BY <1>1
<1> DEFINE rest == SubSeq(finalizers, 1, n)
<1>3. \A i \in 1..n : finalizers[i] \in Finalizers
  BY <1>1, <1>2, ElementOfSeq
<1>4. /\ rest \in Seq(Finalizers) /\ Len(rest) = IF 1 <= n THEN n - 1 + 1 ELSE 0
      /\ \A i \in 1..n - 1 + 1 : rest[i] = finalizers[1 + i - 1]
  BY <1>3, SubSeqProperties
<1>5. (IF 1 <= n THEN n - 1 + 1 ELSE 0) = n
  OBVIOUS
<1>6. \A i \in 1..n : i \in 1..n - 1 + 1 /\ 1 + i - 1 = i
  OBVIOUS
<1>7. finalizers' = rest
  BY <1>2 DEF Pop
<1> HIDE DEF rest
<1>8. Len(rest) = n /\ \A i \in 1..n : rest[i] = finalizers[i]
  BY <1>4, <1>5, <1>6
<1>9. QED
  BY <1>1, <1>2, <1>4, <1>7, <1>8

\* The place of a finalizer tells what it releases.
LEMMA TopIs ==
  ASSUME IInv, finalizers # <<>>
  PROVE  /\ Len(finalizers) \in Nat \ {0}
         /\ Top = "environment" => Len(finalizers) = 1
         /\ Top = "connection" => Len(finalizers) = 2
         /\ Top = "worker" => Len(finalizers) = 3
         /\ Top \in Fibers => Len(finalizers) > 3
<1>1. Len(finalizers) \in Nat \ {0}
  BY EmptySeq DEF IInv, Types
<1>2. PICK n \in Nat \ {0} : n = Len(finalizers)
  BY <1>1
<1>3. /\ n <= 3 => Top = Resources[n]
      /\ n > 3 => Top \in Scoped
  BY <1>2 DEF IInv, StackInOrder, Top
<1>4. /\ Resources[1] = "environment" /\ Resources[2] = "connection"
      /\ Resources[3] = "worker"
  BY DEF Resources
<1>5. CASE n > 3
  <2>1. Top \notin {"environment", "connection", "worker"}
    BY <1>3, <1>5, FibersAssumption
  <2>2. QED
    BY <1>2, <1>5, <2>1
<1>6. CASE n = 1
  BY <1>2, <1>3, <1>4, <1>6, FibersAssumption
<1>7. CASE n = 2
  BY <1>2, <1>3, <1>4, <1>7, FibersAssumption
<1>8. CASE n = 3
  BY <1>2, <1>3, <1>4, <1>8, FibersAssumption
<1>9. n > 3 \/ n = 1 \/ n = 2 \/ n = 3
  OBVIOUS
<1>10. QED
  BY <1>5, <1>6, <1>7, <1>8, <1>9

-----------------------------------------------------------------------------
(* The worker.                                                             *)

\* A run that is tracked keeps the completion the runner.
LEMMA Tracked ==
  ASSUME IInv, worker # "none", NEW r \in Runs, Track(r)
  PROVE  /\ worker' \in WorkerStates \ {"none", "INITIALIZED"}
         /\ runner' \in Runs /\ completion' = runner'
         /\ worker \in Stopped => worker' = worker
         /\ completion # None => completion' = completion
<1>1. None \notin Runs
  BY FibersAssumption DEF Runs
<1>2. QED
  BY <1>1 DEF Track, IInv, Types, CompletionRuns, Runs, WorkerStates, Stopped

\* A shutdown of a worker waits for the run that runs it.
LEMMA ShutsDown ==
  ASSUME IInv, worker # "none", ShutDown
  PROVE  /\ worker' \in WorkerStates \ {"none", "INITIALIZED"}
         /\ runner' \in Runs /\ completion' = runner' /\ closing' = completion'
         /\ worker \in Stopped => worker' = worker
         /\ thunk' \in [Runs -> {"none", "pending", "settled"}]
<1>1. None \notin Runs /\ "drive" \in Runs
  BY FibersAssumption DEF Runs
<1>2. CASE closing # "no"
  BY <1>1, <1>2 DEF ShutDown, IInv, Types, CompletionRuns, WorkerStates
<1>3. CASE closing = "no" /\ completion = None /\ worker = "INITIALIZED"
  <2>1. Track("drive") /\ closing' = completion' /\ thunk' = [thunk EXCEPT !["drive"] = "pending"]
    BY <1>3 DEF ShutDown
  <2>2. QED
    BY <1>1, <1>3, <2>1, Tracked DEF IInv, Types
<1>4. CASE closing = "no" /\ ~(completion = None /\ worker = "INITIALIZED")
  BY <1>1, <1>4 DEF ShutDown, IInv, Types, CompletionRuns, WorkerStates, Stopped
<1>5. QED
  BY <1>2, <1>3, <1>4

\* A step that leaves the scope alone, of a worker that has been created.
LEMMA WorkerIInv ==
  ASSUME IInv, UNCHANGED <<scope, resourceVars>>, worker # "none",
         UNCHANGED finalizers \/ (scope = "open" /\ \E f \in Scoped : Push(f)),
         fiber' \in [Fibers -> {"idle", "using", "leaving", "done"}],
         use' \in [Fibers -> {"run", "runUntil", "shutdown", None}],
         thunk' \in [Runs -> {"none", "pending", "settled"}],
         worker' \in WorkerStates \ {"none"}, worker \in Stopped => worker' \in Stopped,
         CompletionRuns', completion' \in Runs \cup {None}
  PROVE  IInv'
<1>1. finalizers' \in Seq(Finalizers) /\ Len(finalizers) \in Nat
  BY Pushed, LenProperties DEF IInv, Types, Finalizers
<1>2. StackInOrder'
  <2>1. CASE UNCHANGED finalizers
    BY <2>1 DEF IInv, StackInOrder, Stopped
  <2>2. ASSUME NEW f \in Scoped, Push(f), scope = "open" PROVE StackInOrder'
    <3>1. /\ Len(finalizers) \in Nat /\ Len(finalizers') = Len(finalizers) + 1
          /\ finalizers'[Len(finalizers) + 1] = f
          /\ \A i \in 1..Len(finalizers) : finalizers'[i] = finalizers[i]
      BY <2>2, Pushed DEF IInv, Types, Finalizers
    <3>2. Len(finalizers) >= 3 /\ scope' = "open"
      BY <2>2 DEF IInv, StackInOrder
    <3>3. \A i \in 1..Len(finalizers') :
            /\ i <= 3 => finalizers'[i] = Resources[i]
            /\ i > 3 => finalizers'[i] \in Scoped
      BY <3>1, <3>2 DEF IInv, StackInOrder
    <3>4. QED
      BY <3>1, <3>2, <3>3 DEF StackInOrder
  <2>3. QED
    BY <2>1, <2>2
<1>3. closing' \in Runs \cup {None, "no"} /\ runner' \in Runs \cup {None}
  BY DEF CompletionRuns
<1>4. Types'
  BY <1>1, <1>3 DEF IInv, Types
<1>5. QED
  BY <1>2, <1>4 DEF IInv, WorkerThere

-----------------------------------------------------------------------------
(* The steps.                                                              *)

\* A step that shuts the worker down keeps the invariant.
LEMMA ShutdownIInv ==
  ASSUME IInv, ShutDown, worker # "none", UNCHANGED <<scope, resourceVars>>,
         UNCHANGED finalizers \/ (scope = "open" /\ \E e \in Scoped : Push(e)),
         fiber' \in [Fibers -> {"idle", "using", "leaving", "done"}],
         use' \in [Fibers -> {"run", "runUntil", "shutdown", None}]
  PROVE  IInv'
<1>1. /\ worker' \in WorkerStates \ {"none", "INITIALIZED"}
      /\ runner' \in Runs /\ completion' = runner' /\ closing' = completion'
      /\ worker \in Stopped => worker' = worker
      /\ thunk' \in [Runs -> {"none", "pending", "settled"}]
  BY ShutsDown
<1>2. CompletionRuns'
  BY <1>1, FibersAssumption DEF CompletionRuns, Runs
<1>3. QED
  BY <1>1, <1>2, WorkerIInv

\* What a fiber does keeps the invariant.
LEMMA FiberIInv ==
  ASSUME IInv, NEW f \in Fibers, FiberStep(f)
  PROVE  IInv'
<1>1. CASE Run(f) \/ RunUntil(f)
  <2>1. \E u \in {"run", "runUntil"} : Uses(f, u)
    BY <1>1 DEF Run, RunUntil
  <2>2. Track(f) /\ UNCHANGED closing /\ f \in Runs
        /\ thunk' \in [Runs -> {"none", "pending", "settled"}]
    BY <1>1 DEF Run, RunUntil, IInv, Types, Runs
  <2>3. /\ worker # "none" /\ UNCHANGED <<scope, resourceVars>>
        /\ UNCHANGED finalizers \/ (scope = "open" /\ \E e \in Scoped : Push(e))
        /\ fiber' \in [Fibers -> {"idle", "using", "leaving", "done"}]
        /\ use' \in [Fibers -> {"run", "runUntil", "shutdown", None}]
    BY <2>1 DEF Uses, IInv, Types
  <2>4. /\ worker' \in WorkerStates \ {"none", "INITIALIZED"}
        /\ runner' \in Runs /\ completion' = runner'
        /\ worker \in Stopped => worker' = worker
        /\ completion # None => completion' = completion
    BY <2>2, <2>3, Tracked
  <2>5. CompletionRuns'
    BY <2>2, <2>4, FibersAssumption DEF IInv, CompletionRuns, Runs
  <2>6. QED
    BY <2>2, <2>3, <2>4, <2>5, WorkerIInv
<1>2. CASE CallShutdown(f)
  <2>1. /\ worker # "none" /\ UNCHANGED <<scope, resourceVars>>
        /\ UNCHANGED finalizers \/ (scope = "open" /\ \E e \in Scoped : Push(e))
        /\ fiber' \in [Fibers -> {"idle", "using", "leaving", "done"}]
        /\ use' \in [Fibers -> {"run", "runUntil", "shutdown", None}]
    BY <1>2 DEF CallShutdown, Uses, IInv, Types
  <2>2. QED
    BY <1>2, <2>1, ShutdownIInv DEF CallShutdown
<1>3. CASE Return(f)
  BY <1>3 DEF Return, IInv, Types, StackInOrder, CompletionRuns, WorkerThere
<1>4. CASE Interrupt(f)
  <2>1. CASE use[f] = "shutdown"
    BY <1>4, <2>1 DEF Interrupt, IInv, Types, StackInOrder, CompletionRuns, WorkerThere
  <2>2. CASE use[f] # "shutdown"
    BY <1>4, <2>2, ShutdownIInv DEF Interrupt, IInv, Types, WorkerThere
  <2>3. QED
    BY <2>1, <2>2
<1>5. QED
  BY <1>1, <1>2, <1>3, <1>4 DEF FiberStep

\* A promise that settles and what the SDK does keep the invariant.
LEMMA WorkerStepIInv ==
  ASSUME IInv, WorkerStops \/ WorkerFails \/ \E r \in Runs : ThunkSettles(r)
  PROVE  IInv'
<1>1. /\ worker # "none" /\ UNCHANGED <<scope, finalizers, resourceVars, fiber, use>>
      /\ UNCHANGED <<runner, completion, closing>>
      /\ thunk' \in [Runs -> {"none", "pending", "settled"}]
  BY DEF WorkerStops, WorkerFails, ThunkSettles, IInv, Types, WorkerThere
<1>2. /\ worker' \in WorkerStates \ {"none"}
      /\ worker \in Stopped => worker' \in Stopped
      /\ worker' = "INITIALIZED" <=> worker = "INITIALIZED"
  BY DEF WorkerStops, WorkerFails, ThunkSettles, IInv, Types, WorkerThere, WorkerStates, Stopped
<1>3. CompletionRuns'
  BY <1>1, <1>2 DEF IInv, CompletionRuns
<1>4. QED
  BY <1>1, <1>2, <1>3, WorkerIInv DEF IInv, Types

\* So does the acquisition of a resource.
LEMMA AcquireIInv ==
  ASSUME IInv, Acquire
  PROVE  IInv'
<1> DEFINE r == Resources[Len(finalizers) + 1]
<1>1. scope = "acquiring" /\ worker = "none" /\ Len(finalizers) < 3 /\ Push(r)
  BY DEF Acquire, IInv, StackInOrder
<1>2. PICK n \in Nat : n = Len(finalizers) /\ n < 3
  BY <1>1, LenProperties DEF IInv, Types
<1>3. /\ Resources[1] = "environment" /\ Resources[2] = "connection"
      /\ Resources[3] = "worker"
  BY DEF Resources
<1>4. /\ r = Resources[n + 1] /\ r \in Finalizers
      /\ r = "environment" <=> n = 0
      /\ r = "connection" <=> n = 1
      /\ r = "worker" <=> n = 2
  <2>1. r = Resources[n + 1]
    BY <1>2
  <2>2. CASE n = 0
    BY <1>3, <2>1, <2>2 DEF Finalizers
  <2>3. CASE n = 1
    BY <1>3, <2>1, <2>3 DEF Finalizers
  <2>4. CASE n = 2
    BY <1>3, <2>1, <2>4 DEF Finalizers
  <2>5. n = 0 \/ n = 1 \/ n = 2
    BY <1>2
  <2>6. QED
    BY <2>2, <2>3, <2>4, <2>5
<1>5. /\ finalizers' \in Seq(Finalizers) /\ Len(finalizers') = n + 1
      /\ finalizers'[n + 1] = r
      /\ \A i \in 1..n : finalizers'[i] = finalizers[i]
  BY <1>1, <1>2, <1>4, Pushed DEF IInv, Types, Finalizers
<1>6. /\ scope' = IF n = 2 THEN "open" ELSE scope
      /\ environment' = IF n = 0 THEN "open" ELSE environment
      /\ connection' = IF n = 1 THEN "open" ELSE connection
      /\ worker' = IF n = 2 THEN "INITIALIZED" ELSE worker
      /\ UNCHANGED <<runner, completion, closing, fiberVars>>
  BY <1>4 DEF Acquire
<1>7. Types'
  BY <1>1, <1>5, <1>6 DEF IInv, Types, ResourceStates, WorkerStates, Finalizers
<1>8. \A i \in 1..n + 1 : finalizers'[i] = Resources[i]
  BY <1>2, <1>4, <1>5 DEF IInv, StackInOrder
<1>9. StackInOrder'
  BY <1>1, <1>2, <1>5, <1>6, <1>8 DEF IInv, StackInOrder, Stopped
<1>10. CompletionRuns' /\ WorkerThere'
  BY <1>1, <1>6 DEF IInv, CompletionRuns, WorkerThere
<1>11. QED
  BY <1>7, <1>9, <1>10 DEF IInv

\* A finalizer that is done leaves the resources below it in order.
LEMMA PopIInv ==
  ASSUME IInv, scope = "closing", finalizers # <<>>, Pop,
         UNCHANGED <<scope, workerVars, fiberVars>>,
         environment' \in ResourceStates, connection' \in ResourceStates,
         Len(finalizers) = 3 => worker \in Stopped,
         connection' = "open" => connection = "open" /\ Len(finalizers) # 2,
         environment' = "open" => environment = "open" /\ Len(finalizers) # 1
  PROVE  IInv'
<1>1. /\ finalizers' \in Seq(Finalizers)
      /\ Len(finalizers) \in Nat \ {0} /\ Len(finalizers') = Len(finalizers) - 1
      /\ \A i \in 1..Len(finalizers') : finalizers'[i] = finalizers[i]
  BY Popped DEF IInv, Types, Finalizers
<1>2. PICK n \in Nat : n = Len(finalizers') /\ Len(finalizers) = n + 1
  BY <1>1
<1>3. Types' /\ CompletionRuns' /\ WorkerThere'
  BY <1>1 DEF IInv, Types, CompletionRuns, WorkerThere
<1>4. \A i \in 1..n : /\ i <= 3 => finalizers'[i] = Resources[i]
                      /\ i > 3 => finalizers'[i] \in Scoped
  BY <1>1, <1>2 DEF IInv, StackInOrder
<1>5. /\ worker \notin Stopped => n >= 3
      /\ worker = "none" => n < 3
      /\ connection' = "open" => n >= 2
      /\ environment' = "open" => n >= 1
  BY <1>2 DEF IInv, StackInOrder
<1>6. StackInOrder'
  BY <1>2, <1>4, <1>5 DEF StackInOrder
<1>7. QED
  BY <1>3, <1>6 DEF IInv

\* Each finalizer keeps the invariant: the worker's goes only when the run it
\* waits for has stopped.
LEMMA ReleaseIInv ==
  ASSUME IInv, Release
  PROVE  IInv'
<1>1. ASSUME NEW f \in Scoped, FiberReleased(f) PROVE IInv'
  <2>1. PICK n \in Nat : n = Len(finalizers) /\ n > 3
    BY <1>1, TopIs, FibersAssumption DEF FiberReleased, Closes
  <2>2. Len(finalizers) # 1 /\ Len(finalizers) # 2 /\ Len(finalizers) # 3
    BY <2>1
  <2>3. QED
    BY <1>1, <2>2, PopIInv DEF FiberReleased, Closes, IInv, Types
<1>2. CASE WorkerReleased
  <2>1. Len(finalizers) = 3 /\ worker \in Stopped
    BY <1>2, TopIs, FibersAssumption DEF WorkerReleased, Closes, HasShutDown, Settled, IInv,
       CompletionRuns
  <2>2. QED
    BY <1>2, <2>1, PopIInv DEF WorkerReleased, Closes, IInv, Types
<1>3. CASE ReleaseConnection
  <2>1. Len(finalizers) = 2 /\ worker \in Stopped
    BY <1>3, TopIs DEF ReleaseConnection, Closes, IInv, StackInOrder
  <2>2. connection' = "closed" /\ environment' = environment
    BY <1>3, <2>1 DEF ReleaseConnection
  <2>3. QED
    BY <1>3, <2>1, <2>2, PopIInv DEF ReleaseConnection, Closes, IInv, Types, ResourceStates
<1>4. CASE ReleaseEnvironment
  <2>1. Len(finalizers) = 1
    BY <1>4, TopIs DEF ReleaseEnvironment, Closes
  <2>2. QED
    BY <1>4, <2>1, PopIInv DEF ReleaseEnvironment, Closes, IInv, Types, ResourceStates
<1>5. CASE ReleaseWorker
  <2>1. worker # "none"
    BY <1>5, TopIs DEF ReleaseWorker, Closes, IInv, StackInOrder
  <2>2. QED
    BY <1>5, <2>1, ShutdownIInv DEF ReleaseWorker, IInv, Types
<1>6. CASE CloseScope
  BY <1>6, EmptySeq DEF CloseScope, IInv, Types, StackInOrder, CompletionRuns, WorkerThere
<1>7. ASSUME NEW f \in Scoped, Interrupt(f) PROVE IInv'
  BY <1>7, FiberIInv, FibersAssumption DEF FiberStep
<1>8. QED
  BY <1>1, <1>2, <1>3, <1>4, <1>5, <1>6, <1>7 DEF Release

\* Every step preserves the invariant.
LEMMA NextIInv == IInv /\ [Next]_vars => IInv'
<1> SUFFICES ASSUME IInv, [Next]_vars PROVE IInv'
  OBVIOUS
<1>1. CASE UNCHANGED vars
  BY <1>1 DEF IInv, Types, StackInOrder, CompletionRuns, WorkerThere
<1>2. CASE BeginClose
  BY <1>2 DEF BeginClose, IInv, Types, StackInOrder, CompletionRuns, WorkerThere
<1>3. QED
  BY <1>1, <1>2, AcquireIInv, ReleaseIInv, FiberIInv, WorkerStepIInv DEF Next

\* The invariant holds in every reachable state.
LEMMA Inductive == Spec => []IInv
BY InitIInv, NextIInv, PTL DEF Spec

\* Every variable keeps its type, and a worker that may still run has its
\* finalizer on the stack.
THEOREM WorkerTypeCorrect == Spec => []TypeOK
<1>1. IInv => TypeOK
  BY DEF IInv, Types, StackInOrder, TypeOK, Finalizers, Resources
<1>2. QED
  BY <1>1, Inductive, PTL

\* Whoever awaited a shutdown finds the worker stopped, for the completion it
\* waited for is that of the one run the SDK accepted (ownWorker).
THEOREM ShutdownsStop == Spec => []ShutdownStops
<1>1. IInv => ShutdownStops
  BY DEF IInv, CompletionRuns, ShutdownStops, HasShutDown, Settled, Stopped
<1>2. QED
  BY <1>1, Inductive, PTL

\* A closed scope has closed its connection and its server: the worker had let
\* go of the connection when its finalizer ran.
THEOREM ScopesRelease == Spec => []ConnectionsReleased
<1>1. IInv => ConnectionsReleased
  BY EmptySeq DEF IInv, StackInOrder, ConnectionsReleased
<1>2. QED
  BY <1>1, Inductive, PTL
=============================================================================
