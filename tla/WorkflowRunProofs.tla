-------------------------- MODULE WorkflowRunProofs --------------------------
(***************************************************************************)
(* Proofs about WorkflowRun for every choice of names, bodies and numbers  *)
(* of external jobs.                                                       *)
(***************************************************************************)
EXTENDS WorkflowRun, FiniteSets, FiniteSetTheorems, SequenceTheorems, TLAPS

USE DEF flags, clock, durable, memo, fiber, history, ambient, outer, inner, vars

\* Where the fiber can be in each phase: the operation it is blocked at is the
\* one pc names, a compensation in progress is that of a registered activity
\* and of a failed pass, and only a closed run has a closing.
Located ==
  /\ phase \in {"activity", "take", "parked"} => pc <= Len(body)
  /\ phase = "activity" => body[pc].kind = "activity"
  /\ phase = "take" => body[pc].kind = "take"
  /\ phase = "parked" => body[pc].kind \in {"await", "sleep", "activity"}
  /\ phase = "undo" => comps # <<>> /\ outcome \notin {None, "success"}
  /\ phase = "closing" => outcome # None
  /\ closed # None <=> phase = "closed"

IInv == TypeOK /\ Located

-----------------------------------------------------------------------------
\* The operation at pc is one of the body's and names what it acts on.
LEMMA OpAtPc ==
  ASSUME TypeFiber, pc <= Len(body)
  PROVE  /\ body[pc] \in Op
         /\ WellNamed(body[pc])
<1>1. body \in Seq(Op) /\ \A i \in 1..Len(body) : WellNamed(body[i])
  BY BodiesAssumption DEF TypeFiber
<1>2. pc \in 1..Len(body)
  BY <1>1 DEF TypeFiber
<1>3. QED
  BY <1>1, <1>2

\* The invariant holds initially.
LEMMA InitIInv == Init => IInv
<1> SUFFICES ASSUME Init PROVE IInv
  OBVIOUS
<1>1. TypeFlags
  BY DEF Init, TypeFlags, Results, Closings, None
<1>2. TypeStores
  <2>1. jobs \in [JobKinds -> Nat]
    BY JobsAssumption DEF Init
  <2>2. QED
    BY <2>1 DEF Init, TypeStores, Exits, None
<1>3. TypeMailboxes
  BY DEF Init, TypeMailboxes
<1>4. TypeFiber
  <2>1. body \in Seq(Op) /\ Len(body) \in Nat
    BY BodiesAssumption DEF Init
  <2>2. QED
    BY <2>1 DEF Init, TypeFiber, Phases, Outcomes, None
<1>5. Located
  BY DEF Init, Located, None
<1>6. QED
  BY <1>1, <1>2, <1>3, <1>4, <1>5 DEF IInv, TypeOK

-----------------------------------------------------------------------------
\* The handlers and the timer leave the fiber alone and keep the types of the
\* flags, of the deferreds and of the logs.
LEMMA SignalsIInv ==
  ASSUME IInv,
         \/ InterruptSignal \/ ResumeSignal
         \/ \E n \in Deferreds, e \in Exits : CompleteDeferredSignal(n, e)
         \/ \E c \in Clocks : ScheduleClockSignal(c) \/ TimerFires(c)
         \/ \E m \in Mailboxes : MailboxSignal(m)
  PROVE  IInv'
<1> DEFINE Signal ==
         \/ InterruptSignal \/ ResumeSignal
         \/ \E n \in Deferreds, e \in Exits : CompleteDeferredSignal(n, e)
         \/ \E c \in Clocks : ScheduleClockSignal(c) \/ TimerFires(c)
         \/ \E m \in Mailboxes : MailboxSignal(m)
<1> Signal
  OBVIOUS
<1>1. TypeFlags'
  BY DEF IInv, TypeOK, TypeFlags, InterruptSignal, ResumeSignal, SetInterrupted,
         SetResumed, CompleteDeferredSignal, CompleteDeferred, SetWoken,
         ScheduleClockSignal, TimerFires, MailboxSignal
<1>2. TypeStores'
  <2>1. CASE InterruptSignal \/ ResumeSignal
    BY <2>1 DEF IInv, TypeOK, TypeStores, InterruptSignal, ResumeSignal, Job, JobKinds
  <2>2. ASSUME NEW n \in Deferreds, NEW e \in Exits, CompleteDeferredSignal(n, e)
        PROVE  TypeStores'
    BY <2>2 DEF IInv, TypeOK, TypeStores, CompleteDeferredSignal, CompleteDeferred,
                Job, JobKinds
  <2>3. ASSUME NEW c \in Clocks, ScheduleClockSignal(c)
        PROVE  TypeStores'
    BY <2>3 DEF IInv, TypeOK, TypeStores, ScheduleClockSignal, ScheduleRuntimeClock,
                Job, JobKinds
  <2>4. ASSUME NEW c \in Clocks, TimerFires(c)
        PROVE  TypeStores'
    BY <2>4 DEF IInv, TypeOK, TypeStores, TimerFires, CompleteDeferred, Exits
  <2>5. ASSUME NEW m \in Mailboxes, MailboxSignal(m)
        PROVE  TypeStores'
    BY <2>5 DEF IInv, TypeOK, TypeStores, MailboxSignal, Job, JobKinds
  <2>6. QED
    BY <2>1, <2>2, <2>3, <2>4, <2>5
<1>3. TypeMailboxes'
  BY DEF IInv, TypeOK, TypeMailboxes, InterruptSignal, ResumeSignal,
         CompleteDeferredSignal, ScheduleClockSignal, TimerFires, MailboxSignal
<1>4. TypeFiber' /\ Located'
  BY DEF IInv, TypeOK, TypeFiber, Located, InterruptSignal, ResumeSignal,
         CompleteDeferredSignal, ScheduleClockSignal, TimerFires, MailboxSignal
<1>5. QED
  BY <1>1, <1>2, <1>3, <1>4 DEF IInv, TypeOK

-----------------------------------------------------------------------------
\* Interruption, the conditions and the loop move the phase, and leave pc and
\* what it points at alone except at the start of a pass.
LEMMA LoopIInv ==
  ASSUME IInv,
         \/ StartRun \/ ContinueLoop \/ WatcherFires \/ TryUnblockConditions
         \/ CancelRequested
  PROVE  IInv'
<1> DEFINE Step ==
         \/ StartRun \/ ContinueLoop \/ WatcherFires \/ TryUnblockConditions
         \/ CancelRequested
<1> Step
  OBVIOUS
<1> USE DEF IInv, TypeOK
<1>1. TypeFlags'
  BY DEF TypeFlags, StartRun, ContinueLoop, WatcherFires, TryUnblockConditions,
         CancelRequested, SetInterrupted, StatusAfterWait, Results, None
<1>2. TypeStores'
  BY DEF TypeStores, StartRun, ContinueLoop, WatcherFires, TryUnblockConditions,
         CancelRequested, Job, JobKinds
<1>3. TypeMailboxes'
  BY DEF TypeMailboxes, StartRun, ContinueLoop, ResetCursors, WatcherFires,
         TryUnblockConditions, CancelRequested, OnInterrupted, EndPass
<1>4. TypeFiber'
  <2>1. body \in Seq(Op) /\ Len(body) \in Nat
    BY BodiesAssumption DEF TypeFiber
  <2>2. CASE StartRun \/ TryUnblockConditions
    BY <2>2 DEF TypeFiber, Phases, StartRun, TryUnblockConditions
  <2>3. CASE ContinueLoop
    BY <2>1, <2>3 DEF TypeFiber, Phases, ContinueLoop
  <2>4. CASE WatcherFires \/ CancelRequested
    BY <2>4 DEF TypeFiber, Phases, Outcomes, WatcherFires, CancelRequested,
       OnInterrupted, EndPass
  <2>5. QED
    BY <2>2, <2>3, <2>4
<1>5. Located'
  BY DEF Located, StartRun, ContinueLoop, WatcherFires, TryUnblockConditions,
         CancelRequested, OnInterrupted, EndPass, Job, Quiescent, None, TypeFiber
<1>6. QED
  BY <1>1, <1>2, <1>3, <1>4, <1>5

-----------------------------------------------------------------------------
\* The operations of the body.  Each is at an operation of the body, so what
\* it reads and writes under that name is typed.
LEMMA BodyIInv ==
  ASSUME IInv,
         \/ Await \/ Activity \/ Take \/ LocalDeferredDone \/ LocalControl
         \/ BodyEnds
  PROVE  IInv'
<1> DEFINE Step ==
         \/ Await \/ Activity \/ Take \/ LocalDeferredDone \/ LocalControl
         \/ BodyEnds
<1> Step
  OBVIOUS
<1> USE DEF IInv, TypeOK
<1>1. body \in Seq(Op) /\ Len(body) \in Nat /\ pc \in Nat \ {0}
  BY BodiesAssumption DEF TypeFiber
<1>2. pc <= Len(body) => body[pc] \in Op /\ WellNamed(body[pc])
  BY OpAtPc
<1>3. TypeFlags'
  BY DEF TypeFlags, Await, AwaitCompleted, AwaitSuspends, Park, Activity,
         ActivityMemoized, ActivityScheduled, ActivityResolves, ActivitySuspends,
         Suspend, Take, TakeMessage, TakeBlocks, LocalDeferredDone, CompleteDeferred,
         SetWoken, LocalControl, SetInterrupted, SetResumed, BodyEnds, Results
<1>4. TypeStores'
  <2>1. CASE AwaitCompleted \/ AwaitSuspends
    BY <1>2, <2>1 DEF TypeStores, AwaitCompleted, AwaitSuspends, ArmClock,
       ScheduleRuntimeClock, Running, WellNamed
  <2>2. CASE LocalDeferredDone
    BY <1>2, <2>2 DEF TypeStores, LocalDeferredDone, CompleteDeferred, Running,
       WellNamed, Exits
  <2>3. CASE Activity \/ Take \/ LocalControl \/ BodyEnds
    BY <2>3 DEF TypeStores, Activity, ActivityMemoized, ActivityScheduled,
       ActivityResolves, ActivitySuspends, Take, TakeMessage, TakeBlocks, LocalControl, BodyEnds
  <2>4. QED
    BY <2>1, <2>2, <2>3 DEF Await
<1>5. TypeMailboxes'
  <2>1. CASE TakeMessage
    BY <1>2, <2>1 DEF TypeMailboxes, TakeMessage, HasMessage, Running, WellNamed
  <2>2. CASE ~TakeMessage
    BY <2>2 DEF TypeMailboxes, Await, AwaitCompleted, AwaitSuspends, Activity,
       ActivityMemoized, ActivityScheduled, ActivityResolves, ActivitySuspends,
       Take, TakeBlocks, LocalDeferredDone, LocalControl, BodyEnds
  <2>3. QED
    BY <2>1, <2>2
<1>6. ASSUME NEW a, Register(a)
      PROVE  comps' \in Seq(Compensated)
  <2>1. a \in Compensated => <<a>> \o comps \in Seq(Compensated)
    <3>1. a \in Compensated => <<a>> \in Seq(Compensated)
      OBVIOUS
    <3>2. QED
      BY <3>1, ConcatProperties DEF TypeFiber
  <2>2. QED
    BY <1>6, <2>1 DEF Register, TypeFiber
<1>7. TypeFiber'
  <2>1. CASE AwaitCompleted
    BY <1>1, <2>1 DEF TypeFiber, AwaitCompleted, Running, Advance, Finish, EndPass,
       Replaced, Phases, Outcomes
  <2>2. CASE AwaitSuspends \/ ActivitySuspends
    BY <1>1, <2>2 DEF TypeFiber, AwaitSuspends, ActivitySuspends, Suspend, Park,
       EndPass, Phases, Outcomes
  <2>3. CASE ActivityMemoized \/ ActivityScheduled
    BY <1>1, <1>2, <1>6, <2>3 DEF TypeFiber, ActivityMemoized, ActivityScheduled,
       Running, Advance, WellNamed, Phases, Scope
  <2>4. CASE ActivityResolves
    BY <1>1, <1>2, <1>6, <2>4 DEF TypeFiber, Located, ActivityResolves,
       Finish, EndPass, Replaced, WellNamed, Phases, Outcomes
  <2>5. CASE Take \/ LocalDeferredDone \/ LocalControl \/ BodyEnds
    BY <1>1, <2>5 DEF TypeFiber, Take, TakeMessage, TakeBlocks, LocalDeferredDone,
       LocalControl, BodyEnds, Running, Advance, Finish, EndPass, Replaced, Phases,
       Outcomes
  <2>6. QED
    BY <2>1, <2>2, <2>3, <2>4, <2>5 DEF Await, Activity
<1>8. Located'
  <2>1. CASE AwaitCompleted
    BY <2>1 DEF Located, AwaitCompleted, Running, Advance, Finish, EndPass,
       Replaced, None
  <2>2. CASE AwaitSuspends \/ ActivitySuspends
    BY <2>2 DEF Located, AwaitSuspends, ActivitySuspends, Suspend, Running, Park,
       EndPass, None
  <2>3. CASE ActivityMemoized \/ ActivityScheduled
    BY <2>3 DEF Located, ActivityMemoized, ActivityScheduled, Running, Advance
  <2>4. CASE ActivityResolves
    BY <2>4 DEF Located, ActivityResolves, Finish, EndPass, Replaced, None
  <2>5. CASE Take \/ LocalDeferredDone \/ LocalControl \/ BodyEnds
    BY <1>1, <2>5 DEF Located, Take, TakeMessage, TakeBlocks, LocalDeferredDone,
       LocalControl, BodyEnds, Running, Advance, Finish, EndPass, Replaced, None
  <2>6. QED
    BY <2>1, <2>2, <2>3, <2>4, <2>5 DEF Await, Activity
<1>9. QED
  BY <1>3, <1>4, <1>5, <1>7, <1>8

-----------------------------------------------------------------------------
\* The finalizers and the end of the run.
LEMMA CloseIInv ==
  ASSUME IInv, Compensate \/ CompensationResolves \/ Close
  PROVE  IInv'
<1> USE DEF IInv, TypeOK
<1>1. comps # <<>> => Head(comps) \in Compensated /\ Tail(comps) \in Seq(Compensated)
  BY DEF TypeFiber
<1>2. TypeFlags'
  <2>1. CASE Compensate \/ CompensationResolves
    BY <2>1 DEF TypeFlags, Compensate, CompensationResolves
  <2>2. CASE Close
    <3>1. outcome' \in Outcomes \ {None}
      BY <2>2 DEF Close, FiberExits, Replaced, Located, TypeFiber, Outcomes, None
    <3>2. QED
      BY <2>2, <3>1 DEF TypeFlags, Close, Closing, Outcomes, Closings, Results, None
  <2>3. QED
    BY <2>1, <2>2
<1>3. TypeStores' /\ TypeMailboxes'
  BY DEF TypeStores, TypeMailboxes, Compensate, CompensationResolves, Close
<1>4. TypeFiber'
  <2>1. CASE Compensate
    BY <1>1, <2>1, CompensatedAssumption DEF TypeFiber, Compensate, Scope, Phases
  <2>2. CASE CompensationResolves
    BY <1>1, <2>2 DEF TypeFiber, Located, CompensationResolves, Replaced, Phases,
       Outcomes
  <2>3. CASE Close
    BY <2>3 DEF TypeFiber, Close, FiberExits, Replaced, Phases, Outcomes
  <2>4. QED
    BY <2>1, <2>2, <2>3
<1>5. Located'
  <2>1. CASE Compensate \/ CompensationResolves
    BY <2>1 DEF Located, Compensate, CompensationResolves, Replaced, None
  <2>2. CASE Close
    BY <2>2 DEF Located, Close, Closing, FiberExits, Replaced, None
  <2>3. QED
    BY <2>1, <2>2
<1>6. QED
  BY <1>2, <1>3, <1>4, <1>5

\* Every step keeps the invariant.
LEMMA NextIInv == IInv /\ [Next]_vars => IInv'
<1> SUFFICES ASSUME IInv, [Next]_vars PROVE IInv'
  OBVIOUS
<1>1. CASE Next
  BY <1>1, SignalsIInv, LoopIInv, BodyIInv, CloseIInv DEF Next, Internal, External
<1>2. CASE UNCHANGED vars
  BY <1>2 DEF IInv, TypeOK, TypeFlags, TypeStores, TypeMailboxes, TypeFiber, Located
<1>3. QED
  BY <1>1, <1>2

\* Every reachable state of a run is well typed, and no pass takes more
\* mailbox messages than were received.
THEOREM TypeCorrect == Spec => []TypeOK
<1>1. Spec => []IInv
  BY InitIInv, NextIInv, PTL DEF Spec
<1>2. IInv => TypeOK
  BY DEF IInv
<1>3. QED
  BY <1>1, <1>2, PTL

-----------------------------------------------------------------------------
\* A step that leaves a run parked either parked it just now, on a deferred
\* that is missing, or completed one of its deferreds and raised a flag, or
\* left the deferreds alone and lowered no flag without raising the other.
LEMMA NextNoLostWakeup ==
  IInv /\ NoLostWakeup /\ [Next]_vars => NoLostWakeup'
<1> SUFFICES ASSUME IInv, NoLostWakeup, [Next]_vars,
                    NEW n \in Deferreds \cup Clocks, ParkedOn(n)', deferreds'[n] # None
             PROVE  (resumed \/ interrupted)'
  BY DEF NoLostWakeup
<1> USE DEF NoLostWakeup, ParkedOn
<1>1. CASE UNCHANGED vars
  BY <1>1
<1>2. CASE InterruptSignal \/ ResumeSignal \/ CancelRequested
  BY <1>2 DEF InterruptSignal, ResumeSignal, CancelRequested, SetInterrupted, SetResumed
<1>3. ASSUME NEW m \in Deferreds, NEW e \in Exits, CompleteDeferredSignal(m, e)
      PROVE  (resumed \/ interrupted)'
  BY <1>3 DEF CompleteDeferredSignal, CompleteDeferred, SetWoken
<1>4. ASSUME NEW c \in Clocks, ScheduleClockSignal(c) \/ TimerFires(c)
      PROVE  (resumed \/ interrupted)'
  BY <1>4 DEF ScheduleClockSignal, TimerFires, CompleteDeferred, SetWoken
<1>5. CASE \E m \in Mailboxes : MailboxSignal(m)
  BY <1>5 DEF MailboxSignal
<1>6. CASE AwaitSuspends \/ ActivitySuspends
  BY <1>6 DEF AwaitSuspends, ActivitySuspends, Suspend, Park, EndPass, IInv, Located
<1>7. CASE \/ StartRun \/ ContinueLoop \/ WatcherFires \/ TryUnblockConditions
           \/ AwaitCompleted \/ ActivityMemoized \/ ActivityScheduled
           \/ ActivityResolves \/ Take \/ LocalDeferredDone \/ LocalControl
           \/ BodyEnds \/ Compensate \/ CompensationResolves \/ Close
  BY <1>7 DEF StartRun, ContinueLoop, WatcherFires, OnInterrupted, EndPass,
     TryUnblockConditions, AwaitCompleted, Running, Advance, Finish,
     ActivityMemoized, ActivityScheduled, ActivityResolves, Take, TakeMessage,
     TakeBlocks, LocalDeferredDone, LocalControl, BodyEnds, Compensate,
     CompensationResolves, Close
<1>8. QED
  BY <1>1, <1>2, <1>3, <1>4, <1>5, <1>6, <1>7 DEF Next, Internal, External, Await, Activity

\* No run stays parked on a completed deferred without a pending wake-up.
THEOREM WakeupsAreNotLost == Spec => []NoLostWakeup
<1>1. Init => NoLostWakeup
  BY DEF Init, NoLostWakeup, ParkedOn
<1>2. Spec => []IInv
  BY InitIInv, NextIInv, PTL DEF Spec
<1>3. QED
  BY <1>1, <1>2, NextNoLostWakeup, PTL DEF Spec

-----------------------------------------------------------------------------
\* A pass that ended as a success was not interrupted when it ended, and no
\* handler runs between that and the close of the run.
SuccessUninterrupted ==
  outcome = "success" /\ phase \in {"closing", "closed"} => ~interrupted
SuccessInv ==
  /\ SuccessUninterrupted
  /\ phase \notin {"closing", "closed", "undo"} => outcome = None
  /\ closed = "success" => outcome = "success"

\* Every step keeps SuccessInv, given the invariant.
LEMMA NextSuccessInv == IInv /\ SuccessInv /\ [Next]_vars => SuccessInv'
<1> SUFFICES ASSUME IInv, SuccessInv, [Next]_vars PROVE SuccessInv'
  OBVIOUS
<1> USE DEF SuccessInv, SuccessUninterrupted, IInv, Located, None
<1>1. CASE UNCHANGED vars
  BY <1>1
<1>2. CASE InterruptSignal \/ ResumeSignal
  BY <1>2 DEF InterruptSignal, ResumeSignal, Job, Quiescent
<1>3. CASE CancelRequested \/ WatcherFires
  BY <1>3 DEF CancelRequested, WatcherFires, Job, Quiescent, OnInterrupted, EndPass
<1>4. ASSUME \/ \E m \in Deferreds, e \in Exits : CompleteDeferredSignal(m, e)
             \/ \E c \in Clocks : ScheduleClockSignal(c) \/ TimerFires(c)
             \/ \E m \in Mailboxes : MailboxSignal(m)
      PROVE  SuccessInv'
  BY <1>4 DEF CompleteDeferredSignal, ScheduleClockSignal, TimerFires, MailboxSignal,
     CompleteDeferred, SetWoken
<1>5. CASE Await \/ Activity \/ Take \/ LocalDeferredDone \/ LocalControl \/ BodyEnds
  BY <1>5 DEF Await, AwaitCompleted, AwaitSuspends, Suspend, Park, Running, Advance,
     Finish, Replaced, EndPass, Activity, ActivityMemoized, ActivityScheduled,
     ActivityResolves, ActivitySuspends, Take,
     TakeMessage, TakeBlocks, LocalDeferredDone, LocalControl, BodyEnds
<1>6. CASE \/ StartRun \/ ContinueLoop \/ TryUnblockConditions
           \/ Compensate \/ CompensationResolves
  BY <1>6 DEF StartRun, ContinueLoop, TryUnblockConditions, Compensate,
     CompensationResolves, Replaced, Quiescent
<1>7. CASE Close
  BY <1>7 DEF Close, Closing, FiberExits, Replaced
<1>8. QED
  BY <1>1, <1>2, <1>3, <1>4, <1>5, <1>6, <1>7 DEF Next, Internal, External

\* A run that is interrupted when its last pass ends never closes as a success.
THEOREM InterruptedRunsFail == Spec => []InterruptedNeverSucceeds
<1>1. Init => SuccessInv
  BY DEF Init, SuccessInv, SuccessUninterrupted, None
<1>2. Spec => []IInv
  BY InitIInv, NextIInv, PTL DEF Spec
<1>3. IInv /\ SuccessInv => InterruptedNeverSucceeds
  BY DEF IInv, Located, SuccessInv, SuccessUninterrupted, InterruptedNeverSucceeds, None
<1>4. QED
  BY <1>1, <1>2, <1>3, NextSuccessInv, PTL DEF Spec

-----------------------------------------------------------------------------
\* A cancellation can no longer arrive once a run closed, and decides how it
\* closes if it arrived before.
LEMMA NextCancelledNeverCompletes ==
  IInv /\ CancelledNeverCompletes /\ [Next]_vars => CancelledNeverCompletes'
<1> SUFFICES ASSUME IInv, CancelledNeverCompletes, [Next]_vars
             PROVE  CancelledNeverCompletes'
  OBVIOUS
<1> USE DEF CancelledNeverCompletes, IInv, Located
<1>1. CASE Close
  BY <1>1 DEF Close, Closing, None
<1>2. CASE CancelRequested
  BY <1>2 DEF CancelRequested, Job, Quiescent
<1>3. CASE UNCHANGED <<cancelledFailure, closed>>
  BY <1>3
<1>4. QED
  BY <1>1, <1>2, <1>3
  DEF Next, Internal, External, InterruptSignal, ResumeSignal, CompleteDeferredSignal,
      ScheduleClockSignal, TimerFires, MailboxSignal, StartRun, ContinueLoop, WatcherFires,
      TryUnblockConditions, Await, AwaitCompleted, AwaitSuspends, Activity,
      ActivityMemoized, ActivityScheduled, ActivityResolves, ActivitySuspends, Take, TakeMessage, TakeBlocks,
      LocalDeferredDone, LocalControl, BodyEnds, Compensate, CompensationResolves

\* A run closed after a Temporal cancellation closes as cancelled or, by the
\* marker that is thrown before the cancellation is read, continues as new; never
\* by what its body came to.
THEOREM CancelledRunsNeverComplete == Spec => []CancelledNeverCompletes
<1>1. Init => CancelledNeverCompletes
  BY DEF Init, CancelledNeverCompletes, None
<1>2. Spec => []IInv
  BY InitIInv, NextIInv, PTL DEF Spec
<1>3. QED
  BY <1>1, <1>2, NextCancelledNeverCompletes, PTL DEF Spec

-----------------------------------------------------------------------------
\* The status and the result in every phase: a run that is starting or whose
\* pass runs has published no result, one between passes has published that it
\* is suspended, and in both the status follows the interrupted flag unless a
\* resume is pending.
StatusInv ==
  /\ ~(interrupted /\ resumed)
  /\ phase \in {"init", "running", "activity", "take"} =>
       result = None /\ (status = "suspended" <=> interrupted)
  /\ phase \in {"parked", "woken"} =>
       /\ result = "suspended"
       /\ interrupted => status = "suspended"
  /\ phase = "parked" /\ ~resumed => status = "suspended"

\* Every step keeps StatusInv, given the invariant.
LEMMA NextStatusInv == IInv /\ StatusInv /\ [Next]_vars => StatusInv'
<1> SUFFICES ASSUME IInv, StatusInv, [Next]_vars PROVE StatusInv'
  OBVIOUS
<1> USE DEF StatusInv, IInv, TypeOK, TypeFlags
<1>1. CASE UNCHANGED vars
  BY <1>1
<1>2. CASE InterruptSignal \/ ResumeSignal
  BY <1>2 DEF InterruptSignal, ResumeSignal, SetInterrupted, SetResumed
<1>3. CASE CancelRequested
  BY <1>3 DEF CancelRequested, SetInterrupted, OnInterrupted, EndPass
<1>4. CASE WatcherFires
  BY <1>4 DEF WatcherFires, OnInterrupted, EndPass
<1>5. ASSUME \/ \E m \in Deferreds, e \in Exits : CompleteDeferredSignal(m, e)
             \/ \E c \in Clocks : TimerFires(c)
      PROVE  StatusInv'
  BY <1>5 DEF CompleteDeferredSignal, TimerFires, CompleteDeferred, SetWoken
<1>6. CASE \/ \E c \in Clocks : ScheduleClockSignal(c)
           \/ \E m \in Mailboxes : MailboxSignal(m)
  BY <1>6 DEF ScheduleClockSignal, MailboxSignal
<1>7. CASE StartRun \/ ContinueLoop \/ TryUnblockConditions
  BY <1>7 DEF StartRun, ContinueLoop, StatusAfterWait, TryUnblockConditions, ResumeDue
<1>8. CASE AwaitCompleted \/ ActivityMemoized \/ ActivityScheduled \/ ActivityResolves
           \/ Take \/ BodyEnds
  BY <1>8 DEF AwaitCompleted, Running, Advance, Finish, EndPass, ActivityMemoized,
     ActivityScheduled, ActivityResolves, Take, TakeMessage, TakeBlocks, BodyEnds
<1>9. CASE AwaitSuspends \/ ActivitySuspends
  BY <1>9 DEF AwaitSuspends, ActivitySuspends, Suspend, Running, Park, EndPass
<1>10. CASE LocalDeferredDone \/ LocalControl
  BY <1>10 DEF LocalDeferredDone, LocalControl, Running, CompleteDeferred, SetWoken,
     SetInterrupted, SetResumed, Advance
<1>11. CASE Compensate \/ CompensationResolves \/ Close
  BY <1>11 DEF Compensate, CompensationResolves, Close
<1>12. QED
  BY <1>1, <1>2, <1>3, <1>4, <1>5, <1>6, <1>7, <1>8, <1>9, <1>10, <1>11
  DEF Next, Internal, External, Await, Activity

\* What a poll reads of a waiting run is what the run is.
THEOREM StatusIsTruthful == Spec => []StatusReported
<1>1. Init => StatusInv
  BY DEF Init, StatusInv
<1>2. Spec => []IInv
  BY InitIInv, NextIInv, PTL DEF Spec
<1>3. StatusInv => StatusReported
  BY DEF StatusInv, StatusReported
<1>4. QED
  BY <1>1, <1>2, <1>3, NextStatusInv, PTL DEF Spec

-----------------------------------------------------------------------------
(* Passes do not regress.                                                  *)

InPass == phase \in {"init", "running", "activity", "take", "parked", "woken"}

\* An operation that a pass got past, and so will every later one: an await,
\* until its deferred is completed again with a failure.
Passed(i) ==
  /\ body[i].kind \in {"await", "sleep"} =>
       deferreds[body[i].name] # None /\ "success" \in seen[body[i].name]
  /\ body[i].kind = "activity" => body[i].name \in activityResults
  /\ body[i].kind # "continueAsNew"

TakesBefore(m, n) == (1 .. n - 1) \cap {i \in DOMAIN body : body[i].kind = "take" /\ body[i].name = m}

\* A later pass gets to n without blocking.
Covered(n) ==
  /\ \A i \in 1 .. n - 1 : Passed(i)
  /\ \A m \in Mailboxes : Cardinality(TakesBefore(m, n)) <= mailboxLogs[m]

\* What the furthest suspended pass got past is covered, and so is what the
\* current one has; each take of a pass took one message.
ReplayInv ==
  /\ frontier <= Len(body) /\ Covered(frontier)
  /\ InPass => /\ Covered(pc)
               /\ \A m \in Mailboxes : mailboxCursors[m] = Cardinality(TakesBefore(m, pc))
  /\ phase \in {"parked", "woken"} => pc <= frontier
  /\ PassesNeverRegress

\* Of a set, what lies before n + 1 is what lies before n, and n if it is in it.
LEMMA PositionsBefore ==
  ASSUME NEW S, NEW n \in Nat \ {0}
  PROVE  /\ Cardinality((1 .. n - 1) \cap S) \in Nat
         /\ n \in S => Cardinality((1 .. (n + 1) - 1) \cap S) = Cardinality((1 .. n - 1) \cap S) + 1
         /\ n \notin S => (1 .. (n + 1) - 1) \cap S = (1 .. n - 1) \cap S
<1> DEFINE B == (1 .. n - 1) \cap S
           C == (1 .. (n + 1) - 1) \cap S
<1>1. IsFiniteSet(B) /\ Cardinality(B) \in Nat
  <2>1. IsFiniteSet(1 .. n - 1) /\ B \in SUBSET (1 .. n - 1)
    BY FS_Interval
  <2>2. QED
    BY <2>1, FS_Subset, FS_CardinalityType
<1>2. n \notin B /\ \A j : j \in 1 .. (n + 1) - 1 <=> j = n \/ j \in 1 .. n - 1
  OBVIOUS
<1>3. (n \in S => C = B \cup {n}) /\ (n \notin S => C = B)
  BY <1>2
<1>4. n \in S => Cardinality(C) = Cardinality(B) + 1
  BY <1>1, <1>2, <1>3, FS_AddElement
<1>5. QED
  BY <1>1, <1>3, <1>4

\* A body takes finitely often from a mailbox.
LEMMA TakesFinite ==
  ASSUME NEW m, NEW n \in Nat
  PROVE  IsFiniteSet(TakesBefore(m, n)) /\ Cardinality(TakesBefore(m, n)) \in Nat
<1>1. IsFiniteSet(1 .. n - 1) /\ TakesBefore(m, n) \in SUBSET (1 .. n - 1)
  BY FS_Interval DEF TakesBefore
<1>2. QED
  BY <1>1, FS_Subset, FS_CardinalityType

\* A pass that is before a position it takes at has taken fewer messages there.
LEMMA TakesCounted ==
  ASSUME TypeFiber, NEW m, NEW n \in Nat, pc < n, n <= Len(body),
         body[pc].kind = "take", body[pc].name = m
  PROVE  Cardinality(TakesBefore(m, pc)) < Cardinality(TakesBefore(m, n))
<1> DEFINE S == {i \in DOMAIN body : body[i].kind = "take" /\ body[i].name = m}
<1>1. body \in Seq(Op) /\ Len(body) \in Nat /\ pc \in Nat \ {0} /\ pc \in S
  BY BodiesAssumption DEF TypeFiber
<1> HIDE DEF S
<1>2. /\ Cardinality((1 .. pc - 1) \cap S) \in Nat
      /\ Cardinality((1 .. (pc + 1) - 1) \cap S) = Cardinality((1 .. pc - 1) \cap S) + 1
  BY <1>1, PositionsBefore
<1>3. IsFiniteSet((1 .. n - 1) \cap S)
  <2>1. IsFiniteSet(1 .. n - 1) /\ (1 .. n - 1) \cap S \in SUBSET (1 .. n - 1)
    BY FS_Interval
  <2>2. QED
    BY <2>1, FS_Subset
<1>4. (1 .. (pc + 1) - 1) \cap S \in SUBSET ((1 .. n - 1) \cap S)
  BY <1>1
<1>5. /\ Cardinality((1 .. (pc + 1) - 1) \cap S) <= Cardinality((1 .. n - 1) \cap S)
      /\ Cardinality((1 .. n - 1) \cap S) \in Nat
  BY <1>3, <1>4, FS_Subset, FS_CardinalityType
<1>6. QED
  BY <1>2, <1>5 DEF TakesBefore, S

\* Completions, readings, memoized results and messages only come in.
LEMMA NextMonotone ==
  ASSUME IInv, [Next]_vars
  PROVE  /\ body' = body /\ activityResults \subseteq activityResults'
         /\ \A n \in Deferreds \cup Clocks :
              /\ deferreds[n] # None => deferreds'[n] # None
              /\ seen[n] \subseteq seen'[n]
         /\ \A m \in Mailboxes : mailboxLogs'[m] >= mailboxLogs[m]
<1> USE DEF IInv, TypeOK
<1>1. CASE \/ \E n \in Deferreds, e \in Exits : CompleteDeferredSignal(n, e)
           \/ \E c \in Clocks : TimerFires(c)
           \/ LocalDeferredDone
  BY <1>1 DEF CompleteDeferredSignal, TimerFires, LocalDeferredDone, CompleteDeferred, Exits, None,
     TypeStores, TypeMailboxes
<1>2. CASE \E m \in Mailboxes : MailboxSignal(m)
  BY <1>2 DEF MailboxSignal, TypeStores, TypeMailboxes
<1>3. CASE AwaitCompleted
  BY <1>3 DEF AwaitCompleted, TypeStores, TypeMailboxes
<1>4. CASE ActivityResolves
  BY <1>4 DEF ActivityResolves, TypeMailboxes
<1>5. CASE UNCHANGED <<body, activityResults, deferreds, seen, mailboxLogs>>
  BY <1>5 DEF TypeMailboxes
<1>6. QED
  BY <1>1, <1>2, <1>3, <1>4, <1>5
  DEF Next, Internal, External, InterruptSignal, ResumeSignal, ScheduleClockSignal, StartRun, ContinueLoop,
      WatcherFires, CancelRequested, OnInterrupted, TryUnblockConditions, Await, AwaitSuspends, Activity,
      ActivityMemoized, ActivityScheduled, ActivitySuspends, Take, TakeMessage, TakeBlocks, LocalControl, BodyEnds, Compensate,
      CompensationResolves, Close

\* What is covered stays covered.
LEMMA CoveredStays ==
  ASSUME IInv, [Next]_vars, NEW n \in Nat, n <= Len(body) + 1, Covered(n)
  PROVE  Covered(n)'
<1>1. /\ body' = body /\ activityResults \subseteq activityResults'
      /\ \A k \in Deferreds \cup Clocks :
           /\ deferreds[k] # None => deferreds'[k] # None
           /\ seen[k] \subseteq seen'[k]
      /\ \A m \in Mailboxes : mailboxLogs'[m] >= mailboxLogs[m]
  BY NextMonotone
<1>2. body \in Seq(Op) /\ \A i \in 1 .. Len(body) : WellNamed(body[i])
  BY BodiesAssumption DEF IInv, TypeOK, TypeFiber
<1>3. ASSUME NEW i \in 1 .. n - 1 PROVE Passed(i)'
  <2>1. i \in 1 .. Len(body) /\ Passed(i)
    BY <1>2 DEF Covered
  <2>2. QED
    BY <1>1, <1>2, <2>1 DEF Passed, WellNamed
<1>4. ASSUME NEW m \in Mailboxes PROVE Cardinality(TakesBefore(m, n)') <= mailboxLogs'[m]
  <2>1. TakesBefore(m, n)' = TakesBefore(m, n)
    BY <1>1 DEF TakesBefore
  <2>2. Cardinality(TakesBefore(m, n)) \in Nat
    BY TakesFinite
  <2>3. QED
    BY <1>1, <2>1, <2>2, NextIInv DEF Covered, IInv, TypeOK, TypeMailboxes
<1>5. QED
  BY <1>3, <1>4 DEF Covered

\* The furthest suspended pass stays covered.
LEMMA FrontierStays ==
  ASSUME IInv, ReplayInv, [Next]_vars, frontier' = frontier
  PROVE  (frontier <= Len(body))' /\ Covered(frontier)'
<1>1. frontier \in Nat /\ body' = body /\ Len(body) \in Nat
  BY NextMonotone, BodiesAssumption DEF IInv, TypeOK, TypeFiber
<1>2. \A n \in Nat : n <= Len(body) /\ Covered(n) => Covered(n)'
  BY <1>1, CoveredStays
<1>3. \A n \in Nat : Covered(n)' /\ frontier' = n => Covered(frontier)'
  BY DEF Covered, TakesBefore
<1>4. QED
  BY <1>1, <1>2, <1>3 DEF ReplayInv

\* A step that moves no pc and takes no message: it stays covered, and blocks
\* only where a pass may.
LEMMA PassGoesOn ==
  ASSUME IInv, ReplayInv, [Next]_vars, UNCHANGED <<frontier, pc, mailboxCursors>>,
         InPass' => InPass,
         phase' \in {"parked", "woken"} => pc <= frontier,
         phase' \in {"activity", "take", "parked"} => pc >= frontier
  PROVE  ReplayInv'
<1>1. (frontier <= Len(body))' /\ Covered(frontier)'
  BY FrontierStays
<1>2. pc \in Nat /\ pc <= Len(body) + 1 /\ body' = body
  BY NextMonotone, BodiesAssumption DEF IInv, TypeOK, TypeFiber
<1>3. ASSUME InPass' PROVE Covered(pc)' /\ \A m \in Mailboxes : mailboxCursors'[m] = Cardinality(TakesBefore(m, pc)')
  <2>1. Covered(pc) /\ \A m \in Mailboxes : mailboxCursors[m] = Cardinality(TakesBefore(m, pc))
    BY <1>3 DEF ReplayInv
  <2>2. \A n \in Nat : n <= Len(body) + 1 /\ Covered(n) => Covered(n)'
    BY CoveredStays
  <2>3. \A n \in Nat : Covered(n)' /\ pc' = n => Covered(pc)'
    BY DEF Covered, TakesBefore
  <2>4. \A m : TakesBefore(m, pc)' = TakesBefore(m, pc)
    BY <1>2 DEF TakesBefore
  <2>5. QED
    BY <1>2, <2>1, <2>2, <2>3, <2>4
<1>4. QED
  BY <1>1, <1>3 DEF ReplayInv, PassesNeverRegress

\* A pass gets past an operation.
LEMMA PassAdvances ==
  ASSUME IInv, ReplayInv, [Next]_vars, UNCHANGED frontier, InPass, phase' = "running",
         pc <= Len(body), pc' = pc + 1, NEW i, i = pc, Passed(i)',
         IF body[pc].kind = "take"
           THEN mailboxCursors' = [mailboxCursors EXCEPT ![body[pc].name] = @ + 1]
           ELSE UNCHANGED mailboxCursors
  PROVE  ReplayInv'
<1>1. (frontier <= Len(body))' /\ Covered(frontier)'
  BY FrontierStays
<1>2. /\ body \in Seq(Op) /\ Len(body) \in Nat /\ pc \in Nat \ {0} /\ body' = body
      /\ mailboxCursors \in [Mailboxes -> Nat] /\ pc \in DOMAIN body
  BY NextMonotone, BodiesAssumption DEF IInv, TypeOK, TypeFiber, TypeMailboxes
<1>3. Covered(i) /\ Covered(i)' /\ \A m \in Mailboxes : mailboxCursors[m] = Cardinality(TakesBefore(m, i))
  BY <1>2, CoveredStays DEF ReplayInv
<1>4. ASSUME NEW m \in Mailboxes PROVE mailboxCursors'[m] = Cardinality(TakesBefore(m, pc)')
  <2> DEFINE S == {j \in DOMAIN body : body[j].kind = "take" /\ body[j].name = m}
  <2>1. pc \in S <=> body[pc].kind = "take" /\ body[pc].name = m
    BY <1>2
  <2>2. TakesBefore(m, pc)' = (1 .. (pc + 1) - 1) \cap S /\ TakesBefore(m, pc) = (1 .. pc - 1) \cap S
    BY <1>2 DEF TakesBefore
  <2> HIDE DEF S
  <2>3. /\ pc \in S => Cardinality((1 .. (pc + 1) - 1) \cap S) = Cardinality((1 .. pc - 1) \cap S) + 1
        /\ pc \notin S => (1 .. (pc + 1) - 1) \cap S = (1 .. pc - 1) \cap S
    BY <1>2, PositionsBefore
  <2>4. mailboxCursors'[m] = IF pc \in S THEN mailboxCursors[m] + 1 ELSE mailboxCursors[m]
    BY <1>2, <2>1
  <2>5. mailboxCursors[m] = Cardinality((1 .. pc - 1) \cap S)
    BY <1>3, <2>2
  <2>6. CASE pc \in S
    BY <2>2, <2>3, <2>4, <2>5, <2>6
  <2>7. CASE pc \notin S
    BY <2>2, <2>3, <2>4, <2>5, <2>7
  <2>8. QED
    BY <2>6, <2>7
<1>5. Covered(pc)'
  <2>1. \A j \in 1 .. pc' - 1 : Passed(j)'
    BY <1>2, <1>3 DEF Covered
  <2>2. \A m \in Mailboxes : mailboxCursors'[m] <= mailboxLogs'[m]
    BY NextIInv DEF IInv, TypeOK, TypeMailboxes
  <2>3. QED
    BY <1>4, <2>1, <2>2 DEF Covered
<1>6. QED
  BY <1>1, <1>4, <1>5 DEF ReplayInv, PassesNeverRegress

\* The steps of a pass that get past an operation.
LEMMA AdvancesReplay ==
  ASSUME IInv, ReplayInv, [Next]_vars,
         \/ AwaitCompleted \/ ActivityMemoized \/ ActivityResolves \/ TakeMessage
         \/ LocalDeferredDone \/ LocalControl,
         pc' # pc
  PROVE  ReplayInv'
<1> USE DEF IInv, TypeOK
<1>1. InPass /\ pc <= Len(body) /\ UNCHANGED <<body, frontier>>
  BY DEF AwaitCompleted, ActivityMemoized, ActivityResolves, TakeMessage, LocalDeferredDone, LocalControl,
     Running, Located, InPass
<1>2. body[pc] \in Op /\ WellNamed(body[pc]) /\ pc \in Nat
  BY <1>1, OpAtPc, BodiesAssumption DEF TypeFiber
<1>3. pc' = pc + 1 /\ phase' = "running"
  BY DEF AwaitCompleted, ActivityMemoized, ActivityResolves, TakeMessage, LocalDeferredDone, LocalControl,
     Running, Advance, Finish, EndPass
<1>4. PICK i : i = pc
  OBVIOUS
<1>5. Passed(i)'
  <2>1. CASE AwaitCompleted
    BY <1>1, <1>2, <1>4, <2>1 DEF AwaitCompleted, Running, Passed, WellNamed, TypeStores, None
  <2>2. CASE ActivityMemoized
    BY <1>1, <1>4, <2>2 DEF ActivityMemoized, Running, Passed
  <2>3. CASE ActivityResolves
    BY <1>1, <1>4, <2>3 DEF ActivityResolves, Located, Passed
  <2>4. CASE TakeMessage \/ LocalDeferredDone \/ LocalControl
    BY <1>1, <1>4, <2>4 DEF TakeMessage, LocalDeferredDone, LocalControl, Running, Passed
  <2>5. QED
    BY <2>1, <2>2, <2>3, <2>4
<1>6. IF body[pc].kind = "take"
        THEN mailboxCursors' = [mailboxCursors EXCEPT ![body[pc].name] = @ + 1]
        ELSE UNCHANGED mailboxCursors
  BY DEF AwaitCompleted, ActivityMemoized, ActivityResolves, TakeMessage, LocalDeferredDone, LocalControl,
     Running, Located
<1>7. QED
  BY <1>1, <1>3, <1>4, <1>5, <1>6, PassAdvances

\* A pass blocks, or ends, only beyond what is covered; the deferred it is
\* suspended on is where the furthest pass is then.
LEMMA BlocksReplay ==
  ASSUME IInv, ReplayInv, [Next]_vars,
         ActivityScheduled \/ ActivitySuspends \/ TakeBlocks \/ AwaitSuspends
  PROVE  ReplayInv' /\ pc >= frontier
<1> USE DEF IInv, TypeOK
<1>1. InPass /\ pc <= Len(body) /\ UNCHANGED <<pc, mailboxCursors>>
  BY DEF ActivityScheduled, ActivitySuspends, TakeBlocks, AwaitSuspends, Running, InPass, Located
<1>2. body[pc] \in Op /\ WellNamed(body[pc]) /\ pc \in Nat \ {0} /\ frontier \in Nat /\ Len(body) \in Nat
  BY <1>1, OpAtPc, BodiesAssumption DEF TypeFiber
<1>3. pc >= frontier
  <2> SUFFICES ASSUME pc < frontier PROVE FALSE
    BY <1>2
  <2>1. pc \in 1 .. frontier - 1 /\ Passed(pc)
    BY <1>2 DEF ReplayInv, Covered
  <2>2. CASE ActivityScheduled
    BY <2>1, <2>2 DEF ActivityScheduled, Running, Passed
  <2>6. CASE ActivitySuspends
    BY <1>2, <2>6 DEF ActivitySuspends, ReplayInv, PassesNeverRegress
  <2>3. CASE AwaitSuspends
    BY <2>1, <2>3 DEF AwaitSuspends, Running, Passed
  <2>4. CASE TakeBlocks
    <3> DEFINE m == body[pc].name
    <3>1. m \in Mailboxes /\ body[pc].kind = "take" /\ ~(mailboxCursors[m] < mailboxLogs[m])
      BY <1>2, <2>4 DEF TakeBlocks, HasMessage, Running, WellNamed
    <3>2. Cardinality(TakesBefore(m, pc)) < Cardinality(TakesBefore(m, frontier))
      BY <1>2, <3>1, TakesCounted DEF ReplayInv
    <3>3. /\ Cardinality(TakesBefore(m, frontier)) <= mailboxLogs[m]
          /\ mailboxCursors[m] = Cardinality(TakesBefore(m, pc))
      BY <1>1, <3>1 DEF ReplayInv, Covered
    <3>4. mailboxCursors[m] \in Nat /\ mailboxLogs[m] \in Nat
      BY <3>1 DEF TypeMailboxes
    <3>5. Cardinality(TakesBefore(m, frontier)) \in Nat
      BY <1>2, TakesFinite
    <3>6. QED
      BY <3>1, <3>2, <3>3, <3>4, <3>5
  <2>5. QED
    BY <2>2, <2>3, <2>4, <2>6
<1>4. CASE UNCHANGED frontier /\ phase' \notin {"parked", "woken"}
  BY <1>1, <1>3, <1>4, PassGoesOn
<1>5. CASE ~(UNCHANGED frontier /\ phase' \notin {"parked", "woken"})
  <2>1. frontier' = pc
    BY <1>2, <1>3, <1>5 DEF ActivityScheduled, ActivitySuspends, TakeBlocks, AwaitSuspends, Suspend, EndPass, Park
  <2>2. body' = body /\ Covered(pc) /\ \A m \in Mailboxes : mailboxCursors[m] = Cardinality(TakesBefore(m, pc))
    BY <1>1, NextMonotone DEF ReplayInv
  <2>3. \A n \in Nat : n <= Len(body) + 1 /\ Covered(n) => Covered(n)'
    BY CoveredStays
  <2>4. \A n \in Nat : Covered(n)' /\ pc' = n => Covered(pc)' /\ (frontier' = n => Covered(frontier)')
    BY DEF Covered, TakesBefore
  <2>5. Covered(pc)' /\ Covered(frontier)'
    BY <1>1, <1>2, <2>1, <2>2, <2>3, <2>4
  <2>6. \A m : TakesBefore(m, pc)' = TakesBefore(m, pc)
    BY <1>1, <2>2 DEF TakesBefore
  <2>7. \A m \in Mailboxes : mailboxCursors'[m] = Cardinality(TakesBefore(m, pc)')
    BY <1>1, <2>2, <2>6
  <2>8. QED
    BY <1>1, <1>2, <1>3, <2>1, <2>2, <2>5, <2>7 DEF ReplayInv, PassesNeverRegress
<1>6. QED
  BY <1>3, <1>4, <1>5

\* The next pass starts with nothing taken and nothing passed.
LEMMA NewPassReplay ==
  ASSUME IInv, ReplayInv, [Next]_vars, ContinueLoop
  PROVE  ReplayInv'
<1>1. /\ frontier' = frontier /\ pc' = 1 /\ phase' = "running" /\ mailboxCursors' = [m \in Mailboxes |-> 0]
      /\ mailboxLogs' = mailboxLogs
  BY DEF ContinueLoop, ResetCursors
<1>2. \A m : TakesBefore(m, pc)' = {} /\ Cardinality({}) = 0
  BY <1>1, FS_EmptySet DEF TakesBefore
<1>3. Covered(pc)'
  BY <1>1, <1>2 DEF Covered, IInv, TypeOK, TypeMailboxes
<1>4. QED
  BY <1>1, <1>2, <1>3, FrontierStays DEF ReplayInv, PassesNeverRegress

\* Every step keeps ReplayInv, given the invariant.
LEMMA NextReplayInv == IInv /\ ReplayInv /\ [Next]_vars => ReplayInv'
<1> SUFFICES ASSUME IInv, ReplayInv, [Next]_vars PROVE ReplayInv'
  OBVIOUS
<1>1. CASE ContinueLoop
  BY <1>1, NewPassReplay
<1>2. CASE ActivityScheduled \/ ActivitySuspends \/ TakeBlocks \/ AwaitSuspends
  BY <1>2, BlocksReplay
<1>3. CASE \/ AwaitCompleted \/ ActivityMemoized \/ ActivityResolves \/ TakeMessage
           \/ LocalDeferredDone \/ LocalControl
  <2>1. CASE pc' # pc
    BY <1>3, <2>1, AdvancesReplay
  <2>2. CASE pc' = pc
    <3>1. pc \in Nat
      BY BodiesAssumption DEF IInv, TypeOK, TypeFiber
    <3>2. phase' = "closing" /\ UNCHANGED <<frontier, mailboxCursors>>
      BY <1>3, <2>2, <3>1 DEF AwaitCompleted, ActivityMemoized, ActivityResolves, TakeMessage, LocalDeferredDone,
         LocalControl, Running, Advance, Finish, EndPass
    <3>3. QED
      BY <2>2, <3>2, PassGoesOn DEF InPass
  <2>3. QED
    BY <2>1, <2>2
<1>4. CASE \/ InterruptSignal \/ ResumeSignal \/ CancelRequested \/ UNCHANGED vars
           \/ \E n \in Deferreds, e \in Exits : CompleteDeferredSignal(n, e)
           \/ \E c \in Clocks : ScheduleClockSignal(c) \/ TimerFires(c)
           \/ \E m \in Mailboxes : MailboxSignal(m)
           \/ StartRun \/ WatcherFires \/ TryUnblockConditions \/ BodyEnds
           \/ Compensate \/ CompensationResolves \/ Close
  <2>1. UNCHANGED <<frontier, pc, mailboxCursors>>
    BY <1>4 DEF InterruptSignal, ResumeSignal, CancelRequested, CompleteDeferredSignal, ScheduleClockSignal,
       TimerFires, MailboxSignal, StartRun, WatcherFires, OnInterrupted, TryUnblockConditions, BodyEnds,
       Compensate, CompensationResolves, Close
  <2>2. /\ InPass' => InPass
        /\ phase' \in {"parked", "woken"} => phase \in {"parked", "woken"}
        /\ phase' \in {"activity", "take", "parked"} => phase = phase'
    BY <1>4 DEF InterruptSignal, ResumeSignal, CancelRequested, CompleteDeferredSignal, ScheduleClockSignal,
       TimerFires, MailboxSignal, StartRun, WatcherFires, OnInterrupted, EndPass, TryUnblockConditions,
       BodyEnds, Finish, Compensate, CompensationResolves, Close, InPass
  <2>3. QED
    BY <2>1, <2>2, PassGoesOn DEF ReplayInv, PassesNeverRegress
<1>5. QED
  BY <1>1, <1>2, <1>3, <1>4 DEF Next, Internal, External, Await, Activity, Take

\* The first pass starts with nothing covered but what is before the body.
LEMMA InitReplayInv == Init => ReplayInv
<1> SUFFICES ASSUME Init PROVE ReplayInv
  OBVIOUS
<1>1. /\ frontier = 0 /\ pc = 1 /\ phase = "init" /\ Len(body) \in Nat
      /\ \A m \in Mailboxes : mailboxLogs[m] = 0 /\ mailboxCursors[m] = 0
  BY BodiesAssumption DEF Init
<1>2. \A m \in Mailboxes : Cardinality(TakesBefore(m, pc)) = 0 /\ Cardinality(TakesBefore(m, frontier)) = 0
  <2>1. \A m : TakesBefore(m, pc) = {} /\ TakesBefore(m, frontier) = {}
    BY <1>1 DEF TakesBefore
  <2>2. QED
    BY <2>1, FS_EmptySet
<1>3. Covered(pc) /\ Covered(frontier)
  BY <1>1, <1>2 DEF Covered
<1>4. QED
  BY <1>1, <1>2, <1>3 DEF ReplayInv, PassesNeverRegress

\* "a resumed run does not re-schedule activities that already finished": in
\* every run, no pass blocks before the point an earlier one suspended at.
THEOREM ResumedPassesGoOn == Spec => []PassesNeverRegress
<1>1. Spec => []IInv
  BY InitIInv, NextIInv, PTL DEF Spec
<1>2. ReplayInv => PassesNeverRegress
  BY DEF ReplayInv
<1>3. QED
  BY <1>1, <1>2, InitReplayInv, NextReplayInv, PTL DEF Spec

-----------------------------------------------------------------------------
(* Compensations.                                                          *)

\* The compensated activities before position n, those whose compensation is
\* still to run, and those whose compensation runs in one of the scopes.
Registered(n) ==
  {a \in Compensated : \E i \in 1 .. n - 1 : i <= Len(body) /\ body[i].kind = "activity" /\ body[i].name = a}
Pending == {comps[i] : i \in DOMAIN comps}
CompensationsOf(scopes) == {a \in Activities : <<"undo", a>> \in scopes}

\* A pass has registered the compensations of the activities it got past, and
\* runs none before it ends; one that ended without success runs those, and
\* ended beyond every memoized activity.
CompensationInv ==
  /\ activityResults \cap Compensated \subseteq Registered(frontier) \cup Registered(pc)
  /\ InPass => Pending = Registered(pc)
  /\ InPass \/ outcome = "success" =>
       undone = {} /\ CompensationsOf(cancelled) = {} /\ CompensationsOf(inFlight) = {}
  /\ ~InPass /\ outcome # "success" =>
       /\ undone \cup Pending = Registered(pc)
       /\ Registered(pc) \subseteq activityResults
       /\ ReadExitsAgree => pc >= frontier
  /\ phase = "closed" /\ outcome # "success" => comps = <<>>

\* Registered at the positions of the next state, in the body of this one.
LEMMA RegisteredNow ==
  ASSUME body' = body, NEW n, frontier' = n, NEW k, pc' = k
  PROVE  Registered(frontier)' = Registered(n) /\ Registered(pc)' = Registered(k)
BY DEF Registered

\* More is registered further on, by the activity in between.
LEMMA RegisteredGrows ==
  ASSUME NEW n \in Nat, NEW k \in Nat, n <= k
  PROVE  Registered(n) \subseteq Registered(k)
BY DEF Registered

\* Passing an activity with a compensation registers it.
LEMMA RegisteredNext ==
  ASSUME TypeFiber, pc <= Len(body)
  PROVE  Registered(pc + 1) = Registered(pc) \cup
           (IF body[pc].kind = "activity" THEN {body[pc].name} \cap Compensated ELSE {})
<1>1. pc \in Nat \ {0} /\ Len(body) \in Nat
  BY BodiesAssumption DEF TypeFiber
<1>2. \A i : i \in 1 .. (pc + 1) - 1 <=> i = pc \/ i \in 1 .. pc - 1
  BY <1>1
<1>3. QED
  BY <1>1, <1>2 DEF Registered

\* withCompensation registers in front, and the finalizers run from there.
LEMMA PendingRegister ==
  ASSUME TypeFiber, NEW a, Register(a)
  PROVE  Pending' = Pending \cup ({a} \cap Compensated)
<1>1. CASE a \notin Compensated
  BY <1>1 DEF Register, Pending
<1>2. CASE a \in Compensated
  <2>1. comps' = <<a>> \o comps /\ comps \in Seq(Compensated) /\ <<a>> \in Seq(Compensated) /\ Len(<<a>>) = 1
    BY <1>2 DEF Register, TypeFiber
  <2>2. /\ Len(comps') = 1 + Len(comps) /\ comps' \in Seq(Compensated) /\ Len(comps) \in Nat
        /\ \A i \in 1 .. 1 + Len(comps) : comps'[i] = IF i <= 1 THEN <<a>>[i] ELSE comps[i - 1]
    BY <2>1, ConcatProperties
  <2>3. DOMAIN comps' = 1 .. 1 + Len(comps) /\ DOMAIN comps = 1 .. Len(comps)
    BY <2>1, <2>2
  <2>4. comps'[1] = a /\ \A i \in 1 .. Len(comps) : i + 1 \in 1 .. 1 + Len(comps) /\ comps'[i + 1] = comps[i]
    BY <2>2
  <2>5. ASSUME NEW x \in Pending' PROVE x \in Pending \cup {a}
    <3>1. PICK i \in 1 .. 1 + Len(comps) : x = comps'[i]
      BY <2>3, <2>5 DEF Pending
    <3>2. i = 1 \/ (i - 1 \in 1 .. Len(comps) /\ x = comps[i - 1])
      BY <2>2, <3>1
    <3>3. QED
      BY <2>3, <2>4, <3>1, <3>2 DEF Pending
  <2>6. Pending \cup {a} \subseteq Pending'
    <3>1. a \in Pending'
      BY <2>2, <2>3, <2>4 DEF Pending
    <3>2. ASSUME NEW x \in Pending PROVE x \in Pending'
      <4>1. PICK i \in 1 .. Len(comps) : x = comps[i]
        BY <2>3, <3>2 DEF Pending
      <4>2. QED
        BY <2>3, <2>4, <4>1 DEF Pending
    <3>3. QED
      BY <3>1, <3>2
  <2>7. QED
    BY <1>2, <2>5, <2>6
<1>3. QED
  BY <1>1, <1>2

\* A compensation that has run is no longer pending.
LEMMA PendingTail ==
  ASSUME TypeFiber, comps # <<>>, comps' = Tail(comps)
  PROVE  Head(comps) \in Compensated /\ Pending = Pending' \cup {Head(comps)}
<1>1. /\ comps \in Seq(Compensated) /\ Len(comps) \in Nat \ {0} /\ DOMAIN comps = 1 .. Len(comps)
      /\ Head(comps) = comps[1] /\ Head(comps) \in Compensated
  BY DEF TypeFiber
<1>2. /\ DOMAIN comps' = 1 .. Len(comps) - 1
      /\ \A i \in 1 .. Len(comps) - 1 : comps'[i] = comps[i + 1]
  BY <1>1, HeadTailProperties
<1>3. ASSUME NEW x \in Pending PROVE x \in Pending' \cup {Head(comps)}
  <2>1. PICK i \in 1 .. Len(comps) : x = comps[i]
    BY <1>1, <1>3 DEF Pending
  <2>2. i = 1 \/ (i - 1 \in 1 .. Len(comps) - 1 /\ (i - 1) + 1 = i)
    BY <1>1
  <2>3. CASE i = 1
    BY <1>1, <2>1, <2>3
  <2>4. CASE i - 1 \in 1 .. Len(comps) - 1 /\ (i - 1) + 1 = i
    <3>1. x = comps'[i - 1] /\ i - 1 \in DOMAIN comps'
      BY <1>2, <2>1, <2>4
    <3>2. QED
      BY <3>1 DEF Pending
  <2>5. QED
    BY <2>2, <2>3, <2>4
<1>4. ASSUME NEW x \in Pending' \cup {Head(comps)} PROVE x \in Pending
  <2>1. x = comps[1] \/ \E i \in 1 .. Len(comps) - 1 : x = comps[i + 1]
    BY <1>1, <1>2, <1>4 DEF Pending
  <2>2. QED
    BY <1>1, <2>1 DEF Pending
<1>5. QED
  BY <1>1, <1>3, <1>4

\* A pass that goes on to k has registered what is before k.
LEMMA CompensationsInPass ==
  ASSUME IInv, CompensationInv, InPass, InPass', UNCHANGED <<body, undone, cancelled>>,
         NEW n, frontier' = n, NEW k, pc' = k, Pending' = Registered(k),
         CompensationsOf(inFlight)' = CompensationsOf(inFlight),
         activityResults' \cap Compensated \subseteq Registered(n) \cup Registered(k)
  PROVE  CompensationInv'
<1>1. Registered(frontier)' = Registered(n) /\ Registered(pc)' = Registered(k)
  BY RegisteredNow
<1>2. undone' = {} /\ CompensationsOf(cancelled)' = {} /\ CompensationsOf(inFlight)' = {}
  BY DEF CompensationInv, CompensationsOf
<1>3. QED
  BY <1>1, <1>2 DEF CompensationInv, InPass

\* A pass ends; a later pass than the furthest, unless it read another exit.
LEMMA CompensationsAtEnd ==
  ASSUME IInv, ReplayInv, CompensationInv, InPass, phase' = "closing",
         UNCHANGED <<body, pc, frontier, comps, undone, cancelled, activityResults>>,
         CompensationsOf(inFlight)' = {},
         outcome' # "success" /\ ReadExitsAgree' => pc >= frontier
  PROVE  CompensationInv'
<1>1. Registered(frontier)' = Registered(frontier) /\ Registered(pc)' = Registered(pc) /\ Pending' = Pending
  BY RegisteredNow DEF Pending
<1>2. undone' = {} /\ CompensationsOf(cancelled)' = {}
  BY DEF CompensationInv, CompensationsOf
<1>3. Registered(pc) \subseteq activityResults
  BY DEF ReplayInv, Covered, Passed, Registered
<1>4. QED
  BY <1>1, <1>2, <1>3 DEF CompensationInv, InPass

\* A step that leaves the fiber where it is; a scope may be cancelled.
LEMMA CompensationsStay ==
  ASSUME IInv, CompensationInv, InPass' <=> InPass, phase' = "closed" => phase = "closed",
         UNCHANGED <<body, pc, frontier, comps, undone, activityResults, outcome, seen, inFlight>>,
         cancelled' \in {cancelled, cancelled \cup inFlight}
  PROVE  CompensationInv'
<1>1. Registered(frontier)' = Registered(frontier) /\ Registered(pc)' = Registered(pc) /\ Pending' = Pending
  BY RegisteredNow DEF Pending
<1>2. CompensationsOf(inFlight)' = CompensationsOf(inFlight) /\ (ReadExitsAgree' <=> ReadExitsAgree)
  BY DEF CompensationsOf, ReadExitsAgree
<1>3. CompensationsOf(cancelled)' \subseteq CompensationsOf(cancelled) \cup CompensationsOf(inFlight)
  BY DEF CompensationsOf
<1>4. QED
  BY <1>1, <1>2, <1>3 DEF CompensationInv

\* The steps that get past an operation.
LEMMA AdvancesCompensations ==
  ASSUME IInv, CompensationInv,
         \/ AwaitCompleted \/ ActivityMemoized \/ ActivityResolves \/ TakeMessage
         \/ LocalDeferredDone \/ LocalControl,
         pc' # pc
  PROVE  CompensationInv'
<1> USE DEF IInv, TypeOK
<1>1. InPass /\ pc <= Len(body) /\ UNCHANGED <<body, frontier, undone, cancelled>>
  BY DEF AwaitCompleted, ActivityMemoized, ActivityResolves, TakeMessage, LocalDeferredDone, LocalControl,
     Running, Located, InPass
<1>2. pc' = pc + 1 /\ phase' = "running" /\ InPass'
  BY DEF AwaitCompleted, ActivityMemoized, ActivityResolves, TakeMessage, LocalDeferredDone, LocalControl,
     Running, Advance, Finish, EndPass, InPass
<1>3. CompensationsOf(inFlight)' = CompensationsOf(inFlight)
  BY DEF AwaitCompleted, ActivityMemoized, ActivityResolves, TakeMessage, LocalDeferredDone, LocalControl,
     CompensationsOf
<1>4. /\ Registered(pc + 1) = Registered(pc) \cup
           (IF body[pc].kind = "activity" THEN {body[pc].name} \cap Compensated ELSE {})
      /\ Pending = Registered(pc)
      /\ activityResults \cap Compensated \subseteq Registered(frontier) \cup Registered(pc)
  BY <1>1, RegisteredNext DEF CompensationInv
<1>5. CASE ActivityMemoized \/ ActivityResolves
  <2>1. Register(body[pc].name) /\ body[pc].kind = "activity" /\ activityResults' \subseteq activityResults \cup {body[pc].name}
    BY <1>5 DEF ActivityMemoized, ActivityResolves, Running, Located
  <2>2. Pending' = Registered(pc + 1)
    BY <1>4, <2>1, PendingRegister
  <2>3. activityResults' \cap Compensated \subseteq Registered(frontier) \cup Registered(pc + 1)
    BY <1>4, <2>1
  <2>4. QED
    BY <1>1, <1>2, <1>3, <2>2, <2>3, CompensationsInPass
<1>6. CASE AwaitCompleted \/ TakeMessage \/ LocalDeferredDone \/ LocalControl
  <2>1. body[pc].kind # "activity" /\ UNCHANGED <<comps, activityResults>>
    BY <1>6 DEF AwaitCompleted, TakeMessage, LocalDeferredDone, LocalControl, Running
  <2>2. Pending' = Registered(pc + 1) /\ Registered(pc + 1) = Registered(pc)
    BY <1>4, <2>1 DEF Pending
  <2>3. QED
    BY <1>1, <1>2, <1>3, <1>4, <2>1, <2>2, CompensationsInPass
<1>7. QED
  BY <1>5, <1>6

\* The steps that block, suspend or start a pass.
LEMMA BlocksCompensations ==
  ASSUME IInv, ReplayInv, CompensationInv, [Next]_vars,
         ActivityScheduled \/ ActivitySuspends \/ AwaitSuspends \/ ContinueLoop
  PROVE  CompensationInv'
<1> USE DEF IInv, TypeOK
<1>1. /\ InPass /\ UNCHANGED <<body, undone, cancelled, activityResults>> /\ pc \in Nat /\ frontier \in Nat
      /\ CompensationsOf(inFlight)' = CompensationsOf(inFlight) /\ CompensationsOf(inFlight) = {}
      /\ Pending = Registered(pc)
      /\ activityResults \cap Compensated \subseteq Registered(frontier) \cup Registered(pc)
  BY BodiesAssumption DEF ActivityScheduled, ActivitySuspends, AwaitSuspends, ContinueLoop, Running, InPass,
     CompensationsOf, CompensationInv, TypeFiber
<1>2. CASE ActivityScheduled
  <2>1. UNCHANGED <<pc, frontier, comps>> /\ InPass'
    BY <1>2 DEF ActivityScheduled, InPass
  <2>2. Pending' = Registered(pc)
    BY <1>1, <2>1 DEF Pending
  <2>3. QED
    BY <1>1, <2>1, <2>2, CompensationsInPass
<1>3. CASE AwaitSuspends \/ ActivitySuspends
  <2>1. UNCHANGED <<pc, comps>> /\ pc >= frontier
    BY <1>3, BlocksReplay DEF AwaitSuspends, ActivitySuspends
  <2>2. Pending' = Registered(pc)
    BY <1>1, <2>1 DEF Pending
  <2>3. CASE interrupted
    BY <1>1, <1>3, <2>1, <2>3, CompensationsAtEnd DEF AwaitSuspends, ActivitySuspends, Suspend, EndPass
  <2>4. CASE ~interrupted
    <3>1. InPass' /\ frontier' = pc
      BY <1>1, <1>3, <2>1, <2>4 DEF AwaitSuspends, ActivitySuspends, Suspend, Park, InPass
    <3>2. Registered(frontier) \subseteq Registered(pc)
      BY <1>1, <2>1, RegisteredGrows
    <3>3. activityResults' \cap Compensated \subseteq Registered(pc) \cup Registered(pc)
      BY <1>1, <3>2
    <3>4. QED
      BY <1>1, <2>1, <2>2, <3>1, <3>3, CompensationsInPass
  <2>5. QED
    BY <2>3, <2>4
<1>4. CASE ContinueLoop
  <2>1. phase = "woken" /\ InPass' /\ pc' = 1 /\ comps' = <<>> /\ frontier' = frontier
    BY <1>4 DEF ContinueLoop, InPass
  <2>2. Pending' = Registered(1)
    BY <2>1 DEF Pending, Registered
  <2>3. Registered(pc) \subseteq Registered(frontier)
    BY <1>1, <2>1, RegisteredGrows DEF ReplayInv
  <2>4. QED
    BY <1>1, <2>1, <2>2, <2>3, CompensationsInPass
<1>5. QED
  BY <1>2, <1>3, <1>4

\* A pass that fails, is interrupted or ends with the body.
LEMMA EndsCompensations ==
  ASSUME IInv, ReplayInv, CompensationInv, [Next]_vars,
         AwaitCompleted \/ ActivityResolves \/ BodyEnds \/ CancelRequested \/ WatcherFires,
         InPass, ~InPass', pc' = pc
  PROVE  CompensationInv'
<1> USE DEF IInv, TypeOK
<1>1. /\ phase' = "closing" /\ UNCHANGED <<body, frontier, comps, undone, cancelled, activityResults>>
      /\ pc \in Nat \ {0} /\ frontier \in Nat /\ Len(body) \in Nat
  BY BodiesAssumption DEF AwaitCompleted, ActivityResolves, BodyEnds, CancelRequested, WatcherFires,
     OnInterrupted, Running, Advance, Finish, EndPass, InPass, TypeFiber
<1>2. CompensationsOf(inFlight)' = {}
  <2>1. CompensationsOf(inFlight) = {}
    BY DEF CompensationInv
  <2>2. inFlight' \subseteq inFlight
    BY DEF AwaitCompleted, ActivityResolves, BodyEnds, CancelRequested, WatcherFires, OnInterrupted
  <2>3. QED
    BY <2>1, <2>2 DEF CompensationsOf
<1>3. ASSUME outcome' # "success", ReadExitsAgree' PROVE pc >= frontier
  <2> SUFFICES ASSUME pc < frontier PROVE FALSE
    BY <1>1
  <2>1. pc <= Len(body) /\ Passed(pc) /\ phase \notin {"activity", "take"}
    BY <1>1 DEF ReplayInv, Covered, PassesNeverRegress
  <2>2. CASE AwaitCompleted
    <3> DEFINE n == body[pc].name
    <3>1. /\ deferreds[n] = "failure" /\ n \in Deferreds \cup Clocks
          /\ seen' = [seen EXCEPT ![n] = @ \cup {deferreds[n]}] /\ "success" \in seen[n]
      BY <1>1, <2>1, <2>2, OpAtPc DEF AwaitCompleted, Advance, Running, Passed, WellNamed
    <3>2. seen'[n] = Exits
      BY <3>1 DEF TypeStores, Exits
    <3>3. QED
      BY <1>3, <3>1, <3>2 DEF ReadExitsAgree
  <2>3. CASE BodyEnds
    BY <1>1, <2>1, <2>3 DEF BodyEnds, Running, Passed
  <2>4. CASE ActivityResolves \/ CancelRequested \/ WatcherFires
    BY <1>1, <2>1, <2>4 DEF ActivityResolves, CancelRequested, WatcherFires, OnInterrupted, InPass
  <2>5. QED
    BY <2>2, <2>3, <2>4
<1>4. QED
  BY <1>1, <1>2, <1>3, CompensationsAtEnd

\* The finalizers: one compensation at a time, from pending to done.
LEMMA ClosesCompensations ==
  ASSUME IInv, CompensationInv, Compensate \/ CompensationResolves \/ Close
  PROVE  CompensationInv'
<1> USE DEF IInv, TypeOK
<1>1. /\ UNCHANGED <<body, pc, frontier, activityResults, seen, cancelled>>
      /\ ~InPass /\ ~InPass' /\ CompensationsOf(cancelled)' = CompensationsOf(cancelled)
  BY DEF Compensate, CompensationResolves, Close, InPass, CompensationsOf
<1>2. /\ Registered(frontier)' = Registered(frontier) /\ Registered(pc)' = Registered(pc)
      /\ ReadExitsAgree' <=> ReadExitsAgree
  BY <1>1, RegisteredNow DEF ReadExitsAgree
<1>3. CASE Compensate
  <2>1. /\ outcome # "success" /\ UNCHANGED <<outcome, comps, undone>> /\ phase' = "undo"
    BY <1>3 DEF Compensate
  <2>2. Pending' = Pending
    BY <2>1 DEF Pending
  <2>3. QED
    BY <1>1, <1>2, <2>1, <2>2 DEF CompensationInv
<1>4. CASE CompensationResolves
  <2>1. /\ comps # <<>> /\ comps' = Tail(comps) /\ phase' = "closing"
        /\ outcome # "success" /\ outcome' # "success"
        /\ undone' = undone \cup {Head(comps)}
    BY <1>4 DEF CompensationResolves, Located, Replaced
  <2>2. Pending = Pending' \cup {Head(comps)}
    BY <2>1, PendingTail
  <2>3. QED
    BY <1>1, <1>2, <2>1, <2>2 DEF CompensationInv
<1>5. CASE Close
  <2>1. UNCHANGED <<comps, undone, inFlight>> /\ (outcome = "success" \/ comps = <<>>)
    BY <1>5 DEF Close
  <2>2. Pending' = Pending /\ CompensationsOf(inFlight)' = CompensationsOf(inFlight)
    BY <2>1 DEF Pending, CompensationsOf
  <2>3. outcome' = "success" <=> outcome = "success"
    <3>1. outcome = "success" => CompensationsOf(cancelled) = {}
      BY DEF CompensationInv
    <3>2. QED
      BY <1>5, <3>1 DEF Close, FiberExits, Replaced, CompensationsOf
  <2>4. QED
    BY <1>1, <1>2, <2>1, <2>2, <2>3 DEF CompensationInv
<1>6. QED
  BY <1>3, <1>4, <1>5

\* Every step keeps CompensationInv, given the invariants.
LEMMA NextCompensationInv == IInv /\ ReplayInv /\ CompensationInv /\ [Next]_vars => CompensationInv'
<1> SUFFICES ASSUME IInv, ReplayInv, CompensationInv, [Next]_vars PROVE CompensationInv'
  OBVIOUS
<1>1. CASE ActivityScheduled \/ ActivitySuspends \/ AwaitSuspends \/ ContinueLoop
  BY <1>1, BlocksCompensations
<1>2. CASE \/ AwaitCompleted \/ ActivityMemoized \/ ActivityResolves \/ TakeMessage
           \/ LocalDeferredDone \/ LocalControl
  <2>1. CASE pc' # pc
    BY <1>2, <2>1, AdvancesCompensations
  <2>2. CASE pc' = pc
    <3>1. pc \in Nat
      BY BodiesAssumption DEF IInv, TypeOK, TypeFiber
    <3>2. (AwaitCompleted \/ ActivityResolves) /\ InPass /\ ~InPass'
      BY <1>2, <2>2, <3>1 DEF AwaitCompleted, ActivityMemoized, ActivityResolves, TakeMessage, LocalDeferredDone,
         LocalControl, Running, Advance, Finish, EndPass, InPass
    <3>3. QED
      BY <2>2, <3>2, EndsCompensations
  <2>3. QED
    BY <2>1, <2>2
<1>3. CASE CancelRequested \/ WatcherFires
  <2>1. CASE phase \in {"activity", "take"}
    BY <1>3, <2>1, EndsCompensations DEF CancelRequested, WatcherFires, OnInterrupted, EndPass, InPass
  <2>2. CASE phase \notin {"activity", "take"}
    BY <1>3, <2>2, CompensationsStay DEF CancelRequested, WatcherFires, OnInterrupted, InPass
  <2>3. QED
    BY <2>1, <2>2
<1>4. CASE BodyEnds
  BY <1>4, EndsCompensations DEF BodyEnds, Running, Finish, EndPass, InPass
<1>5. CASE Compensate \/ CompensationResolves \/ Close
  BY <1>5, ClosesCompensations
<1>6. CASE \/ InterruptSignal \/ ResumeSignal \/ UNCHANGED vars
           \/ \E n \in Deferreds, e \in Exits : CompleteDeferredSignal(n, e)
           \/ \E c \in Clocks : ScheduleClockSignal(c) \/ TimerFires(c)
           \/ \E m \in Mailboxes : MailboxSignal(m)
           \/ StartRun \/ TryUnblockConditions \/ TakeBlocks
  <2>1. /\ UNCHANGED <<body, pc, frontier, comps, undone, activityResults, outcome, seen, inFlight, cancelled>>
    BY <1>6 DEF InterruptSignal, ResumeSignal, CompleteDeferredSignal, ScheduleClockSignal, TimerFires,
       MailboxSignal, StartRun, TryUnblockConditions, TakeBlocks
  <2>2. (InPass' <=> InPass) /\ (phase' = "closed" => phase = "closed")
    BY <1>6 DEF InterruptSignal, ResumeSignal, CompleteDeferredSignal, ScheduleClockSignal, TimerFires,
       MailboxSignal, StartRun, TryUnblockConditions, TakeBlocks, Running, InPass
  <2>3. /\ UNCHANGED <<body, pc, frontier, comps, undone, activityResults, outcome, seen, inFlight>>
        /\ cancelled' \in {cancelled, cancelled \cup inFlight}
    BY <2>1
  <2>4. QED
    BY <2>2, <2>3, CompensationsStay
<1>7. QED
  BY <1>1, <1>2, <1>3, <1>4, <1>5, <1>6 DEF Next, Internal, External, Await, Activity, Take

\* What was compensated when a run closed is what completed.
LEMMA CompensationsMatch == IInv /\ CompensationInv => CompensationMatchesOutcome
<1> SUFFICES ASSUME IInv, CompensationInv PROVE CompensationMatchesOutcome
  OBVIOUS
<1>2. ASSUME closed # None, outcome # "success", ReadExitsAgree
      PROVE  undone = Compensated \cap activityResults
  <2>1. phase = "closed" /\ ~InPass /\ comps = <<>>
    BY <1>2 DEF IInv, Located, InPass, CompensationInv
  <2>2. Pending = {} /\ undone \cup Pending = Registered(pc) /\ Registered(pc) \subseteq activityResults
    BY <1>2, <2>1 DEF CompensationInv, Pending
  <2>3. Registered(frontier) \subseteq Registered(pc)
    <3>1. pc \in Nat /\ frontier \in Nat /\ pc >= frontier
      BY <1>2, <2>1, BodiesAssumption DEF CompensationInv, IInv, TypeOK, TypeFiber
    <3>2. QED
      BY <3>1, RegisteredGrows
  <2>4. Registered(pc) \subseteq Compensated /\ activityResults \cap Compensated \subseteq Registered(pc)
    BY <2>3 DEF CompensationInv, Registered
  <2>5. QED
    BY <2>2, <2>4
<1>3. outcome = "success" => undone = {}
  BY DEF CompensationInv
<1>4. QED
  BY <1>2, <1>3 DEF CompensationMatchesOutcome

\* For every body, a run whose passes read the same exits and that does not
\* succeed closes only after the compensation of every compensated activity that
\* completed, in whichever pass, was run, also when others failed; a success undoes
\* nothing (withCompensation, and the scope the pass loop closes).
THEOREM CompensationsMatchOutcome == Spec => []CompensationMatchesOutcome
<1>1. Init => CompensationInv
  <2> SUFFICES ASSUME Init PROVE CompensationInv
    OBVIOUS
  <2>1. /\ pc = 1 /\ phase = "init" /\ comps = <<>> /\ undone = {} /\ cancelled = {} /\ inFlight = {}
        /\ activityResults = {}
    BY DEF Init
  <2>2. /\ Pending = {} /\ Registered(pc) = {} /\ CompensationsOf(inFlight) = {}
        /\ CompensationsOf(cancelled) = {}
    BY <2>1 DEF Pending, Registered, CompensationsOf
  <2>3. QED
    BY <2>1, <2>2 DEF CompensationInv, InPass
<1>2. Spec => []IInv
  BY InitIInv, NextIInv, PTL DEF Spec
<1>3. QED
  BY <1>1, <1>2, InitReplayInv, NextReplayInv, NextCompensationInv, CompensationsMatch, PTL DEF Spec

=============================================================================
