----------------------------- MODULE WorkflowRun -----------------------------
(***************************************************************************)
(* One run of a workflow inside the Temporal sandbox: the pass loop of     *)
(* makeWorkflow, the signal handlers of installBaseHandlers, waitForResume,*)
(* runtime clocks, the interruption watcher, Temporal cancellation, and    *)
(* the body of the workflow as a straight-line program of Effect           *)
(* operations executed once per pass                                       *)
(* (packages/workflow/src/TemporalWorkflowRuntime.ts).                     *)
(*                                                                         *)
(* Granularity.  The sandbox is single-threaded.  An activation delivers   *)
(* jobs (signals, timers, activity results, the cancellation request); the *)
(* microtasks they release run to quiescence before the next job, and the  *)
(* SDK then evaluates the blocked condition()s.  So a job is an action     *)
(* enabled only when the fiber is not running, every operation of the body *)
(* is an action, and TryUnblockConditions is the SDK's evaluation of the   *)
(* conditions, after which further signals of the same activation may      *)
(* still be handled before the continuation of an unblocked one.           *)
(***************************************************************************)
EXTENDS Naturals, Sequences

CONSTANTS
  Deferreds,           \* names of durable deferreds the body awaits
  Clocks,              \* names of durable clocks
  Activities,          \* names of activities, each called once per pass
  Compensated,         \* the activities wrapped in withCompensation
  Mailboxes,           \* names of mailboxes
  Bodies,              \* the workflow bodies considered
  MaxJobs,             \* bound: how often each external job occurs, by body
  SignalClockPatched,  \* patched("effect-temporal/signal-clock-v1")
  CausesJoin           \* a later failure may join the cause of an exit

Names == Deferreds \cup Clocks \cup Activities \cup Mailboxes
OpKinds == {"await", "sleep", "activity", "take", "complete", "interrupt",
            "resume", "continueAsNew"}
Op == [kind : OpKinds, name : Names]
JobKinds == {"interrupt", "resume", "complete", "offer", "clock", "cancel"}

\* An operation names what it acts on: a deferred, a clock, an activity or a
\* mailbox (the operations on the run itself ignore their name).
WellNamed(op) ==
  /\ op.kind \in {"await", "complete"} => op.name \in Deferreds
  /\ op.kind = "sleep" => op.name \in Clocks
  /\ op.kind = "activity" => op.name \in Activities
  /\ op.kind = "take" => op.name \in Mailboxes

ASSUME BodiesAssumption ==
  \A b \in Bodies : b \in Seq(Op) /\ \A i \in 1..Len(b) : WellNamed(b[i])
ASSUME CompensatedAssumption == Compensated \subseteq Activities
ASSUME JobsAssumption == MaxJobs \in [Bodies -> [JobKinds -> Nat]]
ASSUME PatchedAssumption == SignalClockPatched \in BOOLEAN
ASSUME CausesAssumption == CausesJoin \in BOOLEAN

Exits == {"success", "failure"}
None == "none"
Outcomes == {None, "success", "failed", "interrupted", "continued"}
Closings == {None, "success", "failed", "interrupted", "cancelled", "continued"}
Results == {None, "suspended", "success", "failed", "interrupted"}
Scope == {"body", "undo"} \X Activities
Phases == {"init", "running", "activity", "take", "parked", "woken",
           "closing", "undo", "closed"}

VARIABLES
  body,             \* the program, fixed for the run
  \* -- TemporalWorkflowRuntimeState -------------------------------------
  status, interrupted, resumed,
  result,           \* what the workflow-state query reports
  deferreds,        \* name -> exit or None (deferreds and clocks' deferreds)
  clocks,           \* names scheduleRuntimeClock has recorded
  timers,           \* the sleeps it has started and that have not fired
  activityResults,  \* activities whose result is memoized
  inFlight,         \* cancellation scopes tracked for the run
  mailboxLogs,      \* name -> number of messages received
  mailboxCursors,   \* name -> number of messages taken in this pass
  \* -- locals of makeWorkflow -------------------------------------------
  cancelledFailure, \* the Temporal cancellation has been observed
  watcher,          \* the one condition(() => state.interrupted)
  \* -- the fiber of the current pass ------------------------------------
  phase, pc,
  outcome,          \* how the pass ended, once it has
  comps,            \* compensations registered in this pass, latest first
  cancelled,        \* scopes that were cancelled while in flight
  closed,           \* how the Temporal run closed
  \* -- history ----------------------------------------------------------
  frontier,         \* how far the furthest suspended pass got
  seen,             \* deferred -> the exits the passes have read
  undone,           \* activities whose compensation has run, however it ended
  jobs              \* jobs of each kind still to come

flags   == <<status, interrupted, resumed>>
clock   == <<clocks, timers>>
durable == <<deferreds, clock, mailboxLogs>>
memo    == <<mailboxCursors, activityResults>>
fiber   == <<phase, pc, outcome, comps, inFlight, cancelled, memo>>
history == <<frontier, seen, undone>>
\* All but the fiber; all but the fiber and the watcher; all a handler of a
\* signal leaves alone, whichever it is.
ambient == <<body, flags, result, durable, cancelledFailure, closed, history, jobs>>
outer   == <<ambient, watcher>>
inner   == <<body, result, fiber, cancelledFailure, watcher, closed, history>>
vars    == <<outer, fiber>>

-----------------------------------------------------------------------------
Init ==
  /\ body \in Bodies
  /\ status = "running" /\ interrupted = FALSE /\ resumed = FALSE
  /\ result = None
  /\ deferreds = [n \in Deferreds \cup Clocks |-> None]
  /\ clocks = {} /\ timers = {}
  /\ activityResults = {} /\ inFlight = {} /\ cancelled = {}
  /\ mailboxLogs = [m \in Mailboxes |-> 0]
  /\ mailboxCursors = [m \in Mailboxes |-> 0]
  /\ cancelledFailure = FALSE
  /\ watcher = "unset"
  /\ phase = "init" /\ pc = 1 /\ outcome = None /\ comps = <<>>
  /\ closed = None
  /\ frontier = 0
  /\ seen = [n \in Deferreds \cup Clocks |-> {}]
  /\ undone = {}
  /\ jobs = MaxJobs[body]

\* No microtask is pending: the fiber waits for a job or for a condition.
Quiescent == phase \in {"init", "activity", "take", "undo", "parked", "woken"}

Job(kind) ==
  /\ Quiescent
  /\ jobs[kind] > 0
  /\ jobs' = [jobs EXCEPT ![kind] = @ - 1]

-----------------------------------------------------------------------------
(* Pieces shared by the handlers, the loop and the in-workflow engine.     *)
(* Each definition named ...Bug is a mutated form of the one that follows. *)

SetInterrupted ==
  interrupted' = TRUE /\ resumed' = FALSE /\ status' = "suspended"

SetResumedBug ==
  interrupted' = FALSE /\ status' = "running" /\ UNCHANGED resumed

SetResumed ==
  interrupted' = FALSE /\ resumed' = TRUE /\ status' = "running"

\* A deferred was completed: wake the run unless it is interrupted.
SetWoken ==
  /\ UNCHANGED interrupted
  /\ IF interrupted THEN UNCHANGED <<resumed, status>>
                    ELSE resumed' = TRUE /\ status' = "running"

CompleteDeferred(n, exit) ==
  deferreds' = [deferreds EXCEPT ![n] = exit] /\ SetWoken

ScheduleRuntimeClockBug(c) ==
  clocks' = clocks \cup {c} /\ UNCHANGED timers

ScheduleRuntimeClock(c) ==
  /\ clocks' = clocks \cup {c}
  /\ timers' = IF c \in clocks THEN timers ELSE timers \cup {c}

\* nextMessage finds a message at the cursor of this pass.
HasMessageBug(m) == mailboxCursors[m] <= mailboxLogs[m]
HasMessage(m) == mailboxCursors[m] < mailboxLogs[m]

\* The condition of waitForResume.
ResumeDueBug == resumed
ResumeDue == resumed \/ interrupted

\* A pass starts from the beginning of the mailbox logs.
ResetCursorsBug == UNCHANGED mailboxCursors
ResetCursors == mailboxCursors' = [m \in Mailboxes |-> 0]

\* The status once waitForResume has returned.
StatusAfterWaitBug == "running"
StatusAfterWait == IF interrupted THEN status ELSE "running"

\* withCompensation registers the finalizer each time its activity succeeds.
Register(a) == comps' = IF a \in Compensated THEN <<a>> \o comps ELSE comps

\* What an exit o becomes when an interruption or a finalizer fails it by: it is
\* replaced, or the two causes join and the run may close as either.  Which of
\* the two is up to Effect.
Replaced(o, by) == {by} \cup (IF CausesJoin THEN {o} \ {"success"} ELSE {})

\* How a run whose pass completed as o closes.
ClosingBug(o) == IF cancelledFailure /\ o # "success" THEN "cancelled" ELSE o
Closing(o) == IF cancelledFailure THEN "cancelled" ELSE o

-----------------------------------------------------------------------------
(* Signal handlers (installBaseHandlers) and other activation jobs.        *)

InterruptSignal ==
  /\ Job("interrupt")
  /\ SetInterrupted
  /\ UNCHANGED <<inner, durable>>

ResumeSignal ==
  /\ Job("resume")
  /\ SetResumed
  /\ UNCHANGED <<inner, durable>>

CompleteDeferredSignal(n, exit) ==
  /\ Job("complete")
  /\ CompleteDeferred(n, exit)
  /\ UNCHANGED <<inner, clock, mailboxLogs>>

ScheduleClockSignal(c) ==
  /\ Job("clock")
  /\ IF SignalClockPatched
       THEN ScheduleRuntimeClock(c)
       ELSE clocks' = clocks \cup {c} /\ UNCHANGED timers
  /\ UNCHANGED <<inner, flags, deferreds, mailboxLogs>>

MailboxSignal(m) ==
  /\ Job("offer")
  /\ mailboxLogs' = [mailboxLogs EXCEPT ![m] = @ + 1]
  /\ UNCHANGED <<inner, flags, clock, deferreds>>

\* The sleep of a runtime clock ends; it runs in a non-cancellable scope.
TimerFires(c) ==
  /\ Quiescent /\ phase # "init"
  /\ c \in timers
  /\ timers' = timers \ {c}
  /\ CompleteDeferred(c, "success")
  /\ UNCHANGED <<inner, clocks, mailboxLogs, jobs>>

-----------------------------------------------------------------------------
(* The end of a pass.                                                      *)

\* The body of the pass has ended as o: the compensations are next, then
\* the run closes.
EndPass(o) ==
  /\ outcome' = o
  /\ phase' = "closing"

FinishBug(o) == EndPass(o)

\* onExit and intoResult: while state.interrupted a pass is interrupted at its
\* end, whatever it was about to be.
Finish(o) ==
  \/ ~interrupted /\ EndPass(o)
  \/ interrupted /\ \E e \in Replaced(o, "interrupted") : EndPass(e)

\* A Suspended pass: the loop publishes it and enters waitForResume, whose
\* condition is evaluated eagerly.
Park ==
  /\ status' = "suspended"
  /\ result' = "suspended"
  /\ phase' = IF resumed THEN "woken" ELSE "parked"
  /\ frontier' = IF pc > frontier THEN pc ELSE frontier
  /\ UNCHANGED outcome

\* The body suspends: the pass is parked, or was interrupted.
Suspend ==
  IF interrupted
    THEN EndPass("interrupted") /\ UNCHANGED <<status, result, frontier>>
    ELSE Park

-----------------------------------------------------------------------------
(* Interruption.                                                           *)

\* onInterrupted: cancel every tracked scope, then interrupt the live fiber.
\* A fiber blocked in the body unwinds at once and releases its scope; one
\* running a compensation is uninterruptible; between passes there is none.
OnInterrupted ==
  IF phase \in {"activity", "take"}
    THEN /\ EndPass("interrupted")
         /\ inFlight' = {}
         /\ UNCHANGED <<memo, pc, comps, cancelled>>
    ELSE /\ cancelled' = cancelled \cup inFlight
         /\ UNCHANGED <<memo, phase, pc, outcome, comps, inFlight>>

\* The continuation of the one-shot condition(() => state.interrupted).
WatcherFires ==
  /\ watcher = "triggered"
  /\ Quiescent
  /\ watcher' = "spent"
  /\ OnInterrupted
  /\ UNCHANGED <<ambient>>

\* A Temporal cancellation reaches cancelRequested.catch.
CancelRequested ==
  /\ phase # "init"
  /\ Job("cancel")
  /\ ~cancelledFailure
  /\ cancelledFailure' = TRUE
  /\ SetInterrupted
  /\ OnInterrupted
  /\ UNCHANGED <<durable, history, body, result, watcher, closed>>

-----------------------------------------------------------------------------
(* The Temporal SDK evaluates the blocked conditions, in the order they    *)
(* were registered: the watcher's, then the loop's or a mailbox take's.    *)
TryUnblockConditions ==
  /\ Quiescent /\ phase # "init"
  /\ watcher' = IF watcher = "armed" /\ interrupted THEN "triggered" ELSE watcher
  /\ phase' = IF phase = "parked" /\ ResumeDue THEN "woken"
              ELSE IF /\ phase = "take" /\ watcher' # "triggered"
                      /\ HasMessage(body[pc].name)
                   THEN "running" ELSE phase
  /\ <<watcher', phase'>> # <<watcher, phase>>
  /\ UNCHANGED <<ambient, memo, inFlight, cancelled, pc, outcome, comps>>

-----------------------------------------------------------------------------
(* The pass loop of makeWorkflow.                                          *)

\* The run starts: the watcher's condition is evaluated eagerly (a buffered
\* interrupt has been handled by now) and the first pass begins.
StartRun ==
  /\ phase = "init"
  /\ watcher' = IF interrupted THEN "triggered" ELSE "armed"
  /\ phase' = "running"
  /\ UNCHANGED <<ambient, memo, inFlight, cancelled, pc, outcome, comps>>

\* waitForResume returns and the next pass begins.  The watcher's
\* continuation, if it is due as well, was released first and runs first.
ContinueLoop ==
  /\ phase = "woken" /\ watcher # "triggered"
  /\ resumed' = FALSE
  /\ result' = None
  /\ status' = StatusAfterWait
  /\ ResetCursors
  /\ phase' = "running" /\ pc' = 1 /\ comps' = <<>>
  /\ UNCHANGED <<durable, history, inFlight, cancelled, body, interrupted,
                 outcome, activityResults, cancelledFailure, watcher, closed,
                 jobs>>

-----------------------------------------------------------------------------
(* The operations of the body.                                             *)

Running(kinds) ==
  phase = "running" /\ pc <= Len(body) /\ body[pc].kind \in kinds

Advance == pc' = pc + 1 /\ UNCHANGED <<phase, outcome>>

\* A sleep schedules its clock, then awaits the clock's deferred.
ArmClock(op) ==
  IF op.kind = "sleep" THEN ScheduleRuntimeClock(op.name)
                       ELSE UNCHANGED <<clock>>

\* DurableDeferred.await of a completed deferred.
AwaitCompleted ==
  /\ Running({"await", "sleep"})
  /\ LET n == body[pc].name
     IN  /\ deferreds[n] # None
         /\ ArmClock(body[pc])
         /\ seen' = [seen EXCEPT ![n] = @ \cup {deferreds[n]}]
         /\ \/ deferreds[n] = "success" /\ Advance
            \/ deferreds[n] = "failure" /\ Finish("failed") /\ UNCHANGED pc
  /\ UNCHANGED <<flags, memo, body, result, cancelledFailure, watcher,
                 closed, jobs, inFlight, cancelled, deferreds, mailboxLogs,
                 comps, frontier, undone>>

\* DurableDeferred.await of a missing one suspends the pass.
AwaitSuspends ==
  /\ Running({"await", "sleep"})
  /\ deferreds[body[pc].name] = None
  /\ ArmClock(body[pc])
  /\ Suspend
  /\ UNCHANGED <<memo, inFlight, cancelled, body, interrupted, resumed,
                 deferreds, mailboxLogs, pc, comps, cancelledFailure,
                 watcher, closed, seen, undone, jobs>>

\* activityExecute of a memoized activity.
ActivityMemoized ==
  /\ Running({"activity"})
  /\ body[pc].name \in activityResults
  /\ Register(body[pc].name)
  /\ Advance
  /\ UNCHANGED <<outer, memo, inFlight, cancelled>>

\* A result memoized before it is there.
ActivityScheduledBug ==
  /\ Running({"activity"})
  /\ body[pc].name \notin activityResults
  /\ activityResults' = activityResults \cup {body[pc].name}
  /\ inFlight' = inFlight \cup {<<"body", body[pc].name>>}
  /\ phase' = "activity"
  /\ UNCHANGED <<outer, mailboxCursors, pc, outcome, comps, cancelled>>

\* activityExecute schedules the activity in a scope of its own.
ActivityScheduled ==
  /\ Running({"activity"})
  /\ body[pc].name \notin activityResults
  /\ inFlight' = inFlight \cup {<<"body", body[pc].name>>}
  /\ phase' = "activity"
  /\ UNCHANGED <<outer, memo, pc, outcome, comps, cancelled>>

\* The activity's result or failure arrives (unless the watcher's
\* continuation is ahead of it, which interrupts the fiber).  A failure that
\* arrives as a result is memoized too, but ends the last pass: activityResults
\* holds the successes, the only ones a later pass can read.
ActivityResolves ==
  /\ phase = "activity" /\ watcher # "triggered"
  /\ inFlight' = inFlight \ {<<"body", body[pc].name>>}
  /\ \/ /\ activityResults' = activityResults \cup {body[pc].name}
        /\ Register(body[pc].name)
        /\ phase' = "running" /\ pc' = pc + 1 /\ UNCHANGED outcome
     \/ Finish("failed") /\ UNCHANGED <<activityResults, comps, pc>>
  /\ UNCHANGED <<outer, cancelled, mailboxCursors>>

\* The activity itself suspended: that is no result to memoize, and the pass
\* suspends with it.
ActivitySuspends ==
  /\ phase = "activity" /\ watcher # "triggered"
  /\ inFlight' = inFlight \ {<<"body", body[pc].name>>}
  /\ Suspend
  /\ UNCHANGED <<memo, cancelled, body, interrupted, resumed, durable, pc,
                 comps, cancelledFailure, watcher, closed, seen, undone, jobs>>

\* TemporalDurableMailbox.take with a message at the cursor, and without one.
TakeMessage ==
  /\ Running({"take"})
  /\ HasMessage(body[pc].name)
  /\ mailboxCursors' = [mailboxCursors EXCEPT ![body[pc].name] = @ + 1]
  /\ Advance
  /\ UNCHANGED <<outer, inFlight, cancelled, comps, activityResults>>

TakeBlocks ==
  /\ Running({"take"})
  /\ ~HasMessage(body[pc].name)
  /\ phase' = "take"
  /\ UNCHANGED <<outer, memo, inFlight, cancelled, pc, outcome, comps>>

\* The body completes a deferred of its own run (engine.deferredDone).
LocalDeferredDone ==
  /\ Running({"complete"})
  /\ CompleteDeferred(body[pc].name, "success")
  /\ Advance
  /\ UNCHANGED <<history, memo, clock, body, result, cancelledFailure,
                 watcher, closed, jobs, inFlight, cancelled, mailboxLogs,
                 comps>>

\* The body interrupts or resumes its own run (engine.interrupt, .resume).
LocalControl ==
  /\ Running({"interrupt", "resume"})
  /\ IF body[pc].kind = "interrupt" THEN SetInterrupted ELSE SetResumed
  /\ Advance
  /\ UNCHANGED <<durable, history, memo, body, result, cancelledFailure,
                 watcher, closed, jobs, inFlight, cancelled, comps>>

\* The body returns, or raises the continue-as-new marker as a defect.
BodyEnds ==
  /\ phase = "running"
  /\ \/ pc > Len(body) /\ Finish("success")
     \/ Running({"continueAsNew"}) /\ Finish("continued")
  /\ UNCHANGED <<outer, memo, inFlight, cancelled, pc, comps>>

-----------------------------------------------------------------------------
(* A pass that completed: its finalizers, then the end of the run.         *)

\* Closing the workflow scope runs the compensations of a failed exit: also of
\* one by continue-as-new.
Compensate ==
  /\ phase = "closing" /\ outcome # "success" /\ comps # <<>>
  /\ inFlight' = inFlight \cup {<<"undo", Head(comps)>>}
  /\ phase' = "undo"
  /\ UNCHANGED <<outer, memo, pc, outcome, comps, cancelled>>

\* A compensation completes, unless its scope was cancelled, or fails; the
\* finalizers after it run all the same.
CompensationResolves ==
  /\ phase = "undo"
  /\ \/ <<"undo", Head(comps)>> \notin cancelled /\ UNCHANGED outcome
     \/ outcome' \in Replaced(outcome, "failed")
  /\ undone' = undone \cup {Head(comps)}
  /\ inFlight' = inFlight \ {<<"undo", Head(comps)>>}
  /\ comps' = Tail(comps)
  /\ phase' = "closing"
  /\ UNCHANGED <<durable, flags, memo, body, result, cancelledFailure,
                 watcher, closed, jobs, pc, cancelled, frontier, seen>>

\* An interruption that found the fiber in a compensation, which is
\* uninterruptible, stays pending and meets its exit.
FiberExits ==
  IF \E a \in Activities : <<"undo", a>> \in cancelled
    THEN Replaced(outcome, "interrupted") ELSE {outcome}

\* The loop sees a Complete result: the continue-as-new marker escapes first,
\* then a cancelled run closes as cancelled, then the exit decides.
Close ==
  /\ phase = "closing"
  /\ outcome = "success" \/ comps = <<>>
  /\ phase' = "closed"
  /\ outcome' \in FiberExits
  /\ IF outcome' = "continued"
       THEN closed' = "continued" /\ UNCHANGED <<status, result>>
       ELSE /\ status' = "completed"
            /\ result' = outcome'
            /\ closed' = Closing(outcome')
  /\ UNCHANGED <<durable, history, memo, inFlight, cancelled, body,
                 interrupted, resumed, pc, comps, cancelledFailure, watcher,
                 jobs>>

-----------------------------------------------------------------------------
Await == AwaitCompleted \/ AwaitSuspends
Activity ==
  ActivityMemoized \/ ActivityScheduled \/ ActivityResolves \/ ActivitySuspends
Take == TakeMessage \/ TakeBlocks

\* Steps of the sandbox itself, and jobs that must come.
Internal ==
  \/ StartRun \/ ContinueLoop \/ WatcherFires \/ TryUnblockConditions
  \/ Await \/ Activity \/ Take \/ LocalDeferredDone \/ LocalControl
  \/ BodyEnds \/ Compensate \/ CompensationResolves \/ Close

External ==
  \/ InterruptSignal \/ ResumeSignal \/ CancelRequested
  \/ \E n \in Deferreds, e \in Exits : CompleteDeferredSignal(n, e)
  \/ \E c \in Clocks : ScheduleClockSignal(c)
  \/ \E m \in Mailboxes : MailboxSignal(m)

Next == Internal \/ External \/ \E c \in Clocks : TimerFires(c)

Spec == Init /\ [][Next]_vars

\* Temporal runs the microtasks and conditions of an activation, activities
\* end (they have timeouts) and timers fire.  Nobody is obliged to signal.
Fairness == WF_vars(Internal) /\ \A c \in Clocks : WF_vars(TimerFires(c))
FairSpec == Spec /\ Fairness

-----------------------------------------------------------------------------
(* Properties.                                                             *)

TypeFlags ==
  /\ status \in {"running", "suspended", "completed"}
  /\ interrupted \in BOOLEAN /\ resumed \in BOOLEAN
  /\ result \in Results
  /\ cancelledFailure \in BOOLEAN
  /\ watcher \in {"unset", "armed", "triggered", "spent"}
  /\ closed \in Closings

TypeStores ==
  /\ deferreds \in [Deferreds \cup Clocks -> Exits \cup {None}]
  /\ seen \in [Deferreds \cup Clocks -> SUBSET Exits]
  /\ clocks \in SUBSET Clocks /\ timers \in SUBSET clocks
  /\ jobs \in [JobKinds -> Nat]

TypeMailboxes ==
  /\ mailboxLogs \in [Mailboxes -> Nat]
  /\ mailboxCursors \in [Mailboxes -> Nat]
  /\ \A m \in Mailboxes : mailboxCursors[m] <= mailboxLogs[m]

TypeFiber ==
  /\ body \in Bodies
  /\ phase \in Phases
  /\ pc \in 1..(Len(body) + 1)
  /\ outcome \in Outcomes
  /\ comps \in Seq(Compensated)
  /\ activityResults \in SUBSET Activities
  /\ inFlight \in SUBSET Scope /\ cancelled \in SUBSET Scope
  /\ frontier \in Nat
  /\ undone \in SUBSET Compensated

\* Type correctness, and: a pass never takes more messages than arrived.
TypeOK == TypeFlags /\ TypeStores /\ TypeMailboxes /\ TypeFiber

ParkedOn(n) ==
  /\ phase = "parked"
  /\ body[pc].kind \in {"await", "sleep"} /\ body[pc].name = n

\* No lost wake-up: a run is never left parked on a deferred that has been
\* completed without a pending resume or interrupt to wake it, in whatever
\* order completions, interrupts and resumes are handled (the handlers of
\* installBaseHandlers against waitForResume's one-shot resumed flag).
NoLostWakeup ==
  \A n \in Deferreds \cup Clocks :
    ParkedOn(n) /\ deferreds[n] # None => resumed \/ interrupted

\* A resumed pass never blocks before the point an earlier pass suspended at:
\* deferreds, memoized activities and the mailbox log take it at least there
\* ("a resumed run does not re-schedule activities that already finished").
PassesNeverRegress ==
  phase \in {"activity", "take", "parked"} => pc >= frontier

\* What a poll reads while the run waits: a blocked pass has published no
\* result and is reported suspended exactly while it is interrupted; a parked
\* run that nothing woke is reported suspended, with its result.
StatusReported ==
  /\ phase \in {"activity", "take"} =>
       result = None /\ (status = "suspended" <=> interrupted)
  /\ phase = "parked" => result = "suspended"
  /\ phase = "parked" /\ ~resumed => status = "suspended"

\* Every pass that read a deferred read the same exit.
ReadExitsAgree ==
  \A n \in Deferreds \cup Clocks : seen[n] # Exits

\* A run that fails, is interrupted, is cancelled or continues as new closes
\* only after the compensation of every completed compensated activity was run,
\* also of one that completed in an earlier pass and also when another
\* compensation failed or was cancelled.  A successful run undoes nothing.  (A
\* pass that reads another exit than an earlier one may fail before it reaches
\* the activity again.)
CompensationMatchesOutcome ==
  /\ closed # None /\ outcome # "success" /\ ReadExitsAgree
       => undone = Compensated \cap activityResults
  /\ outcome = "success" => undone = {}

\* A cancelled run never closes by what its body came to: not as a success,
\* though it was resumed after the cancellation and its body then returned, and
\* not as failed or interrupted.  (The marker of continue-as-new is thrown
\* before the loop reads the cancellation.)
CancelledNeverCompletes ==
  cancelledFailure => closed \in {None, "cancelled", "continued"}

\* A run that is interrupted when its body ends never closes as a success,
\* even if the body had nothing left to wait for.
InterruptedNeverSucceeds == closed = "success" => ~interrupted

\* A pass suspended on a deferred that is completed, or on a clock, does not
\* stay suspended: the timer of the clock fires and the loop runs a new pass.
AwaitEnds ==
  \A n \in Deferreds \cup Clocks :
    ParkedOn(n) /\ (n \in Clocks \/ deferreds[n] # None) ~> ~ParkedOn(n)

TakeFree == \A i \in DOMAIN body : body[i].kind # "take"

\* An interrupted run closes unless it is resumed first, if its body never
\* waits for a mailbox or the interrupt finds the fiber blocked while the
\* watcher has not fired yet.
InterruptedRunCloses ==
  (interrupted /\ (TakeFree \/ (phase \in {"activity", "take"} /\ watcher # "spent")))
    ~> (closed # None \/ ~interrupted)

\* "Temporal cancellations and Effect interrupts both interrupt the live
\* fiber" (README.md:30): an interrupted run closes unless it is resumed.
InterruptReachesFiber == interrupted ~> (closed # None \/ ~interrupted)

\* "cancelled runs close as Cancelled" (README.md:33), without exception.
CancelledClosesCancelled ==
  cancelledFailure => closed \in {None, "cancelled"}

\* "compensation activities scheduled after a cancellation must still be able
\* to run" (TemporalWorkflowRuntime.ts:567): the scope of a compensation is
\* not cancelled by the cancellation that led to it.
CompensationsCanRun == \A a \in Activities : <<"undo", a>> \notin cancelled

=============================================================================
