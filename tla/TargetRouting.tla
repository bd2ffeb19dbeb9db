---------------------------- MODULE TargetRouting ----------------------------
(***************************************************************************)
(* Executions that talk to each other.  An operation of a body names the   *)
(* execution it is for: the engine of makeRuntimeEngine applies it to the  *)
(* state of its own run, or sends it as a signal and waits until the       *)
(* server has taken or refused it.  Each run is the pass loop of           *)
(* WorkflowRun over bodies that only await and send; what a poll reads,    *)
(* compensations and cancellations are there.                              *)
(*                                                                         *)
(* A step is an operation of a body, a job, or the server's.  The server   *)
(* takes a signal between two tasks of its target: one that arrives during *)
(* a task is handled after it or, if the task would close the run, before  *)
(* the task is done again.                                                 *)
(***************************************************************************)
EXTENDS Naturals, Sequences

CONSTANTS
  Executions,      \* records: the name of a workflow, and an execution id
  Deferreds,
  Clocks,
  Programs,        \* the bodies of all executions, one function for each case
  MaxInterrupts,   \* bound: interrupts of clients
  MaxResumes,      \* bound: resumes of clients
  RoutingPatched   \* patched("effect-temporal/target-workflow-routing-v1")

Names == Deferreds \cup Clocks
Sent == {"complete", "clock", "interrupt", "resume"}
Op == [kind : Sent \cup {"await"}, to : Executions, name : Names]

WellNamed(op) ==
  /\ op.kind = "complete" => op.name \in Deferreds
  /\ op.kind = "clock" => op.name \in Clocks

ASSUME ExecutionsAssumption ==
  \A x, y \in Executions : x.workflow = y.workflow /\ x.id = y.id => x = y
ASSUME ProgramsAssumption ==
  \A p \in Programs : /\ p \in [Executions -> Seq(Op)]
                      /\ \A x \in Executions : \A i \in 1 .. Len(p[x]) : WellNamed(p[x][i])
ASSUME BoundsAssumption == MaxInterrupts \in Nat /\ MaxResumes \in Nat
ASSUME PatchedAssumption == RoutingPatched \in BOOLEAN

NoneYet == "none"
Phases == {"absent", "init", "running", "sending", "parked", "woken", "closed"}

VARIABLES
  body,          \* the program of each execution
  phase, pc,
  interrupted, resumed, deferreds, clocks, timers,
  watcher,       \* the one condition(() => state.interrupted) of the run
  sent,          \* the signal the execution sent last: on its way, or answered
  closed,        \* how the run closed
  controls       \* interrupts and resumes clients may still send

state == <<interrupted, resumed, deferreds, clocks, timers>>
rest  == <<body, controls>>
routingVars == <<rest, state, phase, pc, watcher, sent, closed>>

RoutingInit ==
  /\ body \in Programs
  /\ phase = [x \in Executions |-> "absent"] /\ pc = [x \in Executions |-> 1]
  /\ interrupted = [x \in Executions |-> FALSE] /\ resumed = [x \in Executions |-> FALSE]
  /\ deferreds = [x \in Executions |-> {}]
  /\ clocks = [x \in Executions |-> {}] /\ timers = [x \in Executions |-> {}]
  /\ watcher = [x \in Executions |-> "unset"]
  /\ sent = [x \in Executions |-> NoneYet]
  /\ closed = [x \in Executions |-> NoneYet]
  /\ controls = [interrupt |-> MaxInterrupts, resume |-> MaxResumes]

\* The run waits for a job or for a condition.
Quiescent(x) == phase[x] \in {"init", "sending", "parked", "woken"}

-----------------------------------------------------------------------------
(* What an operation changes in the execution it is for: the handlers of   *)
(* installBaseHandlers, and the same code in the engine of that run.       *)

SetInterrupted(x) ==
  /\ interrupted' = [interrupted EXCEPT ![x] = TRUE]
  /\ resumed' = [resumed EXCEPT ![x] = FALSE]

SetResumed(x) ==
  /\ interrupted' = [interrupted EXCEPT ![x] = FALSE]
  /\ resumed' = [resumed EXCEPT ![x] = TRUE]

\* Recorded, and the run not woken.
CompleteDeferredBug(x, n) ==
  /\ deferreds' = [deferreds EXCEPT ![x] = @ \cup {n}]
  /\ UNCHANGED <<interrupted, resumed>>

\* The run is woken only if it is not interrupted.
CompleteDeferred(x, n) ==
  /\ deferreds' = [deferreds EXCEPT ![x] = @ \cup {n}]
  /\ resumed' = [resumed EXCEPT ![x] = @ \/ ~interrupted[x]]
  /\ UNCHANGED interrupted

ScheduleRuntimeClock(x, c) ==
  /\ clocks' = [clocks EXCEPT ![x] = @ \cup {c}]
  /\ timers' = IF c \in clocks[x] THEN timers ELSE [timers EXCEPT ![x] = @ \cup {c}]

Handle(x, op) ==
  \/ op.kind = "complete" /\ CompleteDeferred(x, op.name) /\ UNCHANGED <<clocks, timers>>
  \/ op.kind = "clock" /\ ScheduleRuntimeClock(x, op.name) /\ UNCHANGED <<interrupted, resumed, deferreds>>
  \/ op.kind = "interrupt" /\ SetInterrupted(x) /\ UNCHANGED <<deferreds, clocks, timers>>
  \/ op.kind = "resume" /\ SetResumed(x) /\ UNCHANGED <<deferreds, clocks, timers>>

\* The sleep of a runtime clock ends.
TimerFires(x, c) ==
  /\ Quiescent(x) /\ phase[x] # "init" /\ c \in timers[x]
  /\ timers' = [timers EXCEPT ![x] = @ \ {c}]
  /\ CompleteDeferred(x, c)
  /\ UNCHANGED <<rest, clocks, phase, pc, watcher, sent, closed>>

-----------------------------------------------------------------------------
(* Passes.                                                                 *)

\* A pass completes as o: while the run is interrupted it is interrupted at its
\* end, which replaces a failure or joins it.
Finish(x, o) ==
  /\ phase' = [phase EXCEPT ![x] = "closed"]
  /\ \/ ~interrupted[x] /\ closed' = [closed EXCEPT ![x] = o]
     \/ interrupted[x] /\ closed' = [closed EXCEPT ![x] = "interrupted"]
     \/ interrupted[x] /\ o = "failed" /\ closed' = [closed EXCEPT ![x] = o]

Here(x) == body[x][pc[x]]
Running(x, kinds) == phase[x] = "running" /\ pc[x] <= Len(body[x]) /\ Here(x).kind \in kinds
Advance(x) == pc' = [pc EXCEPT ![x] = @ + 1]

StartRun(x) ==
  /\ phase[x] = "init"
  /\ phase' = [phase EXCEPT ![x] = "running"]
  /\ watcher' = [watcher EXCEPT ![x] = IF interrupted[x] THEN "triggered" ELSE "armed"]
  /\ UNCHANGED <<rest, state, pc, sent, closed>>

AwaitCompleted(x) ==
  /\ Running(x, {"await"}) /\ Here(x).name \in deferreds[x]
  /\ Advance(x)
  /\ UNCHANGED <<rest, state, phase, watcher, sent, closed>>

\* The pass suspends, or was interrupted; waitForResume evaluates its condition
\* at once.
AwaitSuspends(x) ==
  /\ Running(x, {"await"}) /\ Here(x).name \notin deferreds[x]
  /\ IF interrupted[x] THEN Finish(x, "interrupted")
     ELSE /\ phase' = [phase EXCEPT ![x] = IF resumed[x] THEN "woken" ELSE "parked"]
          /\ UNCHANGED closed
  /\ UNCHANGED <<rest, state, pc, watcher, sent>>

BodyEnds(x) ==
  /\ phase[x] = "running" /\ pc[x] > Len(body[x])
  /\ Finish(x, "success")
  /\ UNCHANGED <<rest, state, pc, watcher, sent>>

\* waitForResume returns: the next pass begins at the first operation.
ContinueLoop(x) ==
  /\ phase[x] = "woken" /\ watcher[x] # "triggered"
  /\ resumed' = [resumed EXCEPT ![x] = FALSE]
  /\ phase' = [phase EXCEPT ![x] = "running"] /\ pc' = [pc EXCEPT ![x] = 1]
  /\ UNCHANGED <<rest, interrupted, deferreds, clocks, timers, watcher, sent, closed>>

\* The conditions that hold: the watcher's and waitForResume's.
TryUnblockConditions(x) ==
  /\ Quiescent(x) /\ phase[x] # "init"
  /\ watcher' = [watcher EXCEPT ![x] = IF @ = "armed" /\ interrupted[x] THEN "triggered" ELSE @]
  /\ phase' = [phase EXCEPT ![x] =
       IF @ = "parked" /\ (resumed[x] \/ interrupted[x]) THEN "woken" ELSE @]
  /\ <<watcher', phase'>> # <<watcher, phase>>
  /\ UNCHANGED <<rest, state, pc, sent, closed>>

\* onInterrupted finds a fiber that waits for an answer, or none.
WatcherFires(x) ==
  /\ watcher[x] = "triggered" /\ Quiescent(x)
  /\ watcher' = [watcher EXCEPT ![x] = "spent"]
  /\ IF phase[x] = "sending"
       THEN phase' = [phase EXCEPT ![x] = "closed"] /\ closed' = [closed EXCEPT ![x] = "interrupted"]
       ELSE UNCHANGED <<phase, closed>>
  /\ UNCHANGED <<rest, state, pc, sent>>

-----------------------------------------------------------------------------
(* Routing.                                                                *)

\* Executions of one workflow taken for one.
isLocalBug(x, to) == to.workflow = x.workflow \/ ~RoutingPatched

isLocal(x, to) == (to.workflow = x.workflow /\ to.id = x.id) \/ ~RoutingPatched

\* deferredDone, scheduleClock, interrupt and resume of the run itself.
LocalOperation(x) ==
  /\ Running(x, Sent) /\ isLocal(x, Here(x).to)
  /\ Handle(x, Here(x))
  /\ Advance(x)
  /\ UNCHANGED <<rest, phase, watcher, sent, closed>>

\* The same for another execution: the fiber waits for the answer.
SignalTarget(x) ==
  /\ Running(x, Sent) /\ ~isLocal(x, Here(x).to)
  /\ phase' = [phase EXCEPT ![x] = "sending"]
  /\ sent' = [sent EXCEPT ![x] = "flying"]
  /\ UNCHANGED <<rest, state, pc, watcher, closed>>

\* The server takes the signal if its target is open.
Deliver(x) ==
  /\ sent[x] = "flying"
  /\ LET t == Here(x).to IN
     \/ /\ Quiescent(t)
        /\ Handle(t, Here(x))
        /\ sent' = [sent EXCEPT ![x] = "accepted"]
     \/ /\ phase[t] \in {"absent", "closed"}
        /\ sent' = [sent EXCEPT ![x] = "refused"]
        /\ UNCHANGED state
  /\ UNCHANGED <<rest, phase, pc, watcher, closed>>

\* The server may drop what a run that has closed had asked for.
Drop(x) ==
  /\ sent[x] = "flying" /\ phase[x] = "closed"
  /\ sent' = [sent EXCEPT ![x] = NoneYet]
  /\ UNCHANGED <<rest, state, phase, pc, watcher, closed>>

\* The pass goes on; a refusal rejects the promise, which is a defect.
Answered(x) ==
  /\ phase[x] = "sending" /\ watcher[x] # "triggered"
  /\ \/ sent[x] = "accepted" /\ phase' = [phase EXCEPT ![x] = "running"] /\ Advance(x) /\ UNCHANGED closed
     \/ sent[x] = "refused" /\ Finish(x, "failed") /\ UNCHANGED pc
  /\ sent' = [sent EXCEPT ![x] = NoneYet]
  /\ UNCHANGED <<rest, state, watcher>>

-----------------------------------------------------------------------------
(* Clients.                                                                *)

ClientStarts(x) ==
  /\ phase[x] = "absent"
  /\ phase' = [phase EXCEPT ![x] = "init"]
  /\ UNCHANGED <<rest, state, pc, watcher, sent, closed>>

ClientControls(x, control) ==
  /\ Quiescent(x) /\ controls[control] > 0
  /\ controls' = [controls EXCEPT ![control] = @ - 1]
  /\ IF control = "interrupt" THEN SetInterrupted(x) ELSE SetResumed(x)
  /\ UNCHANGED <<body, deferreds, clocks, timers, phase, pc, watcher, sent, closed>>

Pass(x) ==
  \/ StartRun(x) \/ AwaitCompleted(x) \/ AwaitSuspends(x) \/ BodyEnds(x)
  \/ ContinueLoop(x) \/ TryUnblockConditions(x) \/ WatcherFires(x)
  \/ LocalOperation(x) \/ SignalTarget(x) \/ Answered(x)

Client(x) ==
  ClientStarts(x) \/ \E control \in {"interrupt", "resume"} : ClientControls(x, control)

RoutingNext ==
  \E x \in Executions :
    Pass(x) \/ Deliver(x) \/ Drop(x) \/ Client(x) \/ \E c \in Clocks : TimerFires(x, c)

RoutingSpec == RoutingInit /\ [][RoutingNext]_routingVars

\* Tasks are done, timers fire, and the server answers a signal some time
\* between the tasks of its target, however many there are.
RoutingFairness ==
  \A x \in Executions :
    /\ WF_routingVars(Pass(x)) /\ SF_routingVars(Deliver(x))
    /\ \A c \in Clocks : WF_routingVars(TimerFires(x, c))
RoutingFairSpec == RoutingSpec /\ RoutingFairness

-----------------------------------------------------------------------------
(* Properties.                                                             *)

\* Type correctness, and: a clock that is recorded runs or has rung, and a run
\* waits for an answer exactly while it is owed one.
RoutingTypeOK ==
  /\ body \in Programs
  /\ phase \in [Executions -> Phases]
  /\ pc \in [Executions -> Nat \ {0}] /\ \A x \in Executions : pc[x] <= Len(body[x]) + 1
  /\ interrupted \in [Executions -> BOOLEAN] /\ resumed \in [Executions -> BOOLEAN]
  /\ deferreds \in [Executions -> SUBSET Names]
  /\ clocks \in [Executions -> SUBSET Clocks] /\ timers \in [Executions -> SUBSET Clocks]
  /\ watcher \in [Executions -> {"unset", "armed", "triggered", "spent"}]
  /\ sent \in [Executions -> {NoneYet, "flying", "accepted", "refused"}]
  /\ closed \in [Executions -> {NoneYet, "success", "failed", "interrupted"}]
  /\ controls \in [{"interrupt", "resume"} -> Nat]
  /\ \A x \in Executions :
       /\ clocks[x] \subseteq timers[x] \cup deferreds[x] /\ timers[x] \subseteq clocks[x]
       /\ phase[x] = "sending" => sent[x] # NoneYet
       /\ sent[x] # NoneYet => phase[x] \in {"sending", "closed"}

\* An execution was told n: somebody's operation names both.
Told(x, kind, n) ==
  \E y \in Executions : \E i \in 1 .. Len(body[y]) :
    body[y][i].kind = kind /\ body[y][i].to = x /\ body[y][i].name = n

\* What an operation leaves at its target for good.
Effective(op) ==
  /\ op.kind = "complete" => op.name \in deferreds[op.to]
  /\ op.kind = "clock" => op.name \in clocks[op.to]

\* "routes completions, controls and clocks without changing the sender"
\* (TemporalTargetRouting.test.ts:11): nothing is recorded at an execution that
\* no operation names, whatever is interrupted, refused or sent again; and a
\* run that succeeded has had every completion and clock recorded at its target.
RoutedAsNamed ==
  RoutingPatched =>
    \A x \in Executions :
      /\ \A c \in clocks[x] : Told(x, "clock", c)
      /\ \A n \in deferreds[x] : Told(x, "complete", n) \/ n \in clocks[x]
      /\ closed[x] = "success" => \A i \in 1 .. Len(body[x]) : Effective(body[x][i])

ParkedOn(x, n) ==
  phase[x] = "parked" /\ Here(x).name = n

\* A run that succeeded has completed n for the execution t.
CompletedFor(t, n) ==
  \E x \in Executions : closed[x] = "success"
    /\ \E i \in DOMAIN body[x] : body[x][i] = [kind |-> "complete", to |-> t, name |-> n]

\* Time and again no run is parked on what a run that succeeded completed for it:
\* the signal reaches the other's flag whichever of the two suspends first.  A
\* completion is for good, so that one formula stands for the leads-to of each.
CompletionsArrive ==
  []<>\A t \in Executions, n \in Deferreds : CompletedFor(t, n) => ~ParkedOn(t, n)
=============================================================================
