------------------------- MODULE TargetRoutingProofs -------------------------
(***************************************************************************)
(* Proofs about TargetRouting for any executions and bodies: type          *)
(* correctness, and that operations take effect where they are named.      *)
(***************************************************************************)
EXTENDS TargetRouting, SequenceTheorems, TLAPS

USE DEF routingVars, rest, state

\* A signal that is on its way or answered is the operation the sender is at,
\* and is for another execution.
SignalOf(x) ==
  sent[x] # NoneYet => /\ pc[x] <= Len(body[x]) /\ Here(x).kind \in Sent
                   /\ ~isLocal(x, Here(x).to)

\* What is recorded at an execution was meant for it.
MeantFor(x) ==
  /\ \A c \in clocks[x] : Told(x, "clock", c)
  /\ \A n \in deferreds[x] : Told(x, "complete", n) \/ n \in clocks[x]

\* In a pass the operations before the current one have taken effect, also if
\* an earlier pass sent them; so have one that the server accepted, and all of
\* a run that succeeded.
DoneSoFar(x) ==
  /\ phase[x] # "closed" =>
       \A i \in 1 .. Len(body[x]) : i < pc[x] => Effective(body[x][i])
  /\ sent[x] = "accepted" => Effective(Here(x))
  /\ closed[x] = "success" => \A i \in 1 .. Len(body[x]) : Effective(body[x][i])

Routed ==
  RoutingPatched => \A x \in Executions : MeantFor(x) /\ DoneSoFar(x)

IInv == RoutingTypeOK /\ (\A x \in Executions : SignalOf(x)) /\ Routed

-----------------------------------------------------------------------------
(* Operations.                                                             *)

\* What an execution is at is an operation, of a kind and with a name.
LEMMA OpHere ==
  ASSUME RoutingTypeOK, NEW x \in Executions, pc[x] <= Len(body[x])
  PROVE  /\ pc[x] \in 1 .. Len(body[x]) /\ Here(x) \in Op /\ WellNamed(Here(x))
         /\ Here(x).to \in Executions /\ Here(x) = body[x][pc[x]]
<1>1. body[x] \in Seq(Op) /\ \A i \in 1 .. Len(body[x]) : WellNamed(body[x][i])
  BY ProgramsAssumption DEF RoutingTypeOK
<1>2. pc[x] \in 1 .. Len(body[x])
  BY <1>1, LenProperties DEF RoutingTypeOK
<1>3. body[x][pc[x]] \in Op
  BY <1>1, <1>2, ElementOfSeq
<1>4. QED
  BY <1>1, <1>2, <1>3 DEF Here, Op

\* A handler keeps the types of the state it changes, and a clock that it
\* records runs.
LEMMA HandleTyped ==
  ASSUME RoutingTypeOK, NEW t \in Executions, NEW op \in Op, WellNamed(op), Handle(t, op)
  PROVE  /\ interrupted' \in [Executions -> BOOLEAN] /\ resumed' \in [Executions -> BOOLEAN]
         /\ deferreds' \in [Executions -> SUBSET Names]
         /\ clocks' \in [Executions -> SUBSET Clocks] /\ timers' \in [Executions -> SUBSET Clocks]
         /\ \A x \in Executions :
              clocks'[x] \subseteq timers'[x] \cup deferreds'[x] /\ timers'[x] \subseteq clocks'[x]
<1>1. CASE op.kind = "complete" /\ CompleteDeferred(t, op.name) /\ UNCHANGED <<clocks, timers>>
  BY <1>1 DEF RoutingTypeOK, WellNamed, Names, CompleteDeferred
<1>2. CASE op.kind = "clock" /\ ScheduleRuntimeClock(t, op.name)
                             /\ UNCHANGED <<interrupted, resumed, deferreds>>
  BY <1>2 DEF RoutingTypeOK, WellNamed, ScheduleRuntimeClock
<1>3. CASE op.kind = "interrupt" /\ SetInterrupted(t) /\ UNCHANGED <<deferreds, clocks, timers>>
  BY <1>3 DEF RoutingTypeOK, SetInterrupted
<1>4. CASE op.kind = "resume" /\ SetResumed(t) /\ UNCHANGED <<deferreds, clocks, timers>>
  BY <1>4 DEF RoutingTypeOK, SetResumed
<1>5. QED
  BY <1>1, <1>2, <1>3, <1>4 DEF Handle

\* A handler records the name of its operation, and forgets nothing.
LEMMA HandleRecords ==
  ASSUME RoutingTypeOK, NEW t \in Executions, NEW op \in Op, Handle(t, op)
  PROVE  /\ \A x \in Executions : deferreds[x] \subseteq deferreds'[x] /\ clocks[x] \subseteq clocks'[x]
         /\ \A x \in Executions : \A n \in deferreds'[x] :
              n \in deferreds[x] \/ (x = t /\ op.kind = "complete" /\ op.name = n)
         /\ \A x \in Executions : \A c \in clocks'[x] :
              c \in clocks[x] \/ (x = t /\ op.kind = "clock" /\ op.name = c)
         /\ op.kind = "complete" => op.name \in deferreds'[t]
         /\ op.kind = "clock" => op.name \in clocks'[t]
<1>1. CASE op.kind = "complete" /\ CompleteDeferred(t, op.name) /\ UNCHANGED <<clocks, timers>>
  BY <1>1 DEF RoutingTypeOK, CompleteDeferred
<1>2. CASE op.kind = "clock" /\ ScheduleRuntimeClock(t, op.name)
                             /\ UNCHANGED <<interrupted, resumed, deferreds>>
  BY <1>2 DEF RoutingTypeOK, ScheduleRuntimeClock
<1>3. CASE op.kind = "interrupt" /\ SetInterrupted(t) /\ UNCHANGED <<deferreds, clocks, timers>>
  BY <1>3
<1>4. CASE op.kind = "resume" /\ SetResumed(t) /\ UNCHANGED <<deferreds, clocks, timers>>
  BY <1>4
<1>5. QED
  BY <1>1, <1>2, <1>3, <1>4 DEF Handle

\* What has taken effect stays so.
LEMMA EffectStands ==
  ASSUME NEW op \in Op, Effective(op),
         \A x \in Executions : deferreds[x] \subseteq deferreds'[x] /\ clocks[x] \subseteq clocks'[x]
  PROVE  (op.kind = "complete" => op.name \in deferreds'[op.to])
         /\ (op.kind = "clock" => op.name \in clocks'[op.to])
<1>1. op.to \in Executions
  BY DEF Op
<1>2. QED
  BY <1>1 DEF Effective

-----------------------------------------------------------------------------
(* Type correctness.                                                       *)

\* The invariant holds initially.
LEMMA InitIInv == RoutingInit => IInv
<1> SUFFICES ASSUME RoutingInit PROVE IInv
  OBVIOUS
<1>1. \A x \in Executions : body[x] \in Seq(Op)
  BY ProgramsAssumption DEF RoutingInit
<1>2. RoutingTypeOK
  <2>1. \A x \in Executions : pc[x] <= Len(body[x]) + 1
    <3> SUFFICES ASSUME NEW x \in Executions PROVE pc[x] <= Len(body[x]) + 1
      OBVIOUS
    <3>1. Len(body[x]) \in Nat
      BY <1>1, LenProperties
    <3>2. pc[x] = 1
      BY DEF RoutingInit
    <3>3. QED
      BY <3>1, <3>2
  <2>2. QED
    BY <2>1, BoundsAssumption DEF RoutingInit, RoutingTypeOK, Phases, NoneYet
<1>3. \A x \in Executions : SignalOf(x)
  BY DEF RoutingInit, SignalOf
<1>4. Routed
  <2>1. \A x \in Executions : Len(body[x]) \in Nat /\ pc[x] = 1
    BY <1>1, LenProperties DEF RoutingInit
  <2>2. \A x \in Executions : \A i \in 1 .. Len(body[x]) : ~(i < pc[x])
    BY <2>1
  <2>3. QED
    BY <2>2 DEF RoutingInit, Routed, MeantFor, DoneSoFar, NoneYet
<1>5. QED
  BY <1>2, <1>3, <1>4 DEF IInv

\* Of a step that leaves what is recorded alone only the course of the runs is
\* to be typed.
LEMMA ControlTyped ==
  ASSUME RoutingTypeOK, UNCHANGED <<body, state>>,
         phase' \in [Executions -> Phases],
         pc' \in [Executions -> Nat \ {0}], \A x \in Executions : pc'[x] <= Len(body[x]) + 1,
         watcher' \in [Executions -> {"unset", "armed", "triggered", "spent"}],
         sent' \in [Executions -> {NoneYet, "flying", "accepted", "refused"}],
         closed' \in [Executions -> {NoneYet, "success", "failed", "interrupted"}],
         controls' \in [{"interrupt", "resume"} -> Nat],
         \A x \in Executions : /\ phase'[x] = "sending" => sent'[x] # NoneYet
                               /\ sent'[x] # NoneYet => phase'[x] \in {"sending", "closed"}
  PROVE  RoutingTypeOK'
BY DEF RoutingTypeOK

\* A pass and the jobs of a run.
LEMMA PassTyped ==
  ASSUME IInv, NEW x \in Executions, Pass(x)
  PROVE  RoutingTypeOK' /\ \A y \in Executions : SignalOf(y)'
<1> USE DEF IInv
<1>1. \A y \in Executions : body[y] \in Seq(Op) /\ Len(body[y]) \in Nat
  BY ProgramsAssumption, LenProperties DEF RoutingTypeOK
<1>2. CASE StartRun(x)
  BY <1>2 DEF StartRun, RoutingTypeOK, SignalOf, Here, Phases
<1>3. CASE AwaitCompleted(x)
  <2>1. pc' \in [Executions -> Nat \ {0}] /\ \A y \in Executions : pc'[y] <= Len(body[y]) + 1
    BY <1>1, <1>3 DEF AwaitCompleted, Running, Advance, RoutingTypeOK
  <2>2. RoutingTypeOK'
    BY <1>3, <2>1, ControlTyped DEF AwaitCompleted, RoutingTypeOK
  <2>3. sent[x] = NoneYet /\ \A y \in Executions : y # x => pc'[y] = pc[y]
    BY <1>3 DEF AwaitCompleted, Running, Advance, RoutingTypeOK
  <2>4. \A y \in Executions : SignalOf(y)'
    BY <1>3, <2>3 DEF AwaitCompleted, SignalOf, Here, isLocal
  <2>5. QED
    BY <2>2, <2>4
<1>4. CASE AwaitSuspends(x)
  <2>1. /\ phase' \in [Executions -> Phases]
        /\ closed' \in [Executions -> {NoneYet, "success", "failed", "interrupted"}]
    BY <1>4 DEF AwaitSuspends, Finish, RoutingTypeOK, Phases
  <2>2. phase[x] = "running" /\ \A y \in Executions : y # x => phase'[y] = phase[y]
    BY <1>4 DEF AwaitSuspends, Running, Finish, RoutingTypeOK
  <2>3. phase'[x] # "sending" /\ sent[x] = NoneYet
    BY <1>4, <2>2 DEF AwaitSuspends, Finish, RoutingTypeOK
  <2>4. RoutingTypeOK'
    BY <1>4, <2>1, <2>2, <2>3, ControlTyped DEF AwaitSuspends, RoutingTypeOK
  <2>5. \A y \in Executions : SignalOf(y)'
    BY <1>4 DEF AwaitSuspends, SignalOf, Here, isLocal
  <2>6. QED
    BY <2>4, <2>5
<1>5. CASE BodyEnds(x)
  BY <1>1, <1>5 DEF BodyEnds, RoutingTypeOK, SignalOf, Here, Finish, Phases
<1>6. CASE ContinueLoop(x)
  BY <1>1, <1>6 DEF ContinueLoop, RoutingTypeOK, SignalOf, Here, Phases
<1>7. CASE TryUnblockConditions(x)
  BY <1>7 DEF TryUnblockConditions, RoutingTypeOK, SignalOf, Here, Phases
<1>8. CASE WatcherFires(x)
  BY <1>8 DEF WatcherFires, RoutingTypeOK, SignalOf, Here, Phases
<1>9. CASE LocalOperation(x)
  <2>1. pc[x] <= Len(body[x]) /\ Here(x) \in Op /\ WellNamed(Here(x)) /\ pc[x] \in 1 .. Len(body[x])
    BY <1>9, OpHere DEF LocalOperation, Running
  <2>2. Handle(x, Here(x))
    BY <1>9 DEF LocalOperation
  <2>3. phase[x] = "running" /\ sent[x] = NoneYet
    BY <1>9 DEF LocalOperation, Running, RoutingTypeOK
  <2>4. pc' \in [Executions -> Nat \ {0}] /\ \A y \in Executions : pc'[y] <= Len(body[y]) + 1
    BY <1>1, <1>9, <2>1 DEF LocalOperation, Advance, RoutingTypeOK
  <2>5. RoutingTypeOK'
    BY <1>9, <2>1, <2>2, <2>4, HandleTyped DEF LocalOperation, RoutingTypeOK
  <2>6. \A y \in Executions : SignalOf(y)'
    BY <1>9, <2>3 DEF LocalOperation, Advance, SignalOf, Here, isLocal, RoutingTypeOK
  <2>7. QED
    BY <2>5, <2>6
<1>10. CASE SignalTarget(x)
  <2>1. /\ phase' \in [Executions -> Phases] /\ sent' \in [Executions -> {NoneYet, "flying", "accepted", "refused"}]
        /\ phase'[x] = "sending" /\ sent'[x] = "flying"
        /\ \A y \in Executions : y # x => phase'[y] = phase[y] /\ sent'[y] = sent[y]
    BY <1>10 DEF SignalTarget, RoutingTypeOK, Phases
  <2>2. RoutingTypeOK'
    BY <1>10, <2>1, ControlTyped DEF SignalTarget, RoutingTypeOK, NoneYet
  <2>3. \A y \in Executions : SignalOf(y)'
    BY <1>10, <2>1 DEF SignalTarget, Running, SignalOf, Here, isLocal
  <2>4. QED
    BY <2>2, <2>3
<1>11. CASE Answered(x)
  <2>1. pc[x] <= Len(body[x]) /\ phase[x] = "sending"
    BY <1>11 DEF Answered, SignalOf, NoneYet
  <2>2. CASE sent[x] = "accepted" /\ phase' = [phase EXCEPT ![x] = "running"] /\ Advance(x) /\ UNCHANGED closed
    <3>1. pc' \in [Executions -> Nat \ {0}] /\ \A y \in Executions : pc'[y] <= Len(body[y]) + 1
      BY <1>1, <2>1, <2>2, <1>11 DEF Advance, RoutingTypeOK, Answered
    <3>2. /\ phase' \in [Executions -> Phases] /\ phase'[x] = "running"
          /\ sent' \in [Executions -> {NoneYet, "flying", "accepted", "refused"}] /\ sent'[x] = NoneYet
          /\ \A y \in Executions : y # x => phase'[y] = phase[y] /\ sent'[y] = sent[y] /\ pc'[y] = pc[y]
      BY <1>11, <2>2 DEF Answered, Advance, RoutingTypeOK, Phases
    <3>3. RoutingTypeOK'
      BY <1>11, <2>2, <3>1, <3>2, ControlTyped DEF Answered, RoutingTypeOK
    <3>4. \A y \in Executions : SignalOf(y)'
      BY <1>11, <3>2 DEF Answered, SignalOf, Here, isLocal
    <3>5. QED
      BY <3>3, <3>4
  <2>3. CASE sent[x] = "refused" /\ Finish(x, "failed") /\ UNCHANGED pc
    BY <1>1, <1>11, <2>1, <2>3 DEF Answered, Finish, RoutingTypeOK, SignalOf, Here, Phases, isLocal
  <2>4. QED
    BY <1>11, <2>2, <2>3 DEF Answered
<1>12. QED
  BY <1>2, <1>3, <1>4, <1>5, <1>6, <1>7, <1>8, <1>9, <1>10, <1>11 DEF Pass

\* The server, the clients and the timers.
LEMMA OutsideTyped ==
  ASSUME IInv, NEW x \in Executions,
         Deliver(x) \/ Drop(x) \/ Client(x) \/ \E c \in Clocks : TimerFires(x, c)
  PROVE  RoutingTypeOK' /\ \A y \in Executions : SignalOf(y)'
<1> USE DEF IInv
<1>1. CASE Deliver(x)
  <2>1. pc[x] <= Len(body[x])
    BY <1>1 DEF Deliver, SignalOf, NoneYet
  <2>2. /\ Here(x) \in Op /\ WellNamed(Here(x)) /\ Here(x).to \in Executions
        /\ pc[x] \in 1 .. Len(body[x])
    BY <2>1, OpHere
  <2>3. /\ sent' \in [Executions -> {NoneYet, "flying", "accepted", "refused"}]
        /\ \A y \in Executions : sent'[y] # NoneYet <=> sent[y] # NoneYet
    BY <1>1 DEF Deliver, RoutingTypeOK, NoneYet
  <2>4. CASE Handle(Here(x).to, Here(x))
    <3>1. RoutingTypeOK'
      <4>1. /\ interrupted' \in [Executions -> BOOLEAN] /\ resumed' \in [Executions -> BOOLEAN]
            /\ deferreds' \in [Executions -> SUBSET Names]
            /\ clocks' \in [Executions -> SUBSET Clocks] /\ timers' \in [Executions -> SUBSET Clocks]
            /\ \A y \in Executions :
                 clocks'[y] \subseteq timers'[y] \cup deferreds'[y] /\ timers'[y] \subseteq clocks'[y]
        BY <2>2, <2>4, HandleTyped
      <4>2. UNCHANGED <<body, controls, phase, pc, watcher, closed>>
        BY <1>1 DEF Deliver
      <4>3. \A y \in Executions : /\ phase'[y] = "sending" => sent'[y] # NoneYet
                                  /\ sent'[y] # NoneYet => phase'[y] \in {"sending", "closed"}
        <5>1. \A y \in Executions : /\ phase[y] = "sending" => sent[y] # NoneYet
                                    /\ sent[y] # NoneYet => phase[y] \in {"sending", "closed"}
          BY DEF RoutingTypeOK
        <5>2. QED
          BY <2>3, <4>2, <5>1
      <4>4. QED
        BY <2>3, <4>1, <4>2, <4>3 DEF RoutingTypeOK
    <3>2. QED
      BY <1>1, <2>3, <3>1 DEF Deliver, SignalOf, Here, isLocal
  <2>5. CASE UNCHANGED state
    <3>1. UNCHANGED <<body, controls, phase, pc, watcher, closed>>
      BY <1>1 DEF Deliver
    <3>2. \A y \in Executions : /\ phase'[y] = "sending" => sent'[y] # NoneYet
                                /\ sent'[y] # NoneYet => phase'[y] \in {"sending", "closed"}
      <4>1. \A y \in Executions : /\ phase[y] = "sending" => sent[y] # NoneYet
                                  /\ sent[y] # NoneYet => phase[y] \in {"sending", "closed"}
        BY DEF RoutingTypeOK
      <4>2. QED
        BY <2>3, <3>1, <4>1
    <3>3. RoutingTypeOK'
      BY <2>3, <2>5, <3>1, <3>2, ControlTyped DEF RoutingTypeOK
    <3>4. \A y \in Executions : SignalOf(y)'
      BY <2>3, <3>1 DEF SignalOf, Here, isLocal
    <3>5. QED
      BY <3>3, <3>4
  <2>6. QED
    BY <1>1, <2>4, <2>5 DEF Deliver
<1>2. CASE Drop(x)
  BY <1>2 DEF Drop, RoutingTypeOK, SignalOf, Here, isLocal, NoneYet
<1>3. CASE ClientStarts(x)
  BY <1>3 DEF ClientStarts, RoutingTypeOK, SignalOf, Here, Phases, isLocal
<1>4. ASSUME NEW control \in {"interrupt", "resume"}, ClientControls(x, control)
      PROVE  RoutingTypeOK' /\ \A y \in Executions : SignalOf(y)'
  <2>1. controls' \in [{"interrupt", "resume"} -> Nat]
    BY <1>4 DEF ClientControls, RoutingTypeOK
  <2>2. interrupted' \in [Executions -> BOOLEAN] /\ resumed' \in [Executions -> BOOLEAN]
    BY <1>4 DEF ClientControls, RoutingTypeOK, SetInterrupted, SetResumed
  <2>3. QED
    BY <1>4, <2>1, <2>2 DEF ClientControls, RoutingTypeOK, SignalOf, Here, isLocal
<1>5. ASSUME NEW c \in Clocks, TimerFires(x, c)
      PROVE  RoutingTypeOK' /\ \A y \in Executions : SignalOf(y)'
  BY <1>5 DEF TimerFires, CompleteDeferred, RoutingTypeOK, SignalOf, Here, isLocal, Names
<1>6. QED
  BY <1>1, <1>2, <1>3, <1>4, <1>5 DEF Client

-----------------------------------------------------------------------------
(* Effects.                                                                *)

\* What is recorded has been told: by an operation that is handled here.
LEMMA MeantStays ==
  ASSUME IInv, RoutingPatched, UNCHANGED body, NEW y \in Executions,
         \A c \in clocks'[y] : c \in clocks[y] \/ Told(y, "clock", c),
         clocks[y] \subseteq clocks'[y],
         \A n \in deferreds'[y] : n \in deferreds[y] \/ Told(y, "complete", n) \/ n \in clocks'[y]
  PROVE  MeantFor(y)'
<1>1. MeantFor(y)
  BY DEF IInv, Routed
<1>2. \A k, n : Told(y, k, n) => Told(y, k, n)'
  BY DEF Told
<1>3. QED
  BY <1>1, <1>2 DEF MeantFor

\* Effects stand while the others' passes go on.
LEMMA DoneStays ==
  ASSUME IInv, RoutingPatched, UNCHANGED body, NEW y \in Executions,
         \A x \in Executions : deferreds[x] \subseteq deferreds'[x] /\ clocks[x] \subseteq clocks'[x],
         phase'[y] # "closed" =>
           \A i \in 1 .. Len(body[y]) : i < pc'[y] => Effective(body[y][i]) \/ Effective(body[y][i])',
         sent'[y] = "accepted" => pc'[y] = pc[y] /\ (sent[y] = "accepted" \/ Effective(Here(y))'),
         closed'[y] = "success" => closed[y] = "success"
           \/ \A i \in 1 .. Len(body[y]) : Effective(body[y][i])
  PROVE  DoneSoFar(y)'
<1>1. DoneSoFar(y) /\ SignalOf(y) /\ RoutingTypeOK
  BY DEF IInv, Routed
<1>2. body[y] \in Seq(Op)
  BY <1>1, ProgramsAssumption DEF RoutingTypeOK
<1>3. \A i \in 1 .. Len(body[y]) : Effective(body[y][i]) => Effective(body[y][i])'
  <2> SUFFICES ASSUME NEW i \in 1 .. Len(body[y]), Effective(body[y][i])
               PROVE  Effective(body[y][i])'
    OBVIOUS
  <2>1. body[y][i] \in Op
    BY <1>2, ElementOfSeq
  <2>2. QED
    BY <2>1, EffectStands DEF Effective
<1>4. sent'[y] = "accepted" => Effective(Here(y))'
  <2> SUFFICES ASSUME sent'[y] = "accepted", sent[y] = "accepted"
               PROVE  Effective(Here(y))'
    OBVIOUS
  <2>1. pc[y] \in 1 .. Len(body[y]) /\ Here(y) = body[y][pc[y]] /\ Effective(Here(y))
    BY <1>1, OpHere DEF SignalOf, DoneSoFar, NoneYet
  <2>2. QED
    BY <1>3, <2>1 DEF Here
<1>5. QED
  BY <1>1, <1>3, <1>4 DEF DoneSoFar

\* A step that leaves what is recorded alone.
LEMMA QuietRouted ==
  ASSUME IInv, RoutingPatched, UNCHANGED <<body, deferreds, clocks>>, NEW y \in Executions,
         phase'[y] # "closed" =>
           \A i \in 1 .. Len(body[y]) : i < pc'[y] => Effective(body[y][i]),
         sent'[y] = "accepted" => pc'[y] = pc[y] /\ sent[y] = "accepted",
         closed'[y] = "success" => closed[y] = "success"
           \/ \A i \in 1 .. Len(body[y]) : Effective(body[y][i])
  PROVE  MeantFor(y)' /\ DoneSoFar(y)'
<1>1. MeantFor(y)'
  BY MeantStays
<1>2. DoneSoFar(y)'
  BY DoneStays
<1>3. QED
  BY <1>1, <1>2

\* What one run's pass did, in the words of the lemmas above.
LEMMA PassRouted ==
  ASSUME IInv, RoutingPatched, NEW x \in Executions, Pass(x), NEW y \in Executions
  PROVE  MeantFor(y)' /\ DoneSoFar(y)'
<1>1. RoutingTypeOK /\ SignalOf(x) /\ DoneSoFar(x) /\ DoneSoFar(y) /\ UNCHANGED body
  BY DEF IInv, Routed, Pass, StartRun, AwaitCompleted, AwaitSuspends, BodyEnds, ContinueLoop,
         TryUnblockConditions, WatcherFires, LocalOperation, SignalTarget, Answered
<1>2. body[x] \in Seq(Op) /\ Len(body[x]) \in Nat /\ pc[x] \in Nat \ {0} /\ pc[y] \in Nat \ {0}
  BY <1>1, ProgramsAssumption, LenProperties DEF RoutingTypeOK
<1>3. CASE StartRun(x)
  BY <1>1, <1>2, <1>3, QuietRouted DEF StartRun, RoutingTypeOK, DoneSoFar
<1>4. CASE AwaitCompleted(x)
  <2>1. Here(x) = body[x][pc[x]] /\ Effective(Here(x))
    BY <1>4 DEF AwaitCompleted, Running, Here, Effective
  <2>2. /\ phase[x] = "running" /\ sent[x] = NoneYet /\ UNCHANGED <<body, deferreds, clocks, phase, sent, closed>>
        /\ pc'[x] = pc[x] + 1 /\ (y # x => pc'[y] = pc[y])
    BY <1>1, <1>4 DEF AwaitCompleted, Running, Advance, RoutingTypeOK
  <2>3. phase'[y] # "closed" => \A i \in 1 .. Len(body[y]) : i < pc'[y] => Effective(body[y][i])
    BY <1>1, <1>2, <2>1, <2>2 DEF DoneSoFar
  <2>4. QED
    BY <2>2, <2>3, QuietRouted DEF NoneYet
<1>5. CASE AwaitSuspends(x)
  <2>1. closed'[y] = "success" => closed[y] = "success"
    BY <1>1, <1>5 DEF AwaitSuspends, Finish, RoutingTypeOK
  <2>2. phase'[y] # "closed" => phase[y] # "closed"
    BY <1>1, <1>5 DEF AwaitSuspends, Running, Finish, RoutingTypeOK
  <2>3. QED
    BY <1>1, <1>5, <2>1, <2>2, QuietRouted DEF AwaitSuspends, DoneSoFar
<1>6. CASE BodyEnds(x)
  <2>1. \A i \in 1 .. Len(body[x]) : Effective(body[x][i])
    BY <1>1, <1>2, <1>6 DEF BodyEnds, DoneSoFar
  <2>2. QED
    BY <1>1, <1>2, <1>6, <2>1, QuietRouted DEF BodyEnds, Finish, RoutingTypeOK, DoneSoFar
<1>7. CASE ContinueLoop(x)
  <2>1. phase[x] = "woken" /\ sent[x] = NoneYet /\ UNCHANGED <<body, deferreds, clocks, sent, closed>>
    BY <1>1, <1>7 DEF ContinueLoop, RoutingTypeOK
  <2>2. pc'[x] = 1 /\ (y # x => pc'[y] = pc[y] /\ phase'[y] = phase[y])
    BY <1>1, <1>7 DEF ContinueLoop, RoutingTypeOK
  <2>3. phase'[y] # "closed" => \A i \in 1 .. Len(body[y]) : i < pc'[y] => Effective(body[y][i])
    BY <1>1, <1>2, <2>2 DEF DoneSoFar
  <2>4. QED
    BY <2>1, <2>2, <2>3, QuietRouted DEF NoneYet
<1>8. CASE TryUnblockConditions(x)
  BY <1>1, <1>2, <1>8, QuietRouted DEF TryUnblockConditions, RoutingTypeOK, DoneSoFar
<1>9. CASE WatcherFires(x)
  BY <1>1, <1>2, <1>9, QuietRouted DEF WatcherFires, RoutingTypeOK, DoneSoFar
<1>10. CASE LocalOperation(x)
  <2>1. pc[x] <= Len(body[x]) /\ phase[x] = "running" /\ sent[x] = NoneYet
    BY <1>1, <1>10 DEF LocalOperation, Running, RoutingTypeOK
  <2>2. /\ pc[x] \in 1 .. Len(body[x]) /\ Here(x) \in Op /\ Here(x) = body[x][pc[x]]
        /\ Here(x).to = x /\ Handle(x, Here(x))
    BY <1>1, <1>10, <2>1, OpHere, ExecutionsAssumption DEF LocalOperation, isLocal
  <2>3. \A k, n : Here(x).kind = k /\ Here(x).name = n => Told(x, k, n)
    BY <2>2 DEF Told
  <2>4. \A z \in Executions : deferreds[z] \subseteq deferreds'[z] /\ clocks[z] \subseteq clocks'[z]
    BY <1>1, <2>2, HandleRecords
  <2>5. MeantFor(y)'
    <3>1. \A c \in clocks'[y] : c \in clocks[y] \/ Told(y, "clock", c)
      BY <1>1, <2>2, <2>3, HandleRecords
    <3>2. \A n \in deferreds'[y] : n \in deferreds[y] \/ Told(y, "complete", n) \/ n \in clocks'[y]
      BY <1>1, <2>2, <2>3, HandleRecords
    <3>3. QED
      BY <1>1, <2>4, <3>1, <3>2, MeantStays
  <2>6. \A i \in 1 .. Len(body[x]) : i = pc[x] => Effective(body[x][i])'
    BY <1>1, <2>2, HandleRecords DEF Effective
  <2>7. DoneSoFar(y)'
    <3>1. /\ pc'[x] = pc[x] + 1 /\ (y # x => pc'[y] = pc[y])
          /\ UNCHANGED <<phase, sent, closed>>
      BY <1>1, <1>10 DEF LocalOperation, Advance, RoutingTypeOK
    <3>2. phase'[y] # "closed" =>
            \A i \in 1 .. Len(body[y]) : i < pc'[y] => Effective(body[y][i]) \/ Effective(body[y][i])'
      <4>1. CASE y = x
        BY <1>1, <1>2, <2>1, <2>6, <3>1, <4>1 DEF DoneSoFar
      <4>2. CASE y # x
        BY <1>1, <3>1, <4>2 DEF DoneSoFar
      <4>3. QED
        BY <4>1, <4>2
    <3>3. QED
      BY <1>1, <2>1, <2>4, <3>1, <3>2, DoneStays DEF NoneYet
  <2>8. QED
    BY <2>5, <2>7
<1>11. CASE SignalTarget(x)
  BY <1>1, <1>2, <1>11, QuietRouted DEF SignalTarget, Running, RoutingTypeOK, DoneSoFar
<1>12. CASE Answered(x)
  <2>1. phase[x] = "sending" /\ pc[x] <= Len(body[x]) /\ Here(x) = body[x][pc[x]]
    BY <1>1, <1>12 DEF Answered, SignalOf, Here, NoneYet
  <2>2. sent[x] = "accepted" => Effective(body[x][pc[x]])
    BY <1>1, <2>1 DEF DoneSoFar
  <2>3. sent'[x] # "accepted"
    BY <1>1, <1>12 DEF Answered, RoutingTypeOK, NoneYet
  <2>4. CASE sent[x] = "accepted" /\ phase' = [phase EXCEPT ![x] = "running"] /\ Advance(x) /\ UNCHANGED closed
    <3>1. pc'[x] = pc[x] + 1 /\ (y # x => pc'[y] = pc[y] /\ sent'[y] = sent[y] /\ phase'[y] = phase[y])
      BY <1>1, <1>12, <2>4 DEF Answered, Advance, RoutingTypeOK
    <3>2. phase'[y] # "closed" => \A i \in 1 .. Len(body[y]) : i < pc'[y] => Effective(body[y][i])
      BY <1>1, <1>2, <2>1, <2>2, <2>4, <3>1 DEF DoneSoFar
    <3>3. QED
      BY <1>12, <2>3, <2>4, <3>1, <3>2, QuietRouted DEF Answered
  <2>5. CASE sent[x] = "refused" /\ Finish(x, "failed") /\ UNCHANGED pc
    <3>1. closed'[y] = "success" => closed[y] = "success"
      BY <1>1, <2>5 DEF Finish, RoutingTypeOK
    <3>2. phase'[y] # "closed" => phase[y] # "closed"
      BY <1>1, <2>5 DEF Finish, RoutingTypeOK
    <3>3. y # x => sent'[y] = sent[y]
      BY <1>1, <1>12 DEF Answered, RoutingTypeOK
    <3>4. QED
      BY <1>1, <1>12, <2>3, <2>5, <3>1, <3>2, <3>3, QuietRouted DEF Answered, DoneSoFar
  <2>6. QED
    BY <1>12, <2>4, <2>5 DEF Answered
<1>13. QED
  BY <1>3, <1>4, <1>5, <1>6, <1>7, <1>8, <1>9, <1>10, <1>11, <1>12 DEF Pass

\* A delivered signal is recorded at its target.
LEMMA OutsideRouted ==
  ASSUME IInv, RoutingPatched, NEW x \in Executions, NEW y \in Executions,
         Deliver(x) \/ Drop(x) \/ Client(x) \/ \E c \in Clocks : TimerFires(x, c)
  PROVE  MeantFor(y)' /\ DoneSoFar(y)'
<1>1. RoutingTypeOK /\ SignalOf(x) /\ DoneSoFar(y) /\ MeantFor(y)
  BY DEF IInv, Routed
<1>2. CASE Deliver(x)
  <2>1. pc[x] <= Len(body[x]) /\ UNCHANGED <<body, phase, pc, closed>>
    BY <1>1, <1>2 DEF Deliver, SignalOf, NoneYet
  <2>2. /\ pc[x] \in 1 .. Len(body[x]) /\ Here(x) \in Op /\ Here(x) = body[x][pc[x]]
        /\ Here(x).to \in Executions
    BY <1>1, <2>1, OpHere
  <2>3. CASE Handle(Here(x).to, Here(x)) /\ sent' = [sent EXCEPT ![x] = "accepted"]
    <3>1. \A k, n : Here(x).kind = k /\ Here(x).name = n => Told(Here(x).to, k, n)
      BY <2>2 DEF Told
    <3>2. \A z \in Executions : deferreds[z] \subseteq deferreds'[z] /\ clocks[z] \subseteq clocks'[z]
      BY <1>1, <2>2, <2>3, HandleRecords
    <3>3. MeantFor(y)'
      <4>1. \A c \in clocks'[y] : c \in clocks[y] \/ Told(y, "clock", c)
        BY <1>1, <2>2, <2>3, <3>1, HandleRecords
      <4>2. \A n \in deferreds'[y] : n \in deferreds[y] \/ Told(y, "complete", n) \/ n \in clocks'[y]
        BY <1>1, <2>2, <2>3, <3>1, HandleRecords
      <4>3. QED
        BY <2>1, <3>2, <4>1, <4>2, MeantStays
    <3>4. Effective(Here(x))'
      BY <1>1, <2>1, <2>2, <2>3, HandleRecords DEF Effective, Here
    <3>5. DoneSoFar(y)'
      BY <1>1, <2>1, <2>3, <3>2, <3>4, DoneStays DEF RoutingTypeOK, DoneSoFar
    <3>6. QED
      BY <3>3, <3>5
  <2>4. CASE UNCHANGED state /\ sent' = [sent EXCEPT ![x] = "refused"]
    BY <1>1, <2>1, <2>4, QuietRouted DEF RoutingTypeOK, DoneSoFar
  <2>5. QED
    BY <1>2, <2>3, <2>4 DEF Deliver
<1>3. CASE Drop(x)
  BY <1>1, <1>3, QuietRouted DEF Drop, RoutingTypeOK, DoneSoFar, NoneYet
<1>4. CASE ClientStarts(x)
  BY <1>1, <1>4, QuietRouted DEF ClientStarts, RoutingTypeOK, DoneSoFar
<1>5. ASSUME NEW control \in {"interrupt", "resume"}, ClientControls(x, control)
      PROVE  MeantFor(y)' /\ DoneSoFar(y)'
  BY <1>1, <1>5, QuietRouted DEF ClientControls, RoutingTypeOK, DoneSoFar
<1>6. ASSUME NEW c \in Clocks, TimerFires(x, c)
      PROVE  MeantFor(y)' /\ DoneSoFar(y)'
  <2>1. c \in clocks[x] /\ UNCHANGED <<body, clocks, phase, pc, sent, closed>>
    BY <1>1, <1>6 DEF TimerFires, RoutingTypeOK
  <2>2. /\ \A z \in Executions : deferreds[z] \subseteq deferreds'[z]
        /\ \A n \in deferreds'[y] : n \in deferreds[y] \/ n \in clocks[y]
    BY <1>1, <1>6, <2>1 DEF TimerFires, CompleteDeferred, RoutingTypeOK
  <2>3. MeantFor(y)'
    BY <2>1, <2>2, MeantStays
  <2>4. DoneSoFar(y)'
    BY <1>1, <2>1, <2>2, DoneStays DEF DoneSoFar
  <2>5. QED
    BY <2>3, <2>4
<1>7. QED
  BY <1>2, <1>3, <1>4, <1>5, <1>6 DEF Client

-----------------------------------------------------------------------------
\* The invariant is inductive.
LEMMA NextIInv == IInv /\ [RoutingNext]_routingVars => IInv'
<1> SUFFICES ASSUME IInv, [RoutingNext]_routingVars PROVE IInv'
  OBVIOUS
<1>1. CASE UNCHANGED routingVars
  BY <1>1 DEF IInv, RoutingTypeOK, SignalOf, Here, isLocal, Routed, MeantFor, DoneSoFar, Told, Effective
<1>2. CASE RoutingNext
  <2>1. PICK x \in Executions :
          Pass(x) \/ Deliver(x) \/ Drop(x) \/ Client(x) \/ \E c \in Clocks : TimerFires(x, c)
    BY <1>2 DEF RoutingNext
  <2>2. RoutingTypeOK' /\ \A y \in Executions : SignalOf(y)'
    BY <2>1, PassTyped, OutsideTyped
  <2>3. Routed'
    BY <2>1, PassRouted, OutsideRouted DEF Routed
  <2>4. QED
    BY <2>2, <2>3 DEF IInv
<1>3. QED
  BY <1>1, <1>2

\* Type correctness of TargetRouting; a recorded clock runs or has rung, and a
\* run waits for an answer only while it is owed one.
THEOREM RoutingTypeCorrect == RoutingSpec => []RoutingTypeOK
<1>1. IInv => RoutingTypeOK
  BY DEF IInv
<1>2. QED
  BY <1>1, InitIInv, NextIInv, PTL DEF RoutingSpec

\* Whatever is interrupted, refused or sent again, nothing is recorded where no
\* operation names it, and a run succeeds only if its completions and clocks are
\* recorded at their targets.
THEOREM OperationsAreRouted == RoutingSpec => []RoutedAsNamed
<1>1. IInv => RoutedAsNamed
  BY DEF IInv, Routed, MeantFor, DoneSoFar, RoutedAsNamed
<1>2. QED
  BY <1>1, InitIInv, NextIInv, PTL DEF RoutingSpec
=============================================================================
