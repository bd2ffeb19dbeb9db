------------------------ MODULE WorkflowEngineProofs ------------------------
(***************************************************************************)
(* Proofs about WorkflowEngine for every set of callers, whatever they     *)
(* call, every set of outcomes and every bound: type correctness, and that *)
(* it implements ExecutionSpec.                                            *)
(***************************************************************************)
EXTENDS WorkflowEngine, SequenceTheorems, TLAPS

USE DEF clientVars, vars

\* A call has no answer before it ends.
AnswersFresh == \A c \in Callers : phase[c] # "idle" => answer[c] = None

IInv == TypeOK /\ AnswersFresh

\* The invariant holds initially.
LEMMA InitIInv == Init => IInv
<1> SUFFICES ASSUME Init PROVE IInv
  OBVIOUS
<1>1. TypeChains
  BY DEF Init, TypeChains
<1>2. TypeCallers
  BY BoundsAssumption DEF Init, TypeCallers, Phases, NoRun
<1>3. QED
  BY <1>1, <1>2 DEF Init, IInv, TypeOK, AnswersFresh, Latest

-----------------------------------------------------------------------------
(* The chains.                                                             *)

\* There is a latest chain, and it is one.
LEMMA LatestIsChain ==
  ASSUME TypeChains
  PROVE  /\ Latest \in Nat /\ DOMAIN chains = 1..Latest
         /\ \A i \in 1..Latest : chains[i] \in Chain
         /\ Exists => Latest \in 1..Latest
BY LenProperties, ElementOfSeq, EmptySeq DEF TypeChains, Latest, Exists

\* A step of the server or of a starter, seen from the chains there were.
ChainsGrow ==
  /\ Latest' \in Nat /\ Latest' >= Latest
  /\ \A i \in 1..Latest : chains'[i].run >= chains[i].run

\* A new chain is open, and leaves the others as they are.
LEMMA OpenedChain ==
  ASSUME TypeChains, ~IsOpen, NEW by \in {"engine", "other"}, OpenChain(by)
  PROVE  /\ TypeChains' /\ Latest' = Latest + 1
         /\ chains'[Latest + 1] = [by |-> by, run |-> 1, outcome |-> None]
         /\ \A i \in 1..Latest : chains'[i] = chains[i]
         /\ ChainsGrow
<1> DEFINE new == [by |-> by, run |-> 1, outcome |-> None]
<1>1. new \in Chain /\ chains \in Seq(Chain) /\ chains' = Append(chains, new)
  BY DEF TypeChains, OpenChain, Chain
<1>2. /\ chains' \in Seq(Chain) /\ Latest' = Latest + 1 /\ chains'[Latest + 1] = new
      /\ \A i \in 1..Latest : chains'[i] = chains[i]
  BY <1>1, AppendProperties DEF Latest
<1>3. \A i \in 1..Latest : chains[i].outcome # None
  BY LatestIsChain DEF TypeChains, IsOpen, Exists
<1>4. Latest \in Nat /\ \A i \in 1..Latest : chains[i].run \in Nat
  BY LatestIsChain DEF Chain
<1>5. TypeChains'
  BY <1>2, <1>3, <1>4, LenProperties DEF TypeChains, Latest
<1>6. QED
  BY <1>2, <1>4, <1>5 DEF ChainsGrow

\* The latest chain, updated, is still a chain.
LEMMA ChangedChain ==
  ASSUME TypeChains, IsOpen, NEW e \in Chain, e.run >= chains[Latest].run,
         chains' = [chains EXCEPT ![Latest] = e]
  PROVE  TypeChains' /\ ChainsGrow /\ Latest' = Latest
<1>1. Latest \in 1..Latest /\ chains \in Seq(Chain) /\ DOMAIN chains = 1..Latest
  BY LatestIsChain DEF IsOpen, TypeChains
<1>2. /\ chains' \in Seq(Chain) /\ Latest' = Latest
      /\ \A i \in 1..Latest : chains'[i] = IF i = Latest THEN e ELSE chains[i]
  BY <1>1, ExceptSeq DEF Latest
<1>3. \A i \in 1..Latest : chains[i].run \in Nat
  BY LatestIsChain DEF Chain
<1>4. TypeChains'
  BY <1>1, <1>2, LenProperties DEF TypeChains, Latest
<1>5. QED
  BY <1>1, <1>2, <1>3, <1>4, LatestIsChain DEF ChainsGrow

-----------------------------------------------------------------------------
(* The calls.                                                              *)

\* What TypeOK says of one call.
CallOK(c) ==
  /\ since[c] <= Latest
  /\ phase[c] \in {"result", "query"} => Exists
  /\ phase[c] = "await" =>
       /\ pin[c].chain \in 1..Latest /\ pin[c].chain >= since[c]
       /\ pin[c].run <= Pinned(c).run
  /\ phase[c] # "idle" => answer[c] = None

\* The invariant, call by call.
LEMMA CallByCall == IInv <=> TypeChains /\ TypeCallers /\ \A c \in Callers : CallOK(c)
BY LatestIsChain DEF IInv, TypeOK, AnswersFresh, CallOK

\* The chains after a step.
LEMMA LatestAfter ==
  ASSUME TypeChains'
  PROVE  Latest' \in Nat /\ DOMAIN chains' = 1..Latest'
BY LenProperties DEF TypeChains, Latest

\* What was true of a call stays true while others move and the chains grow.
LEMMA OthersStand ==
  ASSUME TypeChains, TypeCallers, TypeChains', ChainsGrow, NEW d \in Callers, CallOK(d),
         UNCHANGED <<phase[d], pin[d], since[d], answer[d]>>
  PROVE  CallOK(d)'
<1>1. Latest \in Nat /\ since[d] \in Nat /\ pin[d].run \in Nat /\ pin[d].chain \in Nat
  BY LatestIsChain DEF TypeCallers
<1>2. Exists => Exists'
  BY LatestIsChain, EmptySeq DEF ChainsGrow, Exists, Latest, TypeChains
<1>3. phase[d] = "await" => pin[d].run <= Pinned(d)'.run
  <2> SUFFICES ASSUME phase[d] = "await" PROVE pin[d].run <= Pinned(d)'.run
    OBVIOUS
  <2>1. pin[d].chain \in 1..Latest /\ pin[d].run <= chains[pin[d].chain].run
    BY DEF CallOK, Pinned
  <2>2. pin[d].chain \in 1..Latest' /\ chains'[pin[d].chain].run >= chains[pin[d].chain].run
    BY <1>1, <2>1 DEF ChainsGrow
  <2>3. chains'[pin[d].chain].run \in Nat /\ chains[pin[d].chain].run \in Nat
    <3>1. \A i \in 1..Latest' : chains'[i] \in Chain
      BY LenProperties, ElementOfSeq DEF TypeChains, Latest
    <3>2. QED
      BY <2>1, <2>2, <3>1, LatestIsChain DEF Chain
  <2>4. QED
    BY <1>1, <2>1, <2>2, <2>3 DEF Pinned
<1>4. QED
  BY <1>1, <1>2, <1>3 DEF CallOK, ChainsGrow

\* A call that ends, goes on or waits leaves the other calls alone.
LEMMA EndIInv ==
  ASSUME IInv, TypeChains', ChainsGrow, NEW c \in Callers,
         NEW a \in Outcomes \cup Facts, End(c, a)
  PROVE  IInv'
<1>1. TypeCallers'
  BY DEF IInv, TypeOK, TypeCallers, End, Goes, Phases, NoRun
<1>2. CallOK(c)'
  BY DEF IInv, TypeOK, TypeCallers, End, Goes, CallOK, ChainsGrow
<1>3. ASSUME NEW d \in Callers, d # c PROVE CallOK(d)'
  <2>1. UNCHANGED <<phase[d], pin[d], since[d], answer[d]>>
    BY <1>3 DEF IInv, TypeOK, TypeCallers, End, Goes
  <2>2. QED
    BY <2>1, CallByCall, OthersStand
<1>4. QED
  BY <1>1, <1>2, <1>3, LatestAfter DEF IInv, TypeOK, AnswersFresh, CallOK

\* A caller that goes on to another phase, while the chains stay as they are.
LEMMA StaysIInv ==
  ASSUME IInv, UNCHANGED chains, NEW c \in Callers, NEW p \in Phases \ {"idle", "await"},
         phase[c] # "idle", p \in {"result", "query"} => Exists, Stays(c, p)
  PROVE  IInv'
<1>1. TypeChains' /\ ChainsGrow
  BY LatestIsChain DEF IInv, TypeOK, TypeChains, Latest, ChainsGrow, Chain
<1>2. TypeCallers'
  BY DEF IInv, TypeOK, TypeCallers, Stays, Goes
<1>3. CallOK(c)'
  BY CallByCall DEF TypeCallers, Stays, Goes, CallOK, Latest, Exists
<1>4. ASSUME NEW d \in Callers, d # c PROVE CallOK(d)'
  <2>1. UNCHANGED <<phase[d], pin[d], since[d], answer[d]>>
    BY <1>4 DEF IInv, TypeOK, TypeCallers, Stays, Goes
  <2>2. QED
    BY <1>1, <2>1, CallByCall, OthersStand
<1>5. QED
  BY <1>1, <1>2, <1>3, <1>4, LatestAfter DEF IInv, TypeOK, AnswersFresh, CallOK

\* A call waits for a run there is, of a chain that is not older than itself.
LEMMA WaitForIInv ==
  ASSUME IInv, TypeChains', ChainsGrow, NEW c \in Callers, phase[c] # "idle",
         NEW i \in 1..Latest', i >= since[c], NEW r \in Nat, r <= chains'[i].run,
         \E f \in BOOLEAN : WaitFor(c, i, r, f)
  PROVE  IInv'
<1>0. PICK f \in BOOLEAN : WaitFor(c, i, r, f)
  OBVIOUS
<1>1. TypeCallers'
  BY <1>0, LatestAfter DEF IInv, TypeOK, TypeCallers, WaitFor, Goes, Phases
<1>2. CallOK(c)'
  BY <1>0, CallByCall, LatestIsChain DEF TypeCallers, WaitFor, Goes, CallOK, ChainsGrow, Pinned
<1>3. ASSUME NEW d \in Callers, d # c PROVE CallOK(d)'
  <2>1. UNCHANGED <<phase[d], pin[d], since[d], answer[d]>>
    BY <1>0, <1>3 DEF IInv, TypeOK, TypeCallers, WaitFor, Goes
  <2>2. QED
    BY <2>1, CallByCall, OthersStand
<1>4. QED
  BY <1>1, <1>2, <1>3, LatestAfter DEF IInv, TypeOK, AnswersFresh, CallOK

-----------------------------------------------------------------------------
(* The steps.                                                              *)

\* A step that leaves the chains alone.
LEMMA SameChains ==
  ASSUME IInv, UNCHANGED chains
  PROVE  TypeChains' /\ ChainsGrow /\ Latest' = Latest
BY LatestIsChain DEF IInv, TypeOK, TypeChains, Latest, ChainsGrow, Chain

\* A new call keeps the invariant.
LEMMA CallIInv ==
  ASSUME IInv, NEW c \in Callers, NEW k \in Kinds, Call(c, k)
  PROVE  IInv'
<1>1. TypeChains' /\ ChainsGrow /\ Latest' = Latest
  BY SameChains DEF Call
<1>2. FirstPhase(k) \in {"start", "describe", "signal"}
  BY DEF FirstPhase
<1>3. TypeCallers'
  BY <1>2, LatestIsChain DEF Call, IInv, TypeOK, TypeCallers, Goes, Phases
<1>4. CallOK(c)'
  BY <1>1, <1>2, LatestIsChain DEF Call, IInv, TypeOK, TypeCallers, Goes, CallOK
<1>5. ASSUME NEW d \in Callers, d # c PROVE CallOK(d)'
  <2>1. UNCHANGED <<phase[d], pin[d], since[d], answer[d]>>
    BY <1>5 DEF Call, IInv, TypeOK, TypeCallers, Goes
  <2>2. QED
    BY <1>1, <2>1, CallByCall, OthersStand
<1>6. QED
  BY <1>1, <1>3, <1>4, <1>5, LatestAfter DEF IInv, TypeOK, AnswersFresh, CallOK

\* A start of any kind keeps the invariant.
LEMMA StartIInv ==
  ASSUME IInv, NEW c \in Callers,
         ExecuteStarts(c) \/ ExecuteAttaches(c) \/ ChildStarts(c) \/ NexusStarts(c)
  PROVE  IInv'
<1>1. phase[c] = "start" /\ since[c] \in Nat /\ since[c] <= Latest /\ Latest \in Nat
  BY LatestIsChain DEF ExecuteStarts, ExecuteAttaches, ChildStarts, NexusStarts,
     IInv, TypeOK, TypeCallers
<1>2. ASSUME NEW by \in {"engine", "other"}, OpenChain(by), ~IsOpen,
             \/ WaitFor(c, Latest + 1, 1, TRUE)
             \/ \E a \in {"exists", "failed"} : End(c, a)
      PROVE  IInv'
  <2>1. /\ TypeChains' /\ ChainsGrow /\ Latest' = Latest + 1
        /\ chains'[Latest + 1].run = 1
    BY <1>2, OpenedChain DEF IInv, TypeOK
  <2>2. CASE WaitFor(c, Latest + 1, 1, TRUE)
    <3>1. \E f \in BOOLEAN : WaitFor(c, Latest + 1, 1, f)
      BY <2>2
    <3>2. QED
      BY <1>1, <2>1, <3>1, WaitForIInv
  <2>3. CASE \E a \in {"exists", "failed"} : End(c, a)
    BY <2>1, <2>3, EndIInv DEF Facts
  <2>4. QED
    BY <1>2, <2>2, <2>3
<1>3. ASSUME UNCHANGED chains, End(c, "exists") PROVE IInv'
  BY <1>3, SameChains, EndIInv DEF Facts
<1>4. CASE ExecuteStarts(c)
  BY <1>2, <1>4 DEF ExecuteStarts, Rejects, IsOpen
<1>5. CASE ExecuteAttaches(c)
  BY <1>1, <1>3, <1>5, StaysIInv DEF ExecuteAttaches, Rejects, Phases
<1>6. CASE ChildStarts(c)
  BY <1>2, <1>3, <1>6 DEF ChildStarts
<1>7. ASSUME IsOpen, UNCHANGED chains, WaitFor(c, Latest, chains[Latest].run, TRUE)
      PROVE  IInv'
  <2>1. Latest \in 1..Latest' /\ chains[Latest].run \in Nat
    BY <1>7, LatestIsChain DEF IsOpen, IInv, TypeOK, Chain, Latest
  <2>2. \E f \in BOOLEAN : WaitFor(c, Latest, chains[Latest].run, f)
    BY <1>7
  <2>3. QED
    BY <1>1, <1>7, <2>1, <2>2, SameChains, WaitForIInv
<1>8. CASE NexusStarts(c)
  BY <1>2, <1>7, <1>8 DEF NexusStarts
<1>9. QED
  BY <1>4, <1>5, <1>6, <1>8

\* Whatever a call does next, the invariant holds.
LEMMA StepIInv ==
  ASSUME IInv, NEW c \in Callers, Step(c) \/ RpcFails(c)
  PROVE  IInv'
<1>1. CASE Result(c)
  <2>1. Latest \in 1..Latest' /\ chains[Latest].run \in Nat /\ since[c] <= Latest
    BY <1>1, LatestIsChain DEF Result, IInv, TypeOK, Chain, Latest
  <2>2. phase[c] # "idle" /\ UNCHANGED chains
    BY <1>1 DEF Result
  <2>3. \E f \in BOOLEAN : WaitFor(c, Latest, chains[Latest].run, f)
    BY <1>1, FollowRunsAssumption DEF Result
  <2>4. QED
    BY <2>1, <2>2, <2>3, SameChains, WaitForIInv
<1>2. CASE ReturnOutcome(c)
  <2>1. Pinned(c).outcome \in Outcomes
    BY <1>2, CallByCall, LatestIsChain DEF ReturnOutcome, CallOK, Pinned, Chain
  <2>2. QED
    BY <1>2, <2>1, SameChains, EndIInv DEF ReturnOutcome
<1>3. CASE Follow(c)
  <2>1. /\ phase[c] = "await" /\ UNCHANGED chains /\ pin[c] \in [chain : Nat, run : Nat, follows : BOOLEAN]
        /\ pin[c].chain \in 1..Latest /\ pin[c].chain >= since[c]
        /\ pin[c].run + 1 <= chains[pin[c].chain].run
    BY <1>3, CallByCall, LatestIsChain DEF Follow, CallOK, Pinned, TypeCallers, Chain
  <2>2. CASE pin[c].follows
    <3>1. \E f \in BOOLEAN : WaitFor(c, pin[c].chain, pin[c].run + 1, f)
      BY <1>3, <2>2 DEF Follow
    <3>2. QED
      BY <2>1, <3>1, SameChains, WaitForIInv
  <2>3. CASE ~pin[c].follows
    BY <1>3, <2>1, <2>3, SameChains, EndIInv DEF Follow, Facts
  <2>4. QED
    BY <2>2, <2>3
<1>4. CASE Describe(c)
  BY <1>4, SameChains, EndIInv, StaysIInv DEF Describe, Facts, Phases, IsOpen
<1>5. CASE Query(c) \/ Signal(c) \/ RpcFails(c)
  BY <1>5, SameChains, EndIInv DEF Query, Signal, RpcFails, Facts
<1>6. QED
  BY <1>1, <1>2, <1>3, <1>4, <1>5, StartIInv DEF Step

\* The end of a chain and the next run of it keep the invariant.
LEMMA ServerIInv ==
  ASSUME IInv, ContinueAsNew \/ \E o \in Outcomes : CloseChain(o)
  PROVE  IInv'
<1>1. IsOpen /\ TypeChains /\ UNCHANGED clientVars /\ chains[Latest] \in Chain
  BY LatestIsChain DEF ContinueAsNew, CloseChain, IInv, TypeOK, IsOpen
<1>2. \E e \in Chain : e.run >= chains[Latest].run /\ chains' = [chains EXCEPT ![Latest] = e]
  <2>1. CASE ContinueAsNew
    <3> DEFINE e == [chains[Latest] EXCEPT !.run = @ + 1]
    <3>1. e \in Chain /\ e.run >= chains[Latest].run
      BY <1>1 DEF Chain
    <3>2. chains' = [chains EXCEPT ![Latest] = e]
      BY <2>1 DEF ContinueAsNew
    <3>3. QED
      BY <3>1, <3>2
  <2>2. ASSUME NEW o \in Outcomes, CloseChain(o)
        PROVE  \E e \in Chain : e.run >= chains[Latest].run
                                /\ chains' = [chains EXCEPT ![Latest] = e]
    <3> DEFINE e == [chains[Latest] EXCEPT !.outcome = o]
    <3>1. e \in Chain /\ e.run >= chains[Latest].run
      BY <1>1 DEF Chain
    <3>2. chains' = [chains EXCEPT ![Latest] = e]
      BY <2>2 DEF CloseChain
    <3>3. QED
      BY <3>1, <3>2
  <2>3. QED
    BY <2>1, <2>2
<1>3. TypeChains' /\ ChainsGrow
  BY <1>1, <1>2, ChangedChain
<1>4. TypeCallers' /\ \A d \in Callers : CallOK(d)'
  BY <1>1, <1>3, CallByCall, OthersStand DEF TypeCallers
<1>5. QED
  BY <1>3, <1>4, LatestAfter DEF IInv, TypeOK, AnswersFresh, CallOK

\* Every step preserves the invariant.
LEMMA NextIInv == IInv /\ [Next]_vars => IInv'
<1> SUFFICES ASSUME IInv, [Next]_vars PROVE IInv'
  OBVIOUS
<1>1. CASE UNCHANGED vars
  <2>1. TypeChains' /\ ChainsGrow /\ TypeCallers'
    BY <1>1, SameChains DEF IInv, TypeOK, TypeCallers
  <2>2. \A d \in Callers : CallOK(d)'
    BY <1>1, <2>1, CallByCall, OthersStand
  <2>3. QED
    BY <2>1, <2>2, LatestAfter DEF IInv, TypeOK, AnswersFresh, CallOK
<1>2. CASE Next
  BY <1>2, StepIInv, ServerIInv, CallIInv, UsesAssumption DEF Next
<1>3. QED
  BY <1>1, <1>2

\* The invariant holds in every reachable state.
LEMMA Inductive == Spec => []IInv
BY InitIInv, NextIInv, PTL DEF Spec

\* In every state the variables have their types, only the latest chain is
\* open, and a call waits for a run there is, of a chain that was not
\* superseded when the call was made.
THEOREM EngineTypeCorrect == Spec => []TypeOK
<1>1. IInv => TypeOK
  BY DEF IInv
<1>2. QED
  BY <1>1, Inductive, PTL

-----------------------------------------------------------------------------
(* The engine implements ExecutionSpec.                                    *)

AbstractChain == [by : {"engine", "other"}, outcome : Outcomes \cup {None}]

\* The chains as ExecutionSpec sees them.
LEMMA ExecutionShape ==
  ASSUME TypeChains
  PROVE  /\ Execution \in Seq(AbstractChain) /\ Len(Execution) = Latest
         /\ DOMAIN Execution = 1..Latest
         /\ \A i \in 1..Latest :
              Execution[i] = [by |-> chains[i].by, outcome |-> chains[i].outcome]
         /\ (Execution = <<>>) <=> ~Exists
         /\ Promise!Finished(Execution) <=> Exists /\ ~IsOpen
<1>1. Latest \in Nat /\ DOMAIN chains = 1..Latest /\ \A i \in 1..Latest : chains[i] \in Chain
  BY LatestIsChain
<1>2. Execution \in [1..Latest -> AbstractChain]
  BY <1>1 DEF Execution, AbstractChain, Chain
<1>3. Execution \in Seq(AbstractChain)
  BY <1>1, <1>2, SeqDef
<1>4. Len(Execution) = Latest /\ DOMAIN Execution = 1..Latest
  BY <1>1, <1>2, <1>3, LenProperties
<1>5. \A i \in 1..Latest :
        Execution[i] = [by |-> chains[i].by, outcome |-> chains[i].outcome]
  BY <1>1 DEF Execution
<1>6. (Execution = <<>>) <=> ~Exists
  BY <1>1, <1>3, <1>4, EmptySeq DEF Exists, Latest, TypeChains
<1>7. QED
  BY <1>3, <1>4, <1>5, <1>6, LatestIsChain DEF Promise!Finished, IsOpen

\* The chains after a step, seen the same way.
LEMMA ExecutionAfter ==
  ASSUME TypeChains'
  PROVE  /\ Execution' \in Seq(AbstractChain) /\ Len(Execution') = Latest'
         /\ \A i \in 1..Latest' :
              Execution'[i] = [by |-> chains'[i].by, outcome |-> chains'[i].outcome]
<1>1. /\ Latest' \in Nat /\ DOMAIN chains' = 1..Latest'
      /\ \A i \in 1..Latest' : chains'[i] \in Chain
  BY LenProperties, ElementOfSeq DEF TypeChains, Latest
<1>2. Execution' \in [1..Latest' -> AbstractChain]
  BY <1>1 DEF Execution, AbstractChain, Chain
<1>3. Execution' \in Seq(AbstractChain)
  BY <1>1, <1>2, SeqDef
<1>4. Len(Execution') = Latest'
  BY <1>1, <1>2, <1>3, LenProperties
<1>5. QED
  BY <1>1, <1>3, <1>4 DEF Execution

\* A start opens a chain of ExecutionSpec.
LEMMA OpenRefines ==
  ASSUME TypeChains, ~IsOpen, NEW by \in {"engine", "other"}, OpenChain(by),
         by = "engine" => ~Exists
  PROVE  Promise!Open(by)
<1> DEFINE new == [by |-> by, outcome |-> None]
           longer == Append(Execution, new)
<1>1. /\ TypeChains' /\ Latest' = Latest + 1 /\ Latest \in Nat
      /\ chains'[Latest + 1] = [by |-> by, run |-> 1, outcome |-> None]
      /\ \A i \in 1..Latest : chains'[i] = chains[i]
  BY OpenedChain, LatestIsChain
<1>2. new \in AbstractChain
  BY DEF AbstractChain
<1>3. /\ longer \in Seq(AbstractChain) /\ Len(longer) = Latest + 1
      /\ longer[Latest + 1] = new /\ \A i \in 1..Latest : longer[i] = Execution[i]
  BY <1>1, <1>2, ExecutionShape, AppendProperties
<1>4. \A i \in 1..Latest + 1 : Execution'[i] = longer[i]
  BY <1>1, <1>3, ExecutionShape, ExecutionAfter
<1>5. Execution' = longer
  BY <1>1, <1>3, <1>4, ExecutionAfter, SeqEqual
<1>6. QED
  BY <1>5, ExecutionShape DEF Promise!Open

\* The end of a chain records its outcome.
LEMMA CloseRefines ==
  ASSUME IInv, NEW o \in Outcomes, CloseChain(o)
  PROVE  Promise!Record(o)
<1> DEFINE e == [chains[Latest] EXCEPT !.outcome = o]
           closed == [Execution EXCEPT ![Len(Execution)].outcome = o]
<1>1. /\ TypeChains /\ IsOpen /\ Latest \in 1..Latest /\ Latest \in Nat
      /\ chains[Latest] \in Chain
  BY LatestIsChain DEF CloseChain, IInv, TypeOK, IsOpen
<1>2. e \in Chain /\ e.run >= chains[Latest].run /\ chains' = [chains EXCEPT ![Latest] = e]
  BY <1>1 DEF CloseChain, Chain
<1>3. TypeChains' /\ Latest' = Latest
  BY <1>1, <1>2, ChangedChain
<1>4. /\ closed \in Seq(AbstractChain) /\ Len(closed) = Latest
      /\ \A i \in 1..Latest : closed[i] =
           IF i = Latest THEN [Execution[i] EXCEPT !.outcome = o] ELSE Execution[i]
  <2> DEFINE f == [Execution[Latest] EXCEPT !.outcome = o]
  <2>1. f \in AbstractChain
    BY <1>1, ExecutionShape, ElementOfSeq DEF AbstractChain
  <2>2. closed = [Execution EXCEPT ![Latest] = f]
    BY <1>1, ExecutionShape
  <2>3. QED
    BY <1>1, <2>1, <2>2, ExecutionShape, ExceptSeq
<1>5. \A i \in 1..Latest : Execution'[i] = closed[i]
  <2>1. \A i \in 1..Latest : chains'[i] = IF i = Latest THEN e ELSE chains[i]
    BY <1>1, <1>2, LatestIsChain
  <2>2. \A i \in 1..Latest :
          Execution[i] = [by |-> chains[i].by, outcome |-> chains[i].outcome]
    BY <1>1, ExecutionShape
  <2>3. e.by = chains[Latest].by /\ e.outcome = o
    BY <1>1 DEF Chain
  <2>4. \A i \in 1..Latest :
          Execution'[i] = [by |-> chains'[i].by, outcome |-> chains'[i].outcome]
    BY <1>3, ExecutionAfter
  <2> HIDE DEF closed, e
  <2>5. ASSUME NEW i \in 1..Latest, i # Latest PROVE Execution'[i] = closed[i]
    BY <1>4, <2>1, <2>2, <2>4, <2>5
  <2>6. Execution'[Latest] = closed[Latest]
    <3>1. closed[Latest] = [Execution[Latest] EXCEPT !.outcome = o]
      BY <1>1, <1>4
    <3>2. Execution[Latest] = [by |-> chains[Latest].by, outcome |-> chains[Latest].outcome]
      BY <1>1, <2>2
    <3>3. closed[Latest] = [by |-> chains[Latest].by, outcome |-> o]
      BY <3>1, <3>2
    <3>4. chains'[Latest] = e
      BY <1>1, <2>1
    <3>5. QED
      BY <1>1, <2>3, <2>4, <3>3, <3>4
  <2>7. QED
    BY <2>5, <2>6
<1>6. Execution' = closed
  BY <1>1, <1>3, <1>4, <1>5, ExecutionAfter, SeqEqual
<1>7. UNCHANGED CallsMade
  BY DEF CloseChain, CallsMade, CallOf, CallState, CallAnswer
<1>8. QED
  BY <1>1, <1>6, <1>7, ExecutionShape DEF Promise!Record

-----------------------------------------------------------------------------
\* A call that moves is one entry of the calls.
LEMMA OneCallMoves ==
  ASSUME TypeCallers, TypeCallers', NEW c \in Callers,
         \A d \in Callers \ {c} : UNCHANGED <<phase[d], since[d], answer[d]>>
  PROVE  CallsMade' = [CallsMade EXCEPT ![c] = CallOf(c)']
<1>1. \A d \in Callers \ {c} : CallOf(d)' = CallOf(d)
  BY DEF CallOf, CallState, CallAnswer
<1>2. QED
  BY <1>1 DEF CallsMade

\* A call in progress is pending, or decided once its poll saw the execution
\* open.
LEMMA InProgress ==
  ASSUME IInv, NEW c \in Callers, phase[c] # "idle"
  PROVE  /\ phase[c] # "query" =>
              CallOf(c) = [state |-> "pending", since |-> since[c], answer |-> None]
         /\ phase[c] = "query" =>
              CallOf(c) = [state |-> "decided", since |-> since[c], answer |-> "unfinished"]
         /\ CallsMade[c] = CallOf(c) /\ None # "failed"
BY NoneAssumption DEF IInv, TypeOK, AnswersFresh, CallOf, CallState, CallAnswer, CallsMade, Facts

\* The end of a call is a failure or an answer of ExecutionSpec.
LEMMA EndRefines ==
  ASSUME IInv, IInv', NEW c \in Callers, NEW a \in Outcomes \cup Facts, End(c, a)
  PROVE  /\ a = "failed" => Promise!Ends(c, "failed", None)
         /\ a # "failed" => Promise!Ends(c, "returned", a)
<1>1. CallsMade' = [CallsMade EXCEPT ![c] = CallOf(c)']
  BY OneCallMoves DEF End, Goes, IInv, TypeOK, TypeCallers
<1>2. phase'[c] = "idle" /\ since'[c] = 0 /\ answer'[c] = a /\ a # None
  BY NoneAssumption DEF End, Goes, IInv, TypeOK, TypeCallers
<1>3. CallOf(c)' = IF a = "failed" THEN [state |-> "failed", since |-> 0, answer |-> None]
                                   ELSE [state |-> "returned", since |-> 0, answer |-> a]
  BY <1>2 DEF CallOf, CallState, CallAnswer
<1>4. QED
  BY <1>1, <1>3 DEF Promise!Ends

\* A call that goes on with another RPC is still pending.
LEMMA GoesOnRefines ==
  ASSUME IInv, IInv', NEW c \in Callers, NEW p \in Phases \ {"idle", "query"},
         phase[c] \notin {"idle", "query"}, Goes(c, p), UNCHANGED <<since, answer>>
  PROVE  UNCHANGED CallsMade
<1>1. CallsMade' = [CallsMade EXCEPT ![c] = CallOf(c)']
  BY OneCallMoves DEF Goes, IInv, TypeOK, TypeCallers
<1>2. CallOf(c)' = CallOf(c)
  BY DEF Goes, IInv, TypeOK, TypeCallers, CallOf, CallState, CallAnswer
<1>3. QED
  BY <1>1, <1>2 DEF CallsMade

\* What is true of the execution after a step, in terms of the engine.
LEMMA TruthsAfter ==
  ASSUME TypeChains', NEW k \in Nat
  PROVE  /\ \A i \in 1..Latest' : i >= k /\ chains'[i].outcome # None =>
              chains'[i].outcome \in Promise!Truths(Execution', k)
         /\ Latest' > 0 => "exists" \in Promise!Truths(Execution', k)
         /\ Latest' = 0 => "unfinished" \in Promise!Truths(Execution', k)
         /\ Latest' > 0 /\ chains'[Latest'].outcome = None =>
              {"unfinished", "delivered"} \subseteq Promise!Truths(Execution', k)
         /\ "ignored" \in Promise!Truths(Execution', k)
<1>1. /\ Execution' \in Seq(AbstractChain) /\ Len(Execution') = Latest'
      /\ \A i \in 1..Latest' : Execution'[i].outcome = chains'[i].outcome
  BY ExecutionAfter
<1>2. DOMAIN Execution' = 1..Latest' /\ Latest' \in Nat /\ (Execution' = <<>> <=> Latest' = 0)
  BY <1>1, LenProperties, EmptySeq
<1>3. QED
  BY <1>1, <1>2 DEF Promise!Truths, Promise!Recorded, Promise!Finished

\* A call that ends with a truth has learned it.
LEMMA LearnRefines ==
  ASSUME IInv, IInv', NEW c \in Callers, phase[c] \notin {"idle", "query"},
         NEW a \in (Outcomes \cup Facts) \ {"failed"},
         a \in Promise!Truths(Execution', since[c]), End(c, a)
  PROVE  Promise!Learn(c)
BY InProgress, EndRefines DEF Promise!Learn

\* A call that fails ends with nothing.
LEMMA FailRefines ==
  ASSUME IInv, IInv', NEW c \in Callers, phase[c] # "idle", End(c, "failed")
  PROVE  Promise!Fail(c)
BY InProgress, EndRefines DEF Promise!Fail, Facts

\* A call of an engine is a call of ExecutionSpec.
LEMMA CallRefines ==
  ASSUME IInv, IInv', NEW c \in Callers, NEW k \in Kinds, Call(c, k)
  PROVE  Promise!Begin(c)
<1>1. CallsMade' = [CallsMade EXCEPT ![c] = CallOf(c)']
  BY OneCallMoves DEF Call, Goes, IInv, TypeOK, TypeCallers
<1>2. phase'[c] \in {"start", "describe", "signal"} /\ since'[c] = Latest /\ answer'[c] = None
  BY DEF Call, Goes, FirstPhase, IInv, TypeOK, TypeCallers
<1>3. CallOf(c)' = [state |-> "pending", since |-> Latest, answer |-> None]
  BY <1>2, NoneAssumption DEF CallOf, CallState, CallAnswer, Facts
<1>4. CallsMade[c].state \notin {"pending", "decided"}
  BY DEF Call, CallsMade, CallOf, CallState
<1>5. Latest = Len(Execution) /\ Execution' = Execution
  BY ExecutionShape DEF Call, Execution, IInv, TypeOK
<1>6. QED
  BY <1>1, <1>3, <1>4, <1>5 DEF Promise!Begin

\* What a step of ExecutionSpec that opens a chain or moves a call looks like.
LEMMA ProceedCases ==
  ASSUME UNCHANGED Execution \/ \E by \in {"engine", "other"} : Promise!Open(by),
         \/ UNCHANGED CallsMade
         \/ \E c \in Callers : Promise!Learn(c) \/ Promise!Return(c) \/ Promise!Fail(c)
  PROVE  Promise!Next
BY DEF Promise!Next, Promise!Proceed

\* A start opens a chain if it may, and ends as it promised or waits.
LEMMA StartRefines ==
  ASSUME IInv, IInv', NEW c \in Callers,
         ExecuteStarts(c) \/ ExecuteAttaches(c) \/ ChildStarts(c) \/ NexusStarts(c)
  PROVE  Promise!Next
<1>1. /\ TypeChains /\ TypeChains' /\ since[c] \in Nat
      /\ phase[c] \notin {"idle", "query"} /\ Latest \in Nat
  BY LatestIsChain DEF IInv, TypeOK, TypeCallers, ExecuteStarts, ExecuteAttaches,
     ChildStarts, NexusStarts
<1>2. ASSUME NEW i \in Nat, NEW r \in Nat, \E f \in BOOLEAN : WaitFor(c, i, r, f)
      PROVE  UNCHANGED CallsMade
  BY <1>1, <1>2, GoesOnRefines DEF WaitFor, Phases
<1>3. ASSUME End(c, "exists"), Latest' > 0
      PROVE  Promise!Learn(c)
  BY <1>1, <1>3, LearnRefines, TruthsAfter DEF Facts
<1>4. ASSUME NEW by \in {"engine", "other"}, OpenChain(by), ~IsOpen, by = "engine" => ~Exists,
             \/ WaitFor(c, Latest + 1, 1, TRUE)
             \/ \E a \in {"exists", "failed"} : End(c, a)
      PROVE  Promise!Next
  <2>1. Promise!Open(by) /\ Latest' = Latest + 1
    BY <1>1, <1>4, OpenRefines, OpenedChain
  <2>2. CASE WaitFor(c, Latest + 1, 1, TRUE)
    <3>1. \E f \in BOOLEAN : WaitFor(c, Latest + 1, 1, f)
      BY <2>2
    <3>2. UNCHANGED CallsMade
      BY <1>1, <1>2, <3>1
    <3>3. QED
      BY <2>1, <3>2, ProceedCases
  <2>3. CASE End(c, "exists")
    BY <1>1, <1>3, <2>1, <2>3, ProceedCases
  <2>4. CASE End(c, "failed")
    BY <1>1, <2>1, <2>4, FailRefines, ProceedCases
  <2>5. QED
    BY <1>4, <2>2, <2>3, <2>4
<1>5. ASSUME UNCHANGED chains, Exists, End(c, "exists") PROVE Promise!Next
  <2>1. UNCHANGED Execution /\ Latest' > 0
    BY <1>1, <1>5, LatestIsChain DEF Execution, Latest
  <2>2. QED
    BY <1>3, <1>5, <2>1, ProceedCases
<1>6. CASE ExecuteStarts(c)
  BY <1>4, <1>6 DEF ExecuteStarts, Rejects, IsOpen
<1>7. CASE ExecuteAttaches(c)
  <2>1. UNCHANGED chains /\ Exists /\ (Stays(c, "result") \/ End(c, "exists"))
    BY <1>7 DEF ExecuteAttaches, Rejects
  <2>2. CASE Stays(c, "result")
    <3>1. UNCHANGED <<Execution, CallsMade>>
      BY <1>1, <2>1, <2>2, GoesOnRefines DEF Stays, Execution, Phases
    <3>2. QED
      BY <3>1, ProceedCases
  <2>3. QED
    BY <1>5, <2>1, <2>2
<1>8. CASE ChildStarts(c)
  BY <1>4, <1>5, <1>8 DEF ChildStarts, IsOpen
<1>9. CASE NexusStarts(c)
  <2>1. CASE IsOpen /\ WaitFor(c, Latest, chains[Latest].run, TRUE) /\ UNCHANGED chains
    <3>1. /\ \E f \in BOOLEAN : WaitFor(c, Latest, chains[Latest].run, f)
          /\ chains[Latest].run \in Nat
      BY <1>1, <2>1, LatestIsChain DEF IsOpen, Chain
    <3>2. UNCHANGED <<Execution, CallsMade>>
      BY <1>1, <1>2, <2>1, <3>1 DEF Execution
    <3>3. QED
      BY <3>2, ProceedCases
  <2>2. QED
    BY <1>4, <1>9, <2>1 DEF NexusStarts
<1>10. QED
  BY <1>6, <1>7, <1>8, <1>9

\* A poll answers with what it saw: nothing, an open chain, or an outcome.
LEMMA PollRefines ==
  ASSUME IInv, IInv', NEW c \in Callers, Describe(c) \/ Query(c)
  PROVE  Promise!Next
<1>1. /\ TypeChains /\ TypeChains' /\ since[c] \in Nat /\ UNCHANGED <<chains, Execution>>
      /\ Latest \in Nat /\ Latest' = Latest /\ (Exists => Latest \in 1..Latest)
      /\ (~Exists => Latest = 0)
  BY LatestIsChain, EmptySeq DEF IInv, TypeOK, TypeCallers, Describe, Query, Execution,
     Latest, Exists
<1>2. CASE Query(c)
  <2>1. Promise!Return(c)
    BY <1>2, InProgress, EndRefines DEF Query, Promise!Return, Facts
  <2>2. QED
    BY <1>1, <2>1, ProceedCases
<1>3. CASE Describe(c) /\ IsOpen
  <2>1. phase[c] = "describe" /\ Stays(c, "query") /\ "unfinished" \in Promise!Truths(Execution', since[c])
    BY <1>1, <1>3, TruthsAfter DEF Describe, IsOpen
  <2>2. CallsMade' = [CallsMade EXCEPT ![c] = CallOf(c)']
    BY <2>1, OneCallMoves DEF Stays, Goes, IInv, TypeOK, TypeCallers
  <2>3. CallOf(c)' = [state |-> "decided", since |-> since[c], answer |-> "unfinished"]
    BY <2>1 DEF Stays, Goes, IInv, TypeOK, TypeCallers, CallOf, CallState, CallAnswer
  <2>4. CallsMade[c] = [state |-> "pending", since |-> since[c], answer |-> None]
    BY <2>1, InProgress
  <2>5. Promise!Decides(c, "unfinished")
    BY <2>2, <2>3, <2>4 DEF Promise!Decides
  <2>6. Promise!Learn(c)
    BY <2>1, <2>4, <2>5 DEF Promise!Learn
  <2>7. QED
    BY <1>1, <2>6, ProceedCases
<1>4. CASE Describe(c) /\ Exists /\ ~IsOpen
  <2>1. UNCHANGED CallsMade
    BY <1>4, GoesOnRefines DEF Describe, Stays, Phases
  <2>2. QED
    BY <1>1, <2>1, ProceedCases
<1>5. CASE Describe(c) /\ ~Exists
  <2>1. Promise!Learn(c)
    BY <1>1, <1>5, TruthsAfter, LearnRefines DEF Describe, Facts
  <2>2. QED
    BY <1>1, <2>1, ProceedCases
<1>6. QED
  BY <1>2, <1>3, <1>4, <1>5 DEF IsOpen

\* Waiting for an outcome and returning it.
LEMMA ResultRefines ==
  ASSUME IInv, IInv', NEW c \in Callers, Result(c) \/ Follow(c) \/ ReturnOutcome(c)
  PROVE  Promise!Next
<1>1. /\ TypeChains /\ TypeChains' /\ since[c] \in Nat /\ UNCHANGED <<chains, Execution>>
      /\ Latest' = Latest /\ phase[c] \in {"result", "await"}
  BY DEF IInv, TypeOK, TypeCallers, Result, Follow, ReturnOutcome, Execution, Latest
<1>2. CASE ReturnOutcome(c)
  <2>1. /\ pin[c].chain \in 1..Latest /\ pin[c].chain >= since[c]
        /\ chains[pin[c].chain].outcome # None /\ chains[pin[c].chain].outcome \in Outcomes
        /\ End(c, chains[pin[c].chain].outcome)
    BY <1>2, CallByCall, LatestIsChain DEF ReturnOutcome, CallOK, Pinned, Chain
  <2>2. PICK i \in 1..Latest : i = pin[c].chain
    BY <2>1
  <2>3. PICK o \in Outcomes : o = chains[pin[c].chain].outcome /\ End(c, o)
    BY <2>1 DEF End
  <2>4. o \in Promise!Truths(Execution', since[c])
    BY <1>1, <2>1, <2>2, <2>3, TruthsAfter
  <2>5. Promise!Learn(c)
    BY <1>1, <2>3, <2>4, LearnRefines, NoneAssumption DEF Facts
  <2>6. QED
    BY <1>1, <2>5, ProceedCases
<1>3. CASE Follow(c) /\ ~pin[c].follows
  BY <1>1, <1>3, FailRefines, ProceedCases DEF Follow
<1>4. CASE Result(c) \/ (Follow(c) /\ pin[c].follows)
  <2>1. Goes(c, "await") /\ UNCHANGED <<since, answer>>
    BY <1>4 DEF Result, Follow, WaitFor
  <2>2. UNCHANGED CallsMade
    BY <1>1, <2>1, GoesOnRefines DEF Phases
  <2>3. QED
    BY <1>1, <2>2, ProceedCases
<1>5. QED
  BY <1>2, <1>3, <1>4

\* A signal reaches an open execution, or is ignored, or fails.
LEMMA SignalRefines ==
  ASSUME IInv, IInv', NEW c \in Callers, Signal(c) \/ RpcFails(c)
  PROVE  Promise!Next
<1>1. /\ TypeChains /\ TypeChains' /\ since[c] \in Nat /\ UNCHANGED <<chains, Execution>>
      /\ Latest' = Latest /\ (IsOpen => Latest > 0 /\ chains[Latest].outcome = None)
  BY LatestIsChain DEF IInv, TypeOK, TypeCallers, Signal, RpcFails, Execution, Latest, IsOpen
<1>2. CASE End(c, "failed")
  BY <1>1, <1>2, FailRefines, ProceedCases DEF Signal, RpcFails
<1>3. CASE Signal(c) /\ ~End(c, "failed")
  <2>1. phase[c] = "signal" /\ \/ IsOpen /\ End(c, "delivered")
                               \/ End(c, "ignored")
    BY <1>3 DEF Signal
  <2>2. Promise!Learn(c)
    BY <1>1, <2>1, TruthsAfter, LearnRefines DEF Facts
  <2>3. QED
    BY <1>1, <2>2, ProceedCases
<1>4. QED
  BY <1>2, <1>3 DEF RpcFails

\* Every step is a step of ExecutionSpec or a stutter.
LEMMA StepRefines == IInv /\ [Next]_vars => [Promise!Next]_(Promise!avars)
<1> SUFFICES ASSUME IInv, [Next]_vars PROVE Promise!Next \/ UNCHANGED <<Execution, CallsMade>>
  BY DEF Promise!avars
<1>1. IInv'
  BY NextIInv
<1>2. CASE UNCHANGED vars
  BY <1>2 DEF Execution, CallsMade, CallOf, CallState, CallAnswer
<1>3. ASSUME NEW c \in Callers, Step(c) \/ RpcFails(c) PROVE Promise!Next
  BY <1>1, <1>3, StartRefines, PollRefines, ResultRefines, SignalRefines DEF Step
<1>4. ASSUME NEW c \in Callers, NEW k \in Uses[c], Call(c, k) PROVE Promise!Next
  BY <1>1, <1>4, CallRefines, UsesAssumption DEF Promise!Next
<1>5. ASSUME NEW o \in Outcomes, CloseChain(o) PROVE Promise!Next
  BY <1>5, CloseRefines DEF Promise!Next
<1>6. CASE ContinueAsNew
  <2>1. UNCHANGED CallsMade
    BY <1>6 DEF ContinueAsNew, CallsMade, CallOf, CallState, CallAnswer
  <2>2. UNCHANGED Execution
    BY <1>6, LatestIsChain DEF ContinueAsNew, Execution, IInv, TypeOK, Chain
  <2>3. QED
    BY <2>1, <2>2, ProceedCases
<1>7. QED
  BY <1>2, <1>3, <1>4, <1>5, <1>6 DEF Next

\* The initial states map to initial states.
LEMMA InitRefines == Init => Promise!Init
<1> SUFFICES ASSUME Init PROVE Promise!Init
  OBVIOUS
<1>1. Execution = <<>>
  <2>1. TypeChains /\ ~Exists
    BY DEF Init, TypeChains, Exists
  <2>2. QED
    BY <2>1, ExecutionShape
<1>2. \A c \in Callers : CallOf(c) = [state |-> "idle", since |-> 0, answer |-> None]
  BY NoneAssumption DEF Init, CallOf, CallState, CallAnswer, Facts
<1>3. QED
  BY <1>1, <1>2 DEF Promise!Init, CallsMade

\* Whatever the callers do and whatever happens at the server between their
\* RPCs, the engine opens only the first chain of an execution, and each call
\* returns a truth about it, an outcome never of a chain superseded before it.
THEOREM EngineKeepsPromise == Spec => KeepsPromise
<1>1. IInv /\ [Next]_vars => [Promise!Next]_(Promise!avars)
  BY StepRefines
<1>2. QED
  BY <1>1, InitRefines, Inductive, PTL DEF Spec, KeepsPromise, Promise!Spec
=============================================================================
