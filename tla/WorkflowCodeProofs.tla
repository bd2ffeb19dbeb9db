-------------------------- MODULE WorkflowCodeProofs --------------------------
(***************************************************************************)
(* Proofs about what runs beside the pass loop inside the sandbox, for any *)
(* number of runs, versions, attempts, passes and steps: Versioning,       *)
(* ChildOutcome and StateCells, and about a bundle of any entrypoint:      *)
(* BundleOrder.  Of SandboxPolyfills, the encoding of any text, the        *)
(* padding of messages of any length and the globals of any isolate.  The  *)
(* five share no state.                                                    *)
(***************************************************************************)
EXTENDS Versioning, ChildOutcome, StateCells, BundleOrder, SandboxPolyfills, WellFoundedInduction, SequenceTheorems, TLAPS

\* A set of numbers that is not empty has a least element, and Min is it.
LEMMA LeastOf ==
  ASSUME NEW S, S \subseteq Nat, S # {}
  PROVE  /\ Min(S) \in S
         /\ \A y \in S : Min(S) <= y
<1> DEFINE R == {ss \in Nat \X Nat : ss[1] < ss[2]}
<1>1. IsWellFoundedOn(R, Nat)
  BY NatLessThanWellFounded DEF OpToRel
<1>2. PICK x \in S : \A y \in S : ~(<<y, x>> \in R)
  <2> HIDE DEF R
  <2> QED BY <1>1, WFMin
<1>3. \A y \in S : x <= y
  <2> TAKE y \in S
  <2>1. <<y, x>> \notin R
    BY <1>2
  <2> QED BY <2>1
<1> QED BY <1>2, <1>3 DEF Min

\* An element that no other exceeds is the Max.
LEMMA GreatestIs ==
  ASSUME NEW S, S \subseteq Nat, NEW m \in S, \A y \in S : m >= y
  PROVE  Max(S) = m
<1>1. Max(S) \in S /\ \A y \in S : Max(S) >= y
  BY DEF Max
<1>2. Max(S) \in Nat /\ m \in Nat /\ Max(S) >= m /\ m >= Max(S)
  BY <1>1
<1> QED BY <1>2

-----------------------------------------------------------------------------
(* Versioning.                                                             *)

\* What an open run recorded is declared still, and no pass recorded an older
\* version than an earlier one.
MarkersLive ==
  \A r \in Executions :
    /\ \A n \in DOMAIN markers[r] : oldest <= markers[r][n] /\ markers[r][n] <= newest
    /\ \A n \in DOMAIN markers[r] : \A m \in 1 .. n : markers[r][m] <= markers[r][n]

VersionInv ==
  /\ oldest \in Nat /\ newest \in Nat /\ oldest <= newest /\ newest <= MaxVersion
  /\ markers \in [Executions -> Seq(Nat)]
  /\ MarkersLive

\* A live pass takes the newest branch.
LEMMA LiveMatch ==
  ASSUME oldest \in Nat, newest \in Nat, oldest <= newest
  PROVE  match(FALSE, {}) = newest
<1> DEFINE matching == {v \in oldest .. newest : v > 0}
<1>1. match(FALSE, {}) = IF matching # {} THEN Max(matching) ELSE IF oldest = 0 THEN 0 ELSE NoBranch
  BY DEF match, patched
<1>2. matching \subseteq Nat /\ \A y \in matching : newest >= y
  OBVIOUS
<1>3. newest > 0 => newest \in matching
  OBVIOUS
<1>4. newest = 0 => matching = {} /\ oldest = 0
  OBVIOUS
<1> HIDE DEF matching
<1>5. newest > 0 => Max(matching) = newest
  BY <1>2, <1>3, GreatestIs
<1>6. newest = IF matching # {} THEN Max(matching) ELSE IF oldest = 0 THEN 0 ELSE NoBranch
  BY <1>3, <1>4, <1>5
<1> QED BY <1>1, <1>6, Zenon

\* A replayed pass takes the newest branch with a recorded marker.
LEMMA VersionInvAgrees ==
  VersionInv => ReplaysAgree
<1> SUFFICES ASSUME VersionInv, NEW r \in Executions, NEW n \in DOMAIN markers[r]
             PROVE  match(TRUE, Known(r, n)) = markers[r][n]
  BY DEF ReplaysAgree
<1> DEFINE v == markers[r][n]
           matching == {w \in oldest .. newest : w > 0 /\ \E m \in 1 .. n : w = markers[r][m]}
<1>1. markers[r] \in Seq(Nat) /\ DOMAIN markers[r] = 1 .. Len(markers[r]) /\ Len(markers[r]) \in Nat
  BY DEF VersionInv
<1>2. v \in Nat /\ oldest <= v /\ v <= newest /\ \A m \in 1 .. n : markers[r][m] \in Nat /\ markers[r][m] <= v
  BY <1>1 DEF VersionInv, MarkersLive
<1>3. match(TRUE, Known(r, n)) = IF matching # {} THEN Max(matching) ELSE IF oldest = 0 THEN 0 ELSE NoBranch
  <2>1. matching = {w \in oldest .. newest : w > 0 /\ patched(w, TRUE, Known(r, n))}
    BY DEF patched, Known, VersionInv
  <2> HIDE DEF matching
  <2> QED BY <2>1 DEF match
<1>4. matching \subseteq Nat /\ \A y \in matching : v >= y
  BY <1>2 DEF VersionInv
<1>5. v > 0 => v \in matching
  BY <1>1, <1>2 DEF VersionInv
<1>6. v = 0 => matching = {} /\ oldest = 0
  BY <1>2, <1>4 DEF VersionInv
<1> HIDE DEF matching, v
<1>7. v > 0 => Max(matching) = v
  BY <1>4, <1>5, GreatestIs
<1>8. v = IF matching # {} THEN Max(matching) ELSE IF oldest = 0 THEN 0 ELSE NoBranch
  BY <1>2, <1>5, <1>6, <1>7
<1>9. match(TRUE, Known(r, n)) = v
  BY <1>3, <1>8, Zenon
<1> QED BY <1>9 DEF v

\* Nothing is deployed or recorded at first.
LEMMA VersionInvHolds == VersionInit => VersionInv
<1> SUFFICES ASSUME VersionInit PROVE VersionInv
  OBVIOUS
<1>1. oldest \in Nat /\ newest \in Nat /\ oldest <= newest /\ newest <= MaxVersion
  BY VersioningAssumption DEF VersionInit
<1>2. markers \in [Executions -> Seq(Nat)] /\ MarkersLive
  BY DEF VersionInit, MarkersLive
<1> QED BY <1>1, <1>2 DEF VersionInv

\* No deployment, live pass or replay disturbs what the markers promise.
LEMMA VersionInvStep == VersionInv /\ [VersionNext]_versionVars => VersionInv'
<1> SUFFICES ASSUME VersionInv, [VersionNext]_versionVars PROVE VersionInv'
  OBVIOUS
<1> USE VersioningAssumption
<1>1. CASE Deploy
  <2>1. oldest' = oldest /\ newest' = newest + 1 /\ markers' = markers /\ newest' <= MaxVersion
    BY <1>1 DEF Deploy, VersionInv
  <2>2. MarkersLive'
    <3> SUFFICES ASSUME NEW r \in Executions, NEW n \in DOMAIN markers[r]
                 PROVE  /\ oldest <= markers[r][n] /\ markers[r][n] <= newest + 1
                        /\ \A m \in 1 .. n : markers[r][m] <= markers[r][n]
      BY <2>1 DEF MarkersLive
    <3>1. markers[r] \in Seq(Nat) /\ markers[r][n] \in Nat
      BY DEF VersionInv
    <3> QED BY <3>1 DEF VersionInv, MarkersLive
  <2> QED BY <2>1, <2>2 DEF VersionInv
<1>2. CASE deprecatePatch
  <2>1. PICK v \in oldest + 1 .. newest :
             (\A r \in Executions : Open(r) => markers[r][1] >= v) /\ oldest' = v
    BY <1>2 DEF deprecatePatch
  <2>2. newest' = newest /\ markers' = markers
    BY <1>2 DEF deprecatePatch
  <2>3. MarkersLive'
    <3> SUFFICES ASSUME NEW r \in Executions, NEW n \in DOMAIN markers[r]
                 PROVE  /\ v <= markers[r][n] /\ markers[r][n] <= newest
                        /\ \A m \in 1 .. n : markers[r][m] <= markers[r][n]
      BY <2>1, <2>2 DEF MarkersLive
    <3>1. markers[r] \in Seq(Nat) /\ n \in 1 .. Len(markers[r]) /\ 1 \in 1 .. n
      BY DEF VersionInv
    <3>2. markers[r][1] \in Nat /\ markers[r][n] \in Nat /\ markers[r][1] <= markers[r][n]
      BY <3>1 DEF VersionInv, MarkersLive
    <3>3. markers[r][1] >= v
      BY <2>1, <3>1 DEF Open
    <3> QED BY <3>2, <3>3 DEF VersionInv, MarkersLive
  <2> QED BY <2>1, <2>2, <2>3 DEF VersionInv
<1>3. ASSUME NEW r \in Executions, LivePass(r) PROVE VersionInv'
  <2>1. markers' = [markers EXCEPT ![r] = Append(@, newest)] /\ oldest' = oldest /\ newest' = newest
    BY <1>3, LiveMatch DEF LivePass, VersionInv
  <2>2. markers[r] \in Seq(Nat) /\ newest \in Nat
    BY DEF VersionInv
  <2>3. markers' \in [Executions -> Seq(Nat)]
    BY <2>1, <2>2 DEF VersionInv
  <2>4. MarkersLive'
    <3> SUFFICES ASSUME NEW q \in Executions, NEW n \in DOMAIN markers'[q]
                 PROVE  /\ oldest <= markers'[q][n] /\ markers'[q][n] <= newest
                        /\ \A m \in 1 .. n : markers'[q][m] <= markers'[q][n]
      BY <2>1 DEF MarkersLive
    <3>1. CASE q # r
      BY <2>1, <3>1 DEF MarkersLive, VersionInv
    <3>2. CASE q = r
      <4>1. /\ markers'[r] = Append(markers[r], newest)
            /\ Len(markers[r]) \in Nat
            /\ n \in 1 .. Len(markers[r]) + 1
        BY <2>1, <2>2, <3>2 DEF VersionInv
      <4>2. \A m \in 1 .. Len(markers[r]) :
              markers'[r][m] = markers[r][m] /\ markers[r][m] \in Nat /\ oldest <= markers[r][m] /\ markers[r][m] <= newest
        BY <2>2, <4>1 DEF MarkersLive, VersionInv
      <4>3. markers'[r][Len(markers[r]) + 1] = newest
        BY <2>2, <4>1
      <4>4. CASE n = Len(markers[r]) + 1
        BY <3>2, <4>1, <4>2, <4>3, <4>4 DEF VersionInv
      <4>5. CASE n <= Len(markers[r])
        <5>1. \A m \in 1 .. n : markers[r][m] <= markers[r][n]
          BY <2>2, <4>1, <4>5 DEF MarkersLive, VersionInv
        <5> QED BY <3>2, <4>1, <4>2, <4>5, <5>1
      <4> QED BY <4>1, <4>4, <4>5
    <3> QED BY <3>1, <3>2
  <2> QED BY <2>1, <2>3, <2>4 DEF VersionInv
<1>4. ASSUME NEW r \in Executions, RunCloses(r) PROVE VersionInv'
  <2>1. markers' = [markers EXCEPT ![r] = <<>>] /\ oldest' = oldest /\ newest' = newest
    BY <1>4 DEF RunCloses
  <2>2. markers' \in [Executions -> Seq(Nat)]
    BY <2>1 DEF VersionInv
  <2>3. MarkersLive'
    BY <2>1 DEF MarkersLive, VersionInv
  <2> QED BY <2>1, <2>2, <2>3 DEF VersionInv
<1>5. CASE UNCHANGED versionVars
  BY <1>5 DEF versionVars, VersionInv, MarkersLive
<1> QED BY <1>1, <1>2, <1>3, <1>4, <1>5 DEF VersionNext

\* Whatever is deployed and deprecated while runs are open, a replay takes in
\* every pass the branch the pass took when it was live: match, for any number
\* of versions and runs.
THEOREM ReplaysTakeTheirBranch == VersionSpec => []ReplaysAgree
<1>1. VersionSpec => []VersionInv
  BY VersionInvHolds, VersionInvStep, PTL DEF VersionSpec
<1> QED BY <1>1, VersionInvAgrees, PTL

-----------------------------------------------------------------------------
(* StateCells.                                                             *)

\* The steps before the one the cell was set at are done, and a run that is
\* parked or calls an activity is at a step.
CellInv ==
  /\ code \in [Step -> {"await", "call"}]
  /\ done \subseteq Step /\ stateCells \in 0 .. Steps + 1
  /\ 1 .. stateCells - 1 \subseteq done
  /\ run \in {"parked", "calling", "closed", "failed"}
  /\ run = "calling" => stateCells \in Step
  /\ run = "parked" => stateCells <= Steps
  /\ run = "closed" => stateCells = Steps + 1

\* The body stops at a step that is not done, or at its end, and all steps
\* from the first one it set the cell at are done.
LEMMA StopsAt ==
  ASSUME NEW first \in 1 .. Steps + 1, NEW completed, completed \subseteq Step
  PROVE  LET stop == Min((first .. Steps + 1) \ completed) IN
         /\ stop \in first .. Steps + 1
         /\ first .. stop - 1 \subseteq completed
<1> DEFINE todo == (first .. Steps + 1) \ completed
           stop == Min(todo)
<1> USE StateCellsAssumption
<1>1. Steps + 1 \in todo
  BY DEF Step
<1>2. todo \subseteq Nat /\ todo # {}
  BY <1>1
<1>3. stop \in todo /\ \A y \in todo : stop <= y
  <2> HIDE DEF todo
  <2> QED BY <1>2, LeastOf
<1>4. stop \in first .. Steps + 1
  BY <1>3
<1>5. first .. stop - 1 \subseteq completed
  <2> HIDE DEF stop
  <2> SUFFICES ASSUME NEW i \in first .. stop - 1, i \notin completed PROVE FALSE
    OBVIOUS
  <2>1. i \in todo
    BY <1>4
  <2> QED BY <1>3, <1>4, <2>1
<1> QED BY <1>4, <1>5

\* Where a body that goes on from first leaves the cell and the run.
LEMMA CellsSet ==
  ASSUME CellInv, NEW first \in 1 .. Steps + 1, NEW completed, completed \subseteq Step,
         1 .. first - 1 \subseteq completed, SetCells(first, completed)
  PROVE  /\ stateCells' \in first .. Steps + 1
         /\ 1 .. stateCells' - 1 \subseteq completed
         /\ run' \in {"parked", "calling", "closed", "failed"}
         /\ run' \in {"parked", "calling"} => stateCells' \in Step
         /\ run' = "closed" => stateCells' = Steps + 1
<1> USE StateCellsAssumption
<1>1. /\ stateCells' \in first .. Steps + 1
      /\ first .. stateCells' - 1 \subseteq completed
  BY StopsAt DEF SetCells
<1>2. 1 .. stateCells' - 1 \subseteq completed
  <2>1. PICK n \in first .. Steps + 1 : n = stateCells' /\ first .. n - 1 \subseteq completed
    BY <1>1
  <2>2. 1 .. n - 1 \subseteq completed
    <3> SUFFICES ASSUME NEW i \in 1 .. n - 1 PROVE i \in completed
      OBVIOUS
    <3>1. i \in 1 .. first - 1 \/ i \in first .. n - 1
      OBVIOUS
    <3> QED BY <2>1, <3>1
  <2> QED BY <2>1, <2>2
<1>3. run' = IF stateCells' <= Steps /\ code[stateCells'] = "call" THEN "calling"
             ELSE IF held THEN "failed"
             ELSE IF stateCells' <= Steps THEN "parked" ELSE "closed"
  BY DEF SetCells
<1>4. stateCells' <= Steps => stateCells' \in Step
  BY <1>1 DEF Step
<1>5. stateCells' <= Steps \/ stateCells' = Steps + 1
  BY <1>1
<1>6. run' \in {"parked", "calling", "closed", "failed"}
  BY <1>3
<1>7. run' \in {"parked", "calling"} => stateCells' <= Steps
  BY <1>3
<1>8. run' = "closed" => ~(stateCells' <= Steps)
  BY <1>3
<1> QED BY <1>1, <1>2, <1>4, <1>5, <1>6, <1>7, <1>8

\* Before the first pass no step is done.
LEMMA CellInvHolds == CellInit => CellInv
  BY StateCellsAssumption DEF CellInit, CellInv, Step

\* Every step keeps the invariant and never sets the cell back.
LEMMA CellInvStep ==
  ASSUME CellInv, [CellNext]_cellVars
  PROVE  CellInv' /\ stateCells' >= stateCells
<1> USE StateCellsAssumption
<1>0. stateCells \in 0 .. Steps + 1 /\ stateCells \in Int
  BY DEF CellInv
<1>1. CASE Pass
  <2>1. SetCells(1, done) /\ UNCHANGED <<code, done>>
    BY <1>1 DEF Pass
  <2>2. /\ stateCells' \in 1 .. Steps + 1
        /\ 1 .. stateCells' - 1 \subseteq done
        /\ run' \in {"parked", "calling", "closed", "failed"}
        /\ run' \in {"parked", "calling"} => stateCells' \in Step
        /\ run' = "closed" => stateCells' = Steps + 1
    <3>1. 1 \in 1 .. Steps + 1 /\ done \subseteq Step /\ 1 .. 1 - 1 \subseteq done
      BY DEF CellInv
    <3> QED BY <2>1, <3>1, CellsSet
  <2>3. stateCells' >= stateCells
    <3> SUFFICES ASSUME stateCells' < stateCells PROVE FALSE
      BY <1>0, <2>2
    <3>1. stateCells' \in done
      BY <1>0, <2>2 DEF CellInv
    <3>2. stateCells' \notin done
      <4>1. stateCells' = Min((1 .. Steps + 1) \ done)
        BY <2>1 DEF SetCells
      <4> DEFINE todo == (1 .. Steps + 1) \ done
      <4>2. Steps + 1 \in todo
        BY DEF CellInv, Step
      <4>3. todo \subseteq Nat /\ todo # {}
        BY <4>2
      <4>4. Min(todo) \in todo
        <5> HIDE DEF todo
        <5> QED BY <4>3, LeastOf
      <4> QED BY <4>1, <4>4
    <3> QED BY <3>1, <3>2
  <2>4. CellInv'
    <3>1. stateCells' \in 0 .. Steps + 1 /\ (stateCells' \in Step => stateCells' <= Steps)
      BY <2>2 DEF Step
    <3> QED BY <2>1, <2>2, <3>1 DEF CellInv
  <2> QED BY <2>3, <2>4
<1>2. ASSUME run = "calling", done' = done \cup {stateCells}, SetCells(stateCells + 1, done'), UNCHANGED code
      PROVE  CellInv' /\ stateCells' >= stateCells
  <2>1. stateCells \in Step
    BY <1>2 DEF CellInv
  <2>2. stateCells + 1 \in 1 .. Steps + 1 /\ done' \subseteq Step
    BY <1>2, <2>1 DEF CellInv, Step
  <2>3. 1 .. (stateCells + 1) - 1 \subseteq done'
    <3> SUFFICES ASSUME NEW i \in 1 .. stateCells PROVE i \in done'
      BY <1>0
    <3>1. i = stateCells \/ i \in 1 .. stateCells - 1
      BY <1>0
    <3> QED BY <1>2, <3>1 DEF CellInv
  <2>4. /\ stateCells' \in stateCells + 1 .. Steps + 1
        /\ 1 .. stateCells' - 1 \subseteq done'
        /\ run' \in {"parked", "calling", "closed", "failed"}
        /\ run' \in {"parked", "calling"} => stateCells' \in Step
        /\ run' = "closed" => stateCells' = Steps + 1
    <3> DEFINE first == stateCells + 1
               completed == done'
    <3> HIDE DEF first, completed
    <3>1. first \in 1 .. Steps + 1 /\ completed \subseteq Step /\ 1 .. first - 1 \subseteq completed
      BY <2>2, <2>3 DEF first, completed
    <3>2. SetCells(first, completed)
      BY <1>2 DEF first, completed
    <3>3. /\ stateCells' \in first .. Steps + 1
          /\ 1 .. stateCells' - 1 \subseteq completed
          /\ run' \in {"parked", "calling", "closed", "failed"}
          /\ run' \in {"parked", "calling"} => stateCells' \in Step
          /\ run' = "closed" => stateCells' = Steps + 1
      BY <3>1, <3>2, CellsSet
    <3> QED BY <3>3 DEF first, completed
  <2>5. stateCells' \in 0 .. Steps + 1 /\ (stateCells' \in Step => stateCells' <= Steps) /\ stateCells' >= stateCells
    BY <1>0, <2>4 DEF Step
  <2> QED BY <1>2, <2>2, <2>4, <2>5 DEF CellInv
<1>3. CASE CallReturns
  <2>1. CASE run' = "failed" /\ UNCHANGED <<done, stateCells>>
    BY <1>0, <1>3, <2>1 DEF CallReturns, CellInv
  <2>2. CASE done' = done \cup {stateCells} /\ SetCells(stateCells + 1, done')
    BY <1>2, <1>3, <2>2 DEF CallReturns
  <2> QED BY <1>3, <2>1, <2>2 DEF CallReturns
<1>4. CASE interrupt
  BY <1>0, <1>4 DEF interrupt, CellInv
<1>5. CASE resume
  BY <1>0, <1>5 DEF resume, CellInv
<1>6. ASSUME NEW i \in Step, completeDeferred(i) PROVE CellInv' /\ stateCells' >= stateCells
  BY <1>0, <1>6 DEF completeDeferred, CellInv
<1>7. CASE UNCHANGED cellVars
  BY <1>0, <1>7 DEF cellVars, CellInv
<1> QED BY <1>1, <1>3, <1>4, <1>5, <1>6, <1>7 DEF CellNext

\* What a step shows to the observers of the cell.
LEMMA CellAdvances ==
  ASSUME CellInv, CellInv', stateCells' >= stateCells
  PROVE  /\ \A old \in readStateCell : \E new \in readStateCell' : new >= old
         /\ run' = "closed" => readStateCell' = {Steps + 1}
         /\ Steps + 1 \in readStateCell' => run' \in {"closed", "failed"} /\ done' = Step
<1> USE StateCellsAssumption
<1>0. stateCells \in 0 .. Steps + 1 /\ stateCells' \in 0 .. Steps + 1
  BY DEF CellInv
<1>1. \A old \in readStateCell : \E new \in readStateCell' : new >= old
  BY <1>0 DEF readStateCell
<1>2. run' = "closed" => readStateCell' = {Steps + 1}
  BY <1>0 DEF readStateCell, CellInv
<1>3. ASSUME Steps + 1 \in readStateCell' PROVE run' \in {"closed", "failed"} /\ done' = Step
  <2>1. stateCells' = Steps + 1
    BY <1>3 DEF readStateCell
  <2>2. run' \in {"closed", "failed"}
    BY <2>1 DEF CellInv, Step
  <2>3. done' = Step
    <3>1. stateCells' - 1 = Steps
      BY <2>1
    <3>2. done' \subseteq Step /\ 1 .. stateCells' - 1 \subseteq done'
      BY DEF CellInv
    <3> QED BY <3>1, <3>2 DEF Step
  <2> QED BY <2>2, <2>3
<1> QED BY <1>1, <1>2, <1>3

\* Whatever is interrupted, resumed or completed early, and though each pass
\* sets the cell from its first value again, observers never read an earlier
\* step than before, for bodies of any number of steps.
THEOREM CellsAdvance == CellSpec => PhaseAdvances
<1>1. CellInv /\ [CellNext]_cellVars => CellInv'
  BY CellInvStep
<1>2. CellInv /\ CellInv' /\ [CellNext]_cellVars =>
        [/\ \A old \in readStateCell : \E new \in readStateCell' : new >= old
         /\ run' = "closed" => readStateCell' = {Steps + 1}
         /\ Steps + 1 \in readStateCell' => run' \in {"closed", "failed"} /\ done' = Step]_cellVars
  BY CellInvStep, CellAdvances
<1>3. CellSpec => []CellInv
  BY CellInvHolds, <1>1, PTL DEF CellSpec
<1> QED BY <1>2, <1>3, PTL DEF CellSpec, PhaseAdvances

-----------------------------------------------------------------------------
(* ChildOutcome.                                                           *)

OutcomeType ==
  /\ attempt \in 0 .. MaxAttempts /\ handled \in Seq(Exits)
  /\ typedMemo \in Exits \cup {NoExit} /\ childExit \in Exits \cup {NoExit, "killed"}
  /\ childRuns \in Nat /\ child \in {"none", "open", "closed"}
  /\ beside \in BOOLEAN /\ calling \in BOOLEAN
  /\ repeats \in [parent : Nat, child : Nat]
  /\ childMemo \in Exits \cup {NoExit} /\ seen \in Seq(Exits \cup {NoExit})

\* An attempt that runs follows only attempts that threw; the call has ended
\* with the exit it memoized, and the body with what it made of that.
BodyInv ==
  /\ attempt > 0 => BodyRuns /\ typedMemo = NoExit /\ Len(handled) = attempt - 1
  /\ BodyRuns /\ typedMemo = NoExit /\ attempt = 0 => handled = <<>>
  /\ Len(handled) <= MaxAttempts
  /\ \A n \in 1 .. Len(handled) : Throws(handled[n]) \/ (n = Len(handled) /\ attempt = 0)
  /\ typedMemo # NoExit => handled # <<>> /\ Last(handled) = typedMemo /\ ~Throws(typedMemo)
  /\ childExit \in Exits =>
       handled # <<>> /\ childExit = IF Throws(Last(handled)) THEN "die" ELSE Last(handled)

\* What a child that ended so closed with.
ClosedWith(e) ==
  IF e = "killed" THEN <<Foreign("Terminated")>>
  ELSE IF IsFailure(e) THEN <<ExitFailure(e)>> ELSE <<>>

ChildInv ==
  /\ child = "open" => childExit # "killed"
  /\ child = "closed" => childExit # NoExit /\ failure = ClosedWith(childExit)

\* What the parent is to be given.
Outcome(e) == IF e = "killed" THEN "die" ELSE e

\* A parent with one fiber waits for the child from its start until the
\* outcome is memoized, and has been given nothing before.
ParentInv ==
  /\ calling => Len(seen) = repeats.parent
  /\ ~beside =>
       /\ child = "open" => calling
       /\ childMemo = NoExit => seen = <<>> /\ (calling \/ childRuns = 0)
       /\ childRuns = 0 => ~calling /\ childMemo = NoExit
       /\ calling => childRuns = 1 /\ childMemo = NoExit
       /\ childRuns <= 1
       /\ childMemo # NoExit =>
            child = "closed" /\ childMemo = Outcome(childExit) /\ \A n \in DOMAIN seen : seen[n] = Outcome(childExit)

OutcomeInv == OutcomeType /\ BodyInv /\ ChildInv /\ ParentInv

\* Two sequences of one element in a row.
LEMMA Pair ==
  ASSUME NEW a, NEW b
  PROVE  <<a>> \o <<b>> = <<a, b>>
<1> DEFINE S == {a, b}
<1>1. <<a>> \in Seq(S) /\ <<b>> \in Seq(S) /\ <<a, b>> \in Seq(S)
  OBVIOUS
<1>2. /\ <<a>> \o <<b>> \in Seq(S)
      /\ Len(<<a>> \o <<b>>) = 2
      /\ (<<a>> \o <<b>>)[1] = a /\ (<<a>> \o <<b>>)[2] = b
  <2>1. Len(<<a>>) = 1 /\ Len(<<b>>) = 1
    OBVIOUS
  <2> HIDE DEF S
  <2>2. \A i \in 1 .. 1 + 1 : (<<a>> \o <<b>>)[i] = IF i <= 1 THEN <<a>>[i] ELSE <<b>>[i - 1]
    BY <1>1, <2>1, ConcatProperties
  <2> QED BY <1>1, <2>1, <2>2, ConcatProperties
<1>3. Len(<<a, b>>) = 2 /\ \A i \in 1 .. 2 : (<<a>> \o <<b>>)[i] = <<a, b>>[i]
  BY <1>2
<1> HIDE DEF S
<1> QED BY <1>1, <1>2, <1>3, SeqEqual

\* However Temporal wraps the failure a child closed with, the parent finds
\* the exit in it, or a defect in that of a child that did not end itself.
LEMMA Unwrapped ==
  ASSUME NEW e \in Exits \cup {"killed"}
  PROVE  LET chain == ClosedWith(e) IN
         decodeChild(IF chain = <<>> THEN <<>> ELSE <<Foreign("ChildWorkflowFailure")>> \o chain) = Outcome(e)
<1> DEFINE wrapper == Foreign("ChildWorkflowFailure")
<1> USE NoExitAssumption
<1>1. CASE e = "success"
  <2>1. ClosedWith(e) = <<>>
    BY <1>1 DEF ClosedWith, IsFailure
  <2>2. decodeChild(<<>>) = "success"
    BY DEF decodeChild
  <2> QED BY <1>1, <2>1, <2>2 DEF Outcome
<1>2. CASE e = "killed"
  <2>1. ClosedWith(e) = <<Foreign("Terminated")>>
    BY <1>2 DEF ClosedWith
  <2> DEFINE chain == <<wrapper>> \o <<Foreign("Terminated")>>
  <2>2. chain = <<wrapper, Foreign("Terminated")>>
    BY Pair
  <2>3. \A n \in DOMAIN chain : ~isEffectWorkflowExitFailure(chain[n])
    BY <2>2 DEF isEffectWorkflowExitFailure, Foreign
  <2>4. chain # <<>>
    BY <2>2
  <2> HIDE DEF chain
  <2>5. findEncodedWorkflowExit(chain) = NoExit
    BY <2>3 DEF findEncodedWorkflowExit
  <2>6. decodeChild(chain) = "die"
    BY <2>4, <2>5 DEF decodeChild
  <2> QED BY <1>2, <2>1, <2>6 DEF Outcome, chain
<1>3. CASE e \in Exits /\ e # "success"
  <2>1. ClosedWith(e) = <<ExitFailure(e)>> /\ e # NoExit /\ e # "killed"
    BY <1>3 DEF ClosedWith, IsFailure, Exits
  <2> DEFINE chain == <<wrapper>> \o <<ExitFailure(e)>>
  <2>2. chain = <<wrapper, ExitFailure(e)>>
    BY Pair
  <2>3. chain # <<>> /\ DOMAIN chain = 1 .. 2 /\ Len(chain) = 2 /\ chain[1] = wrapper /\ chain[2] = ExitFailure(e)
    BY <2>2
  <2> HIDE DEF chain
  <2>4. isEffectWorkflowExitFailure(chain[2]) /\ ~isEffectWorkflowExitFailure(chain[1]) /\ chain[2].exit = e
    BY <2>3 DEF isEffectWorkflowExitFailure, Foreign, ExitFailure
  <2>5. SelectInSeq(chain, isEffectWorkflowExitFailure) = 2
    <3> DEFINE I == {i \in 1 .. Len(chain) : isEffectWorkflowExitFailure(chain[i])}
    <3>1. I = {2}
      BY <2>3, <2>4
    <3>2. Min({2}) = 2
      BY DEF Min
    <3> QED BY <3>1, <3>2 DEF SelectInSeq
  <2>6. findEncodedWorkflowExit(chain) = e
    BY <2>3, <2>4, <2>5 DEF findEncodedWorkflowExit
  <2>7. decodeChild(chain) = e
    BY <2>1, <2>3, <2>6 DEF decodeChild
  <2> QED BY <2>1, <2>7 DEF Outcome, chain
<1> QED BY <1>1, <1>2, <1>3

\* At first neither the parent nor the child has run.
LEMMA OutcomeInvHolds == OutcomeInit => OutcomeInv
<1> SUFFICES ASSUME OutcomeInit PROVE OutcomeInv
  OBVIOUS
<1> USE NoExitAssumption, ChildOutcomeAssumption
<1>1. OutcomeType
  <2>1. beside \in BOOLEAN /\ calling \in BOOLEAN
    BY Zenon DEF OutcomeInit
  <2>2. attempt \in 0 .. MaxAttempts /\ handled \in Seq(Exits) /\ seen \in Seq(Exits \cup {NoExit})
    BY DEF OutcomeInit
  <2>3. childRuns \in Nat /\ repeats \in [parent : Nat, child : Nat]
    BY DEF OutcomeInit
  <2> QED BY <2>1, <2>2, <2>3, Zenon DEF OutcomeInit, OutcomeType
<1>2. BodyInv
  BY DEF OutcomeInit, BodyInv, BodyRuns, Exits
<1>3. ChildInv /\ ParentInv
  BY DEF OutcomeInit, ChildInv, ParentInv
<1> QED BY <1>1, <1>2, <1>3 DEF OutcomeInv

\* What every pass of the parent was given is the exit of the child, and no
\* attempt follows one that did not throw.
LEMMA OutcomeInvAgrees == OutcomeInv => OutcomesTravel /\ OnlyThrownRetried
<1> SUFFICES ASSUME OutcomeInv PROVE OutcomesTravel /\ OnlyThrownRetried
  OBVIOUS
<1> USE NoExitAssumption DEF OutcomeInv
<1>1. OnlyThrownRetried
  <2> SUFFICES ASSUME NEW n \in 1 .. Len(handled) - 1 PROVE handled[n] \in {"die", "interrupt"}
    BY DEF OnlyThrownRetried, BodyInv
  <2>1. Len(handled) \in Nat /\ n \in 1 .. Len(handled) /\ n # Len(handled)
    BY DEF OutcomeType
  <2>2. Throws(handled[n]) /\ handled[n] \in Exits
    BY <2>1 DEF OutcomeType, BodyInv
  <2> QED BY <2>2 DEF Throws, IsFailure, HasFails, Exits
<1>2. OutcomesTravel
  <2>1. ASSUME ~beside, NEW n \in DOMAIN seen
        PROVE  child = "closed" /\ seen[n] = IF childExit = "killed" THEN "die" ELSE childExit
    BY <2>1 DEF ParentInv, Outcome
  <2>2. childExit \notin {NoExit, "killed"} => childExit \in Exits
    BY DEF OutcomeType
  <2> QED BY <2>1, <2>2 DEF OutcomesTravel, ParentInv, BodyInv
<1> QED BY <1>1, <1>2

\* What the steps of the parent leave alone of the child, and conversely.
LEMMA ChildLeft ==
  ASSUME OutcomeInv, UNCHANGED <<activityVars, childVars>>
  PROVE  BodyInv' /\ ChildInv'
<1>1. UNCHANGED <<attempt, handled, typedMemo, child, childExit, failure>>
  BY DEF activityVars, childVars
<1>2. BodyInv /\ ChildInv
  BY DEF OutcomeInv
<1>3. BodyInv'
  BY <1>1, <1>2 DEF BodyInv, BodyRuns
<1>4. ChildInv'
  BY <1>1, <1>2 DEF ChildInv
<1> QED BY <1>3, <1>4

\* What the parent does in a pass: read the memo, start the child, be refused,
\* be given the outcome, or suspend.
LEMMA ParentSteps ==
  ASSUME OutcomeInv,
         executeMemoized \/ executeChild \/ executeRefused \/ executeReturns \/ ParentSuspends
  PROVE  OutcomeInv'
<1> USE NoExitAssumption, ChildOutcomeAssumption
<1>0. OutcomeType /\ BodyInv /\ ChildInv /\ ParentInv
  BY DEF OutcomeInv
<1>1. CASE executeMemoized
  <2>1. /\ childMemo \in Exits /\ ~calling /\ seen' = Append(seen, childMemo)
        /\ UNCHANGED <<activityVars, childVars, repeats, calling, childMemo>>
    BY <1>0, <1>1 DEF executeMemoized, ReachesCall, OutcomeType
  <2>2. UNCHANGED <<beside, attempt, handled, typedMemo, childRuns, child, childExit, failure>>
    BY <2>1 DEF activityVars, childVars
  <2>3. OutcomeType'
    BY <1>0, <2>1, <2>2 DEF OutcomeType
  <2>4. ParentInv'
    <3>1. ASSUME ~beside, NEW n \in DOMAIN seen' PROVE seen'[n] = Outcome(childExit)
      BY <1>0, <2>1, <3>1 DEF ParentInv, OutcomeType
    <3> QED BY <1>0, <2>1, <2>2, <3>1 DEF ParentInv
  <2> QED BY <2>1, <2>3, <2>4, ChildLeft DEF OutcomeInv
<1>2. CASE executeChild
  <2>1. /\ ~calling /\ Len(seen) = repeats.parent /\ childMemo = NoExit
        /\ child' = "open" /\ childRuns' = childRuns + 1 /\ childExit' = NoExit
        /\ attempt' = 0 /\ typedMemo' = NoExit /\ handled' = <<>>
        /\ repeats' = [repeats EXCEPT !.child = 0] /\ calling' = TRUE
        /\ UNCHANGED <<beside, childMemo, seen>>
    BY <1>2 DEF executeChild, ReachesCall
  <2>2. OutcomeType'
    BY <1>0, <2>1 DEF OutcomeType
  <2>3. BodyInv'
    BY <1>0, <2>1 DEF BodyInv, Exits, OutcomeType, BodyRuns
  <2>4. ChildInv'
    BY <2>1 DEF ChildInv
  <2>5. repeats'.parent = repeats.parent
    BY <1>0, <2>1 DEF OutcomeType
  <2>6. ~beside => childRuns = 0
    BY <1>0, <2>1 DEF ParentInv
  <2>7. ParentInv'
    BY <1>0, <2>1, <2>5, <2>6 DEF ParentInv
  <2> QED BY <2>2, <2>3, <2>4, <2>7 DEF OutcomeInv
<1>3. CASE executeRefused
  <2> DEFINE e == decodeChild(<<Foreign("WorkflowExecutionAlreadyStarted")>>)
  <2>1. e = "die"
    <3>1. findEncodedWorkflowExit(<<Foreign("WorkflowExecutionAlreadyStarted")>>) = NoExit
      BY DEF findEncodedWorkflowExit, isEffectWorkflowExitFailure, Foreign
    <3> QED BY <3>1 DEF decodeChild
  <2>2. /\ child = "open" /\ childMemo = NoExit /\ ~calling
        /\ childMemo' = "die" /\ seen' = Append(seen, "die")
        /\ UNCHANGED <<activityVars, childVars, repeats, calling>>
    <3> HIDE DEF e
    <3>1. childMemo' = e /\ seen' = Append(seen, e)
      BY <1>3 DEF executeRefused, e
    <3> QED BY <1>3, <2>1, <3>1 DEF executeRefused, ReachesCall
  <2>3. UNCHANGED <<beside, attempt, handled, typedMemo, childRuns, child, childExit, failure>>
    BY <2>2 DEF activityVars, childVars
  <2>4. beside
    BY <1>0, <2>2 DEF ParentInv
  <2>5. OutcomeType'
    BY <1>0, <2>2, <2>3 DEF OutcomeType, Exits
  <2>6. ParentInv'
    BY <1>0, <2>2, <2>3, <2>4 DEF ParentInv
  <2> QED BY <2>2, <2>5, <2>6, ChildLeft DEF OutcomeInv
<1>4. CASE executeReturns
  <2> DEFINE e == decodeChild(IF failure = <<>> THEN <<>> ELSE <<Foreign("ChildWorkflowFailure")>> \o failure)
  <2>1. calling /\ child = "closed" /\ childMemo' = e /\ seen' = Append(seen, e) /\ calling' = FALSE
    BY <1>4 DEF executeReturns
  <2>2. UNCHANGED <<beside, attempt, handled, typedMemo, childRuns, child, childExit, failure, repeats>>
    BY <1>4 DEF executeReturns, activityVars, childVars
  <2>3. childExit \in Exits \cup {"killed"} /\ failure = ClosedWith(childExit)
    BY <1>0, <2>1 DEF ChildInv, OutcomeType
  <2>4. e = Outcome(childExit)
    BY <2>3, Unwrapped
  <2>5. e \in Exits /\ e # NoExit
    <3> HIDE DEF e
    <3> QED BY <2>3, <2>4 DEF Outcome, Exits
  <2> HIDE DEF e
  <2>6. OutcomeType'
    <3>1. calling' \in BOOLEAN /\ beside' \in BOOLEAN
      BY <1>0, <2>1, <2>2, Zenon DEF OutcomeType
    <3>2. seen' \in Seq(Exits \cup {NoExit}) /\ childMemo' \in Exits \cup {NoExit}
      BY <1>0, <2>1, <2>5 DEF OutcomeType
    <3> QED BY <1>0, <2>2, <3>1, <3>2, Zenon DEF OutcomeType
  <2>7. ParentInv'
    <3>1. ASSUME ~beside PROVE seen = <<>> /\ childRuns = 1 /\ seen' = <<e>>
      BY <1>0, <2>1, <3>1 DEF ParentInv
    <3>2. ASSUME ~beside, NEW n \in DOMAIN seen' PROVE seen'[n] = Outcome(childExit)
      BY <2>4, <3>1, <3>2
    <3> QED BY <1>0, <2>1, <2>2, <2>4, <2>5, <3>1, <3>2 DEF ParentInv
  <2>8. UNCHANGED <<activityVars, childVars>>
    BY <1>4 DEF executeReturns
  <2> QED BY <2>6, <2>7, <2>8, ChildLeft DEF OutcomeInv
<1>5. CASE ParentSuspends
  <2>1. /\ Len(seen) > repeats.parent \/ (beside /\ calling)
        /\ repeats' = [repeats EXCEPT !.parent = @ + 1] /\ calling' = FALSE
        /\ seen' = (IF calling THEN Append(seen, NoExit) ELSE seen)
        /\ UNCHANGED <<activityVars, childVars, childMemo>>
    BY <1>5 DEF ParentSuspends
  <2>2. UNCHANGED <<beside, attempt, handled, typedMemo, childRuns, child, childExit, failure>>
    BY <2>1 DEF activityVars, childVars
  <2>3. OutcomeType'
    <3>1. calling' \in BOOLEAN /\ beside' \in BOOLEAN
      BY <1>0, <2>1, <2>2, Zenon DEF OutcomeType
    <3>2. seen' \in Seq(Exits \cup {NoExit}) /\ childMemo' \in Exits \cup {NoExit}
      BY <1>0, <2>1 DEF OutcomeType
    <3>3. repeats' \in [parent : Nat, child : Nat]
      <4>1. repeats \in [parent : Nat, child : Nat] /\ repeats' = [repeats EXCEPT !.parent = @ + 1]
        BY <1>0, <2>1, Zenon DEF OutcomeType
      <4> QED BY <4>1
    <3> QED BY <1>0, <2>2, <3>1, <3>2, <3>3, Zenon DEF OutcomeType
  <2>4. ~beside => ~calling /\ seen' = seen
    BY <1>0, <2>1 DEF ParentInv, OutcomeType
  <2>5. ParentInv'
    BY <1>0, <2>1, <2>2, <2>4 DEF ParentInv
  <2> QED BY <2>1, <2>3, <2>5, ChildLeft DEF OutcomeInv
<1> QED BY <1>1, <1>2, <1>3, <1>4, <1>5

\* The steps of an open child leave the parent alone.
LEMMA ParentLeft ==
  ASSUME OutcomeInv, child = "open", UNCHANGED <<parentVars, childRuns, beside>>,
         repeats'.parent = repeats.parent, ~beside => child' \in {"open", "closed"}
  PROVE  ParentInv'
<1>1. UNCHANGED <<calling, childMemo, seen, childRuns, beside>>
  BY DEF parentVars
<1>2. ParentInv
  BY DEF OutcomeInv
<1>3. ~beside => calling /\ childMemo = NoExit /\ childRuns = 1 /\ seen = <<>>
  BY <1>2 DEF ParentInv
<1> QED BY <1>1, <1>2, <1>3 DEF ParentInv

\* The handler ends with e.
LEMMA HandlerSteps ==
  ASSUME OutcomeInv, HandlerEnds
  PROVE  OutcomeInv'
<1> USE NoExitAssumption, ChildOutcomeAssumption
<1>0. OutcomeType /\ BodyInv /\ ChildInv /\ ParentInv
  BY DEF OutcomeInv
<1>1. /\ BodyRuns /\ attempt > 0
      /\ UNCHANGED <<beside, childRuns, child, failure, repeats, parentVars>>
  BY DEF HandlerEnds
<1>2. PICK e \in Exits :
        /\ handled' = Append(handled, e)
        /\ IF ~Throws(e)
           THEN attempt' = 0 /\ typedMemo' = e /\ childExit' = childExit
           ELSE IF attempt < MaxAttempts
                THEN attempt' = attempt + 1 /\ UNCHANGED <<typedMemo, childExit>>
                ELSE attempt' = 0 /\ typedMemo' = typedMemo /\ childExit' = "die"
  BY DEF HandlerEnds
<1>3. /\ child = "open" /\ childExit = NoExit /\ typedMemo = NoExit
      /\ handled \in Seq(Exits) /\ Len(handled) = attempt - 1 /\ attempt \in 1 .. MaxAttempts
      /\ MaxAttempts \in Nat
  BY <1>0, <1>1 DEF BodyInv, BodyRuns, OutcomeType
<1>4. /\ handled' \in Seq(Exits) /\ Len(handled') = attempt /\ Last(handled') = e
      /\ handled' # <<>>
      /\ \A n \in 1 .. attempt - 1 : handled'[n] = handled[n]
      /\ handled'[attempt] = e
  BY <1>2, <1>3 DEF Last
<1>5. \A n \in 1 .. Len(handled) : Throws(handled[n])
  BY <1>0, <1>1 DEF BodyInv
<1>6. \A n \in 1 .. attempt : Throws(handled'[n]) \/ (n = attempt /\ ~Throws(e))
  BY <1>3, <1>4, <1>5
<1>7. UNCHANGED <<beside, childRuns, child, failure, repeats, calling, childMemo, seen>>
  BY <1>1 DEF parentVars
<1>8. ParentInv'
  BY <1>1, <1>3, <1>7, ParentLeft
<1>9. CASE ~Throws(e)
  <2>1. attempt' = 0 /\ typedMemo' = e /\ childExit' = NoExit
    BY <1>2, <1>3, <1>9
  <2>2. OutcomeType'
    <3>1. attempt' \in 0 .. MaxAttempts
      BY <2>1
    <3> QED BY <1>0, <1>4, <1>7, <2>1, <3>1, Zenon DEF OutcomeType
  <2>3. BodyInv'
    BY <1>3, <1>4, <1>6, <1>9, <2>1 DEF BodyInv, BodyRuns, Exits
  <2>4. ChildInv'
    BY <1>3, <1>7, <2>1 DEF ChildInv
  <2> QED BY <1>8, <2>2, <2>3, <2>4 DEF OutcomeInv
<1>10. CASE Throws(e) /\ attempt < MaxAttempts
  <2>1. attempt' = attempt + 1 /\ typedMemo' = NoExit /\ childExit' = NoExit
    BY <1>2, <1>3, <1>10
  <2>2. OutcomeType'
    <3>1. attempt' \in 0 .. MaxAttempts
      BY <1>3, <1>10, <2>1
    <3> QED BY <1>0, <1>4, <1>7, <2>1, <3>1, Zenon DEF OutcomeType
  <2>3. BodyInv'
    BY <1>3, <1>4, <1>6, <1>7, <1>10, <2>1 DEF BodyInv, BodyRuns, Exits
  <2>4. ChildInv'
    BY <1>3, <1>7, <2>1 DEF ChildInv
  <2> QED BY <1>8, <2>2, <2>3, <2>4 DEF OutcomeInv
<1>11. CASE Throws(e) /\ ~(attempt < MaxAttempts)
  <2>1. attempt' = 0 /\ typedMemo' = NoExit /\ childExit' = "die" /\ "die" \in Exits
    BY <1>2, <1>3, <1>11 DEF Exits
  <2>2. OutcomeType'
    <3>1. attempt' \in 0 .. MaxAttempts
      BY <2>1
    <3> QED BY <1>0, <1>4, <1>7, <2>1, <3>1, Zenon DEF OutcomeType
  <2>3. BodyInv'
    BY <1>3, <1>4, <1>6, <1>7, <1>11, <2>1 DEF BodyInv, BodyRuns
  <2>4. ChildInv'
    BY <1>3, <1>7, <2>1 DEF ChildInv
  <2> QED BY <1>8, <2>2, <2>3, <2>4 DEF OutcomeInv
<1> QED BY <1>9, <1>10, <1>11

\* What the child does in its body, and how it closes.
LEMMA ChildSteps ==
  ASSUME OutcomeInv,
         CallActivity \/ HandlerEnds \/ ChildSuspends \/ ChildBodyEnds \/ ChildCloses \/ ChildKilled
  PROVE  OutcomeInv'
<1> USE NoExitAssumption, ChildOutcomeAssumption
<1>0. OutcomeType /\ BodyInv /\ ChildInv /\ ParentInv
  BY DEF OutcomeInv
<1>1. CASE CallActivity
  <2>1. /\ child = "open" /\ childExit = NoExit /\ typedMemo = NoExit /\ attempt = 0 /\ attempt' = 1
        /\ UNCHANGED <<beside, handled, typedMemo, childVars, repeats, parentVars>>
    BY <1>1 DEF CallActivity, BodyRuns
  <2>2. UNCHANGED <<childRuns, child, childExit, failure, calling, childMemo, seen>>
    BY <2>1 DEF childVars, parentVars
  <2>3. handled = <<>>
    BY <1>0, <2>1 DEF BodyInv, BodyRuns
  <2>4. OutcomeType'
    <3>1. attempt' \in 0 .. MaxAttempts
      BY <2>1
    <3> QED BY <1>0, <2>1, <2>2, <3>1, Zenon DEF OutcomeType
  <2>5. BodyInv'
    BY <1>0, <2>1, <2>2, <2>3 DEF BodyInv, BodyRuns, Exits
  <2>6. ChildInv' /\ ParentInv'
    BY <1>0, <2>1, <2>2, ParentLeft DEF ChildInv
  <2> QED BY <2>4, <2>5, <2>6 DEF OutcomeInv
<1>2. CASE HandlerEnds
  BY <1>2, HandlerSteps
<1>3. CASE ChildSuspends
  <2>1. /\ child = "open" /\ repeats' = [repeats EXCEPT !.child = @ + 1]
        /\ UNCHANGED <<activityVars, childVars, parentVars>>
    BY <1>3 DEF ChildSuspends, BodyRuns
  <2>2. /\ UNCHANGED <<beside, attempt, handled, typedMemo, childRuns, child, childExit, failure>>
        /\ UNCHANGED <<calling, childMemo, seen>>
    BY <2>1 DEF activityVars, childVars, parentVars
  <2>3. repeats' \in [parent : Nat, child : Nat] /\ repeats'.parent = repeats.parent
    BY <1>0, <2>1 DEF OutcomeType
  <2>4. OutcomeType'
    BY <1>0, <2>2, <2>3, Zenon DEF OutcomeType
  <2> QED BY <2>1, <2>2, <2>3, <2>4, ChildLeft, ParentLeft DEF OutcomeInv
<1>4. CASE ChildBodyEnds
  <2>1. /\ child = "open" /\ typedMemo # NoExit /\ childExit' = typedMemo
        /\ UNCHANGED <<activityVars, childRuns, child, failure, repeats, parentVars>>
    BY <1>4 DEF ChildBodyEnds, BodyRuns
  <2>2. UNCHANGED <<beside, attempt, handled, typedMemo, calling, childMemo, seen>>
    BY <2>1 DEF activityVars, parentVars
  <2>3. typedMemo \in Exits
    BY <1>0, <2>1 DEF OutcomeType
  <2>4. OutcomeType'
    BY <1>0, <2>1, <2>2, <2>3, Zenon DEF OutcomeType
  <2>5. BodyInv'
    BY <1>0, <2>1, <2>2, <2>3 DEF BodyInv, BodyRuns
  <2>6. ChildInv' /\ ParentInv'
    BY <2>1, <2>2, <2>3, ParentLeft DEF ChildInv, Exits
  <2> QED BY <2>4, <2>5, <2>6 DEF OutcomeInv
<1>5. CASE ChildCloses
  <2>1. /\ child = "open" /\ childExit # NoExit /\ child' = "closed"
        /\ failure' = (IF IsFailure(childExit) THEN <<ExitFailure(childExit)>> ELSE <<>>)
        /\ UNCHANGED <<activityVars, childRuns, childExit, repeats, parentVars>>
    BY <1>5 DEF ChildCloses
  <2>2. UNCHANGED <<beside, attempt, handled, typedMemo, calling, childMemo, seen>>
    BY <2>1 DEF activityVars, parentVars
  <2>3. OutcomeType'
    BY <1>0, <2>1, <2>2, Zenon DEF OutcomeType
  <2>4. BodyInv'
    BY <1>0, <2>1, <2>2 DEF BodyInv, BodyRuns
  <2>5. ChildInv'
    BY <1>0, <2>1 DEF ChildInv, ClosedWith
  <2>6. ParentInv'
    BY <2>1, <2>2, ParentLeft
  <2> QED BY <2>3, <2>4, <2>5, <2>6 DEF OutcomeInv
<1>6. CASE ChildKilled
  <2>1. /\ BodyRuns /\ child = "open" /\ child' = "closed" /\ childExit' = "killed" /\ attempt' = 0
        /\ failure' = <<Foreign("Terminated")>>
        /\ UNCHANGED <<beside, handled, typedMemo, childRuns, repeats, parentVars>>
    BY <1>6 DEF ChildKilled, BodyRuns
  <2>2. UNCHANGED <<calling, childMemo, seen>>
    BY <2>1 DEF parentVars
  <2>3. OutcomeType'
    <3>1. attempt' \in 0 .. MaxAttempts
      BY <2>1
    <3> QED BY <1>0, <2>1, <2>2, <3>1, Zenon DEF OutcomeType
  <2>4. BodyInv'
    BY <1>0, <2>1 DEF BodyInv, BodyRuns, Exits
  <2>5. ChildInv' /\ ParentInv'
    BY <2>1, <2>2, ParentLeft DEF ChildInv, ClosedWith
  <2> QED BY <2>3, <2>4, <2>5 DEF OutcomeInv
<1> QED BY <1>1, <1>2, <1>3, <1>4, <1>5, <1>6

\* A step is the parent's or the child's.
LEMMA OutcomeInvStep == OutcomeInv /\ [OutcomeNext]_outcomeVars => OutcomeInv'
<1> SUFFICES ASSUME OutcomeInv, [OutcomeNext]_outcomeVars PROVE OutcomeInv'
  OBVIOUS
<1>1. CASE UNCHANGED outcomeVars
  <2>1. /\ UNCHANGED <<beside, attempt, handled, typedMemo, childRuns, child, childExit, failure>>
        /\ UNCHANGED <<repeats, calling, childMemo, seen>>
    BY <1>1 DEF outcomeVars
  <2> QED BY <2>1 DEF OutcomeInv, OutcomeType, BodyInv, BodyRuns, ChildInv, ParentInv
<1> QED BY <1>1, ParentSteps, ChildSteps DEF OutcomeNext

\* However often parent and child suspend and whatever the handler ends with,
\* every pass of a parent with one fiber is given what the body of the child
\* made of the handler's exit, from a child that was started once.
THEOREM OutcomesReachTheParent == OutcomeSpec => []OutcomesTravel
<1>1. OutcomeSpec => []OutcomeInv
  BY OutcomeInvHolds, OutcomeInvStep, PTL DEF OutcomeSpec
<1>2. OutcomeInv => OutcomesTravel
  BY OutcomeInvAgrees
<1> QED BY <1>1, <1>2, PTL

\* No activity is run again after a typed failure, and none more often than
\* its policy allows, whatever the number of attempts and of passes.
THEOREM RetriesFollowThrows == OutcomeSpec => []OnlyThrownRetried
<1>1. OutcomeSpec => []OutcomeInv
  BY OutcomeInvHolds, OutcomeInvStep, PTL DEF OutcomeSpec
<1>2. OutcomeInv => OnlyThrownRetried
  BY OutcomeInvAgrees
<1> QED BY <1>1, <1>2, PTL

-----------------------------------------------------------------------------
(* BundleOrder: what evaluates in a bundle, and when.                      *)

\* The files that reach what only the host has.
HostFiles ==
  HostOnly \cup
  {"@effect-temporal/workflow", "@effect-temporal/client", "@effect-temporal/testing", "TemporalClient",
   "TemporalConnection", "TemporalNexusService", "TemporalWorker", "TemporalWorkflowEngine",
   "TemporalWorkflowInteractions", "client/TemporalActivityClient", "client/TemporalClient",
   "client/TemporalConnection", "client/TemporalDataConverter", "client/TemporalNexusClient",
   "client/TemporalScheduleClient", "client/TemporalTaskQueueClient", "client/TemporalWorkflowClient",
   "testing/TemporalTesting", "testing/TemporalStubClient", "testing/TemporalWorkflowHarness"}

\* The others, of the packages and of an entrypoint that imports e.
SandboxNames ==
  {"entry", "@temporalio/workflow", "@temporalio/common", "effect", "nexus-rpc", "TemporalWorkflowProtocol",
   "TemporalSandbox", "TemporalSandboxPolyfills", "TemporalWorkflowRuntime", "TemporalWorkflowWire",
   "TemporalContinueAsNew", "TemporalDurableMailbox", "TemporalDurableUpdate", "TemporalNexusOperation",
   "TemporalStateCell", "TemporalTypedActivity", "TemporalVersioning", "client/TemporalError",
   "client/TemporalSchema", "order-saga/definitions"}
Clean(e) == SandboxNames \cup ({e[i] : i \in DOMAIN e} \ HostFiles)

\* No file of the sandbox reaches what only the host has.
LEMMA NamesApart == SandboxNames \cap HostFiles = {}
BY DEF SandboxNames, HostFiles, HostOnly

\* What a clean file imports is clean: imports do not lead out of the sandbox.
LEMMA CleanImports ==
  ASSUME NEW e, NEW f \in Clean(e)
  PROVE  ImportsOf(f) \in Seq(Clean(e))
<1> DEFINE D == Clean(e)
           C == Seq(D)
<1>0. SandboxNames \subseteq D
  BY DEF Clean
<1> HIDE DEF D
<1>1. TemporalContinueAsNew \in C
  BY <1>0 DEF SandboxNames, TemporalContinueAsNew
<1>2. TemporalDurableMailbox \in C
  BY <1>0 DEF SandboxNames, TemporalDurableMailbox
<1>3. TemporalDurableUpdate \in C
  BY <1>0 DEF SandboxNames, TemporalDurableUpdate
<1>4. TemporalErrorOfWorkflow \in C
  BY <1>0 DEF SandboxNames, TemporalErrorOfWorkflow
<1>5. TemporalNexusOperation \in C
  BY <1>0 DEF SandboxNames, TemporalNexusOperation
<1>6. TemporalSandbox \in C
  BY <1>0 DEF SandboxNames, TemporalSandbox
<1>7. TemporalSandboxPolyfills \in C
  BY <1>0 DEF SandboxNames, TemporalSandboxPolyfills
<1>8. TemporalStateCell \in C
  BY <1>0 DEF SandboxNames, TemporalStateCell
<1>9. TemporalTypedActivity \in C
  BY <1>0 DEF SandboxNames, TemporalTypedActivity
<1>10. TemporalVersioning \in C
  BY <1>0 DEF SandboxNames, TemporalVersioning
<1>11. TemporalWorkflowRuntime \in C
  BY <1>0 DEF SandboxNames, TemporalWorkflowRuntime
<1>12. TemporalWorkflowWire \in C
  BY <1>0 DEF SandboxNames, TemporalWorkflowWire
<1>13. ActivityHandleImports \in C
  BY <1>0 DEF SandboxNames, ActivityHandleImports
<1>14. ErrorImports \in C
  BY <1>0 DEF SandboxNames, ErrorImports
<1>15. NexusHandleImports \in C
  BY <1>0 DEF SandboxNames, NexusHandleImports
<1>16. ScheduleHandleImports \in C
  BY <1>0 DEF SandboxNames, ScheduleHandleImports
<1>17. SchemaImports \in C
  BY <1>0 DEF SandboxNames, SchemaImports
<1>18. WorkflowHandleImports \in C
  BY <1>0 DEF SandboxNames, WorkflowHandleImports
<1>19. sampleDefinitions \in C
  BY <1>0 DEF SandboxNames, sampleDefinitions
<1>20. sampleBundle \in C
  BY <1>0 DEF SandboxNames, sampleBundle
<1>21. <<>> \in C /\ f \notin HostFiles
  BY NamesApart DEF Clean
<1> HIDE DEF C
<1>22. ImportsOf(f) \in C
  BY <1>1, <1>2, <1>3, <1>4, <1>5, <1>6, <1>7, <1>8, <1>9, <1>10, <1>11, <1>12, <1>13, <1>14, <1>15, <1>16,
     <1>17, <1>18, <1>19, <1>20, <1>21 DEF ImportsOf, HostFiles
<1> QED BY <1>22 DEF C, D

-----------------------------------------------------------------------------
(* A step, by the innermost file. *)

Frame(f, i) == [file |-> f, imports |-> i]
FilesOf(q) == {q[i].file : i \in DOMAIN q}

\* A stack with x on top: its head, its tail, and the files in it.
LEMMA TopFrame ==
  ASSUME NEW S, NEW rest \in Seq(S), NEW x
  PROVE  LET q == <<x>> \o rest IN
         /\ q # <<>> /\ Head(q) = x /\ Tail(q) = rest
         /\ FilesOf(q) = {x.file} \cup FilesOf(rest)
         /\ q \in Seq(S \cup {x})
<1> DEFINE q == <<x>> \o rest
<1>1. <<x>> \in Seq(S \cup {x}) /\ rest \in Seq(S \cup {x})
  OBVIOUS
<1>2. q \in Seq(S \cup {x}) /\ Len(q) = Len(rest) + 1 /\ DOMAIN q = 1 .. Len(rest) + 1
  BY <1>1
<1>3. q[1] = x /\ \A i \in 1 .. Len(rest) : q[i + 1] = rest[i]
  BY <1>1
<1>4. Head(q) = x /\ Tail(q) = rest /\ q # <<>>
  BY <1>1, <1>2, <1>3
<1> HIDE DEF q
<1>5. ASSUME NEW i \in DOMAIN q PROVE q[i] = x \/ \E j \in DOMAIN rest : q[i] = rest[j]
  <2>1. i = 1 \/ (i - 1 \in 1 .. Len(rest) /\ i = (i - 1) + 1)
    BY <1>2
  <2> QED BY <1>3, <2>1
<1>6. \A j \in DOMAIN rest : j + 1 \in DOMAIN q /\ q[j + 1] = rest[j]
  BY <1>2, <1>3
<1>7. FilesOf(q) = {x.file} \cup FilesOf(rest)
  <2>1. 1 \in DOMAIN q
    BY <1>2
  <2> QED BY <1>3, <1>5, <1>6, <2>1 DEF FilesOf
<1> QED BY <1>2, <1>4, <1>7 DEF q

\* A file that named one import of its list has the rest of it left.
LEMMA LeftOf == ASSUME NEW f, NEW i, NEW k PROVE [Frame(f, i) EXCEPT !.imports = k] = Frame(f, k)
BY DEF Frame

\* The step that f, with the imports i left, loads the next one, or finds it.
Loads(f, i, rest) ==
  LET next == Head(i)
      left == <<Frame(f, Tail(i))>> \o rest
      known == Evaluated \cup {f} \cup FilesOf(rest) IN
  /\ UNCHANGED <<entry, evaluated>>
  /\ \/ next \in known /\ pending' = left
     \/ next \notin known /\ pending' = <<Frame(next, ImportsOf(next))>> \o left

\* While the innermost file has imports left, a step loads the next, or finds it.
LEMMA TopLoads ==
  ASSUME NEW S, NEW rest \in Seq(S), NEW f, NEW i, pending = <<Frame(f, i)>> \o rest, i # <<>>,
         [BundleNext]_bundleVars
  PROVE  UNCHANGED bundleVars \/ Loads(f, i, rest)
<1> DEFINE top == Frame(f, i)
<1>0. top.file = f /\ top.imports = i
  BY DEF Frame
<1>1. [top EXCEPT !.imports = Tail(i)] = Frame(f, Tail(i))
  BY LeftOf
<1>2. Loading = {f} \cup FilesOf(rest) /\ Head(pending) = top /\ Tail(pending) = rest /\ pending # <<>>
  <2>1. Loading = FilesOf(pending)
    BY DEF Loading, FilesOf
  <2> HIDE DEF top
  <2>2. pending = <<top>> \o rest
    BY DEF top
  <2> QED BY <1>0, <2>1, <2>2, TopFrame
<1> HIDE DEF top
<1>3. CASE LoadImport
  BY <1>0, <1>1, <1>2, <1>3 DEF LoadImport, Loads, Frame
<1>4. ~EvaluateFile
  BY <1>0, <1>2 DEF EvaluateFile
<1> QED BY <1>3, <1>4 DEF BundleNext

\* When it has none left, a step evaluates it.
LEMMA TopEvaluates ==
  ASSUME NEW S, NEW rest \in Seq(S), NEW f, pending = <<Frame(f, <<>>)>> \o rest, [BundleNext]_bundleVars
  PROVE  \/ UNCHANGED bundleVars
         \/ entry' = entry /\ evaluated' = Append(evaluated, f) /\ pending' = rest
<1>1. Head(pending) = Frame(f, <<>>) /\ Tail(pending) = rest /\ pending # <<>>
  BY TopFrame
<1>2. Head(pending).imports = <<>> /\ Head(pending).file = f
  BY <1>1 DEF Frame
<1>3. ~LoadImport
  BY <1>2 DEF LoadImport
<1> QED BY <1>1, <1>2, <1>3 DEF BundleNext, EvaluateFile

-----------------------------------------------------------------------------
(* The polyfills before Effect. *)

\* The innermost file is f, with the imports i left, and those it is loaded
\* for are among below.
On(f, i, below) ==
  \E S : \E rest \in Seq(S) : pending = <<Frame(f, i)>> \o rest /\ FilesOf(rest) \subseteq below

\* The same for g, which f is waiting for.
Inside(g, h, f, i, below) ==
  \E S : \E rest \in Seq(S) :
    pending = <<Frame(g, h)>> \o (<<Frame(f, i)>> \o rest) /\ FilesOf(<<Frame(f, i)>> \o rest) \subseteq below

\* The files on the way to the polyfills.
Way == {"entry", "TemporalWorkflowRuntime", "TemporalSandbox"}

\* A bundle that imports a sandbox file first goes straight to the polyfills.
OnItsWay ==
  /\ entry # <<>> /\ evaluated = <<>>
  /\ \/ On("entry", entry, {})
     \/ On("TemporalWorkflowRuntime", TemporalWorkflowRuntime, {"entry"})
     \/ On("TemporalSandbox", TemporalSandbox, {"entry", "TemporalWorkflowRuntime"})
     \/ On("TemporalSandboxPolyfills", TemporalSandboxPolyfills, Way)

InPolyfills ==
  \/ /\ evaluated = <<>>
     /\ Inside("@temporalio/workflow", <<>>, "TemporalSandboxPolyfills", <<>>, Way \cup {"TemporalSandboxPolyfills"})
  \/ /\ evaluated = <<"@temporalio/workflow">>
     /\ On("TemporalSandboxPolyfills", <<>>, Way \cup {"TemporalSandboxPolyfills"})

EffectLater(seq) ==
  \A i \in DOMAIN seq : seq[i] = "effect" => \E j \in 1 .. i - 1 : seq[j] = "TemporalSandboxPolyfills"

Installed ==
  /\ \E S : evaluated \in Seq(S)
  /\ "TemporalSandboxPolyfills" \in Evaluated
  /\ EffectLater(evaluated)

NothingImported ==
  /\ entry = <<>>
  /\ \/ On("entry", <<>>, {}) /\ evaluated = <<>>
     \/ pending = <<>> /\ evaluated = <<"entry">>

OrderInv ==
  entry \in Entries /\ (entry[1] \in SandboxFiles => NothingImported \/ OnItsWay \/ InPolyfills \/ Installed)

\* What the files on the way to the polyfills import.
LEMMA ImportsOfSandbox ==
  /\ ImportsOf("TemporalWorkflowRuntime") = TemporalWorkflowRuntime
  /\ ImportsOf("TemporalSandbox") = TemporalSandbox
  /\ ImportsOf("TemporalSandboxPolyfills") = TemporalSandboxPolyfills
  /\ ImportsOf("@temporalio/workflow") = <<>>
BY DEF ImportsOf

\* Of the imports i of f the first is g: it has the imports h, and is none of
\* those that f and the ones below, all among b, wait for.
First(f, i, below, g, h, b) ==
  i # <<>> /\ g = Head(i) /\ g \notin {f} \cup below /\ h = ImportsOf(g) /\ {f} \cup below \subseteq b

\* The innermost file's next import, when it was not loaded before.
LEMMA OnLoads ==
  ASSUME NEW f, NEW i, NEW below, On(f, i, below), evaluated = <<>>, [BundleNext]_bundleVars,
         NEW g, NEW h, NEW b, First(f, i, below, g, h, b)
  PROVE  UNCHANGED bundleVars \/ (UNCHANGED <<entry, evaluated>> /\ Inside(g, h, f, Tail(i), b)' /\ On(g, h, b)')
<1>0. i # <<>> /\ g = Head(i) /\ g \notin {f} \cup below /\ h = ImportsOf(g) /\ {f} \cup below \subseteq b
  BY DEF First
<1>1. PICK S : \E rest \in Seq(S) : pending = <<Frame(f, i)>> \o rest /\ FilesOf(rest) \subseteq below
  BY DEF On
<1>2. PICK rest \in Seq(S) : pending = <<Frame(f, i)>> \o rest /\ FilesOf(rest) \subseteq below
  BY <1>1
<1>3. Evaluated = {}
  BY DEF Evaluated
<1> DEFINE left == <<Frame(f, Tail(i))>> \o rest
<1>4. FilesOf(left) \subseteq b
  <2> DEFINE x == Frame(f, Tail(i))
  <2>1. x.file = f
    BY DEF Frame
  <2> HIDE DEF x
  <2>2. FilesOf(<<x>> \o rest) = {x.file} \cup FilesOf(rest)
    BY TopFrame
  <2> QED BY <1>0, <1>2, <2>1, <2>2 DEF x
<1>5. g \notin Evaluated \cup {f} \cup FilesOf(rest)
  BY <1>0, <1>2, <1>3
<1>6. UNCHANGED bundleVars \/ Loads(f, i, rest)
  BY <1>0, <1>2, TopLoads
<1>7. UNCHANGED bundleVars \/ (UNCHANGED <<entry, evaluated>> /\ pending' = <<Frame(g, h)>> \o left)
  BY <1>0, <1>5, <1>6 DEF Loads
<1>8. left \in Seq(S \cup {Frame(f, Tail(i))})
  BY TopFrame
<1>9. UNCHANGED bundleVars \/ On(g, h, b)'
  <2> HIDE DEF left
  <2> QED BY <1>4, <1>7, <1>8 DEF On
<1> QED BY <1>4, <1>7, <1>9 DEF Inside

\* The innermost file evaluates, and the one that waited for it goes on.
LEMMA InsideEvaluates ==
  ASSUME NEW g, NEW f, NEW i, NEW below, Inside(g, <<>>, f, i, below), [BundleNext]_bundleVars
  PROVE  UNCHANGED bundleVars \/ (entry' = entry /\ evaluated' = Append(evaluated, g) /\ On(f, i, below)')
<1>1. PICK S : \E rest \in Seq(S) :
        pending = <<Frame(g, <<>>)>> \o (<<Frame(f, i)>> \o rest) /\ FilesOf(<<Frame(f, i)>> \o rest) \subseteq below
  BY DEF Inside
<1>2. PICK rest \in Seq(S) :
        pending = <<Frame(g, <<>>)>> \o (<<Frame(f, i)>> \o rest) /\ FilesOf(<<Frame(f, i)>> \o rest) \subseteq below
  BY <1>1
<1> DEFINE x == Frame(f, i)
<1> HIDE DEF x
<1>3. <<x>> \o rest \in Seq(S \cup {x}) /\ FilesOf(<<x>> \o rest) = {x.file} \cup FilesOf(rest)
  BY TopFrame
<1>4. UNCHANGED bundleVars
      \/ (entry' = entry /\ evaluated' = Append(evaluated, g) /\ pending' = <<x>> \o rest)
  BY <1>2, <1>3, TopEvaluates DEF x
<1>5. FilesOf(rest) \subseteq below
  BY <1>2, <1>3 DEF x
<1> QED BY <1>4, <1>5 DEF On, x

\* The innermost file evaluates, and if no other waits for it nothing is left.
LEMMA OnEvaluates ==
  ASSUME NEW f, NEW below, On(f, <<>>, below), [BundleNext]_bundleVars
  PROVE  \/ UNCHANGED bundleVars
         \/ /\ entry' = entry /\ evaluated' = Append(evaluated, f)
            /\ below = {} => pending' = <<>>
<1>1. PICK S : \E rest \in Seq(S) : pending = <<Frame(f, <<>>)>> \o rest /\ FilesOf(rest) \subseteq below
  BY DEF On
<1>2. PICK rest \in Seq(S) : pending = <<Frame(f, <<>>)>> \o rest /\ FilesOf(rest) \subseteq below
  BY <1>1
<1>3. below = {} => rest = <<>>
  <2> SUFFICES ASSUME below = {}, rest # <<>> PROVE FALSE
    OBVIOUS
  <2>1. 1 \in DOMAIN rest
    OBVIOUS
  <2> QED BY <1>2, <2>1 DEF FilesOf
<1>4. UNCHANGED bundleVars \/ (entry' = entry /\ evaluated' = Append(evaluated, f) /\ pending' = rest)
  BY <1>2, TopEvaluates
<1> QED BY <1>3, <1>4

\* A bundle starts with its entrypoint, and nothing has evaluated.
LEMMA OrderInit == BundleInit => OrderInv
<1> SUFFICES ASSUME BundleInit PROVE OrderInv
  OBVIOUS
<1>1. /\ evaluated = <<>> /\ pending = <<Frame("entry", entry)>> \o <<>>
      /\ FilesOf(<<>>) = {} /\ <<>> \in Seq({})
  BY DEF BundleInit, Frame, FilesOf
<1>2. On("entry", entry, {})
  BY <1>1 DEF On
<1>3. CASE entry = <<>>
  BY <1>1, <1>2, <1>3 DEF OrderInv, NothingImported, BundleInit
<1>4. CASE entry # <<>>
  BY <1>1, <1>2, <1>4 DEF OrderInv, OnItsWay, BundleInit
<1> QED BY <1>3, <1>4

\* A step that changes nothing keeps the order.
LEMMA OrderStutters == ASSUME OrderInv, UNCHANGED bundleVars PROVE OrderInv'
BY DEF bundleVars, OrderInv, NothingImported, OnItsWay, InPolyfills, Installed, On, Inside, Evaluated

\* One import further.
LEMMA OnWayStep ==
  ASSUME entry \in Seq(STRING), entry[1] \in SandboxFiles, OnItsWay, [BundleNext]_bundleVars, ~UNCHANGED bundleVars
  PROVE  entry' = entry /\ (OnItsWay' \/ InPolyfills')
<1>0. evaluated = <<>> /\ entry # <<>>
  BY DEF OnItsWay
<1>1. CASE On("entry", entry, {})
  <2>1. PICK e : e = entry
    OBVIOUS
  <2>2. Head(e) \in SandboxFiles /\ e # <<>>
    BY <1>0, <2>1
  <2>3. On("entry", e, {})
    BY <1>1, <2>1
  <2> HIDE DEF bundleVars
  <2>4. CASE Head(e) = "TemporalWorkflowRuntime"
    <3>1. PICK g, h, b : g = "TemporalWorkflowRuntime" /\ h = TemporalWorkflowRuntime /\ b = {"entry"}
      OBVIOUS
    <3>2. First("entry", e, {}, g, h, b)
      BY <2>2, <2>4, <3>1, ImportsOfSandbox DEF First
    <3>3. UNCHANGED <<entry, evaluated>> /\ On(g, h, b)'
      BY <1>0, <2>3, <3>2, OnLoads
    <3> QED BY <1>0, <3>1, <3>3 DEF OnItsWay
  <2>5. CASE Head(e) = "TemporalSandbox"
    <3>1. PICK g, h, b : g = "TemporalSandbox" /\ h = TemporalSandbox /\ b = {"entry", "TemporalWorkflowRuntime"}
      OBVIOUS
    <3>2. First("entry", e, {}, g, h, b)
      BY <2>2, <2>5, <3>1, ImportsOfSandbox DEF First
    <3>3. UNCHANGED <<entry, evaluated>> /\ On(g, h, b)'
      BY <1>0, <2>3, <3>2, OnLoads
    <3> QED BY <1>0, <3>1, <3>3 DEF OnItsWay
  <2>6. CASE Head(e) = "TemporalSandboxPolyfills"
    <3>1. PICK g, h, b : g = "TemporalSandboxPolyfills" /\ h = TemporalSandboxPolyfills /\ b = Way
      OBVIOUS
    <3>2. First("entry", e, {}, g, h, b)
      BY <2>2, <2>6, <3>1, ImportsOfSandbox DEF First, Way
    <3>3. UNCHANGED <<entry, evaluated>> /\ On(g, h, b)'
      BY <1>0, <2>3, <3>2, OnLoads
    <3> QED BY <1>0, <3>1, <3>3 DEF OnItsWay
  <2> QED BY <2>2, <2>4, <2>5, <2>6 DEF SandboxFiles
<1>2. CASE On("TemporalWorkflowRuntime", TemporalWorkflowRuntime, {"entry"})
  <2>1. PICK f, i, below : f = "TemporalWorkflowRuntime" /\ i = TemporalWorkflowRuntime /\ below = {"entry"}
    OBVIOUS
  <2>2. PICK g, h, b :
          g = "TemporalSandbox" /\ h = TemporalSandbox /\ b = {"entry", "TemporalWorkflowRuntime"}
    OBVIOUS
  <2>3. On(f, i, below) /\ First(f, i, below, g, h, b)
    BY <1>2, <2>1, <2>2, ImportsOfSandbox DEF First, TemporalWorkflowRuntime
  <2>4. UNCHANGED <<entry, evaluated>> /\ On(g, h, b)'
    BY <1>0, <2>3, OnLoads
  <2> QED BY <1>0, <2>2, <2>4 DEF OnItsWay
<1>3. CASE On("TemporalSandbox", TemporalSandbox, {"entry", "TemporalWorkflowRuntime"})
  <2>1. PICK f, i, below :
          f = "TemporalSandbox" /\ i = TemporalSandbox /\ below = {"entry", "TemporalWorkflowRuntime"}
    OBVIOUS
  <2>2. PICK g, h, b : g = "TemporalSandboxPolyfills" /\ h = TemporalSandboxPolyfills /\ b = Way
    OBVIOUS
  <2>3. On(f, i, below) /\ First(f, i, below, g, h, b)
    BY <1>3, <2>1, <2>2, ImportsOfSandbox DEF First, TemporalSandbox, Way
  <2>4. UNCHANGED <<entry, evaluated>> /\ On(g, h, b)'
    BY <1>0, <2>3, OnLoads
  <2> QED BY <1>0, <2>2, <2>4 DEF OnItsWay
<1>4. CASE On("TemporalSandboxPolyfills", TemporalSandboxPolyfills, Way)
  <2>1. PICK f, i, below : f = "TemporalSandboxPolyfills" /\ i = TemporalSandboxPolyfills /\ below = Way
    OBVIOUS
  <2>2. PICK g, h, b, k :
          g = "@temporalio/workflow" /\ h = <<>> /\ b = Way \cup {"TemporalSandboxPolyfills"} /\ k = <<>>
    OBVIOUS
  <2>3. On(f, i, below) /\ First(f, i, below, g, h, b) /\ k = Tail(i)
    BY <1>4, <2>1, <2>2, ImportsOfSandbox DEF First, TemporalSandboxPolyfills, Way
  <2>4. UNCHANGED <<entry, evaluated>> /\ Inside(g, h, f, k, b)'
    BY <1>0, <2>3, OnLoads
  <2> QED BY <1>0, <2>1, <2>2, <2>4 DEF InPolyfills
<1> QED BY <1>1, <1>2, <1>3, <1>4 DEF OnItsWay

\* TemporalSandboxPolyfills evaluates, before any other file of the bundle.
LEMMA InPolyfillsStep ==
  ASSUME InPolyfills, [BundleNext]_bundleVars, ~UNCHANGED bundleVars
  PROVE  entry' = entry /\ (InPolyfills' \/ Installed')
<1>1. PICK f, b : f = "TemporalSandboxPolyfills" /\ b = Way \cup {"TemporalSandboxPolyfills"}
  OBVIOUS
<1>2. PICK g : g = "@temporalio/workflow"
  OBVIOUS
<1>3. CASE evaluated = <<>> /\ Inside(g, <<>>, f, <<>>, b)
  <2>1. entry' = entry /\ evaluated' = Append(evaluated, g) /\ On(f, <<>>, b)'
    BY <1>3, InsideEvaluates
  <2>2. evaluated' = <<"@temporalio/workflow">>
    BY <1>2, <1>3, <2>1
  <2> QED BY <1>1, <2>1, <2>2 DEF InPolyfills
<1>4. CASE evaluated = <<"@temporalio/workflow">> /\ On(f, <<>>, b)
  <2>1. entry' = entry /\ evaluated' = Append(evaluated, f)
    BY <1>4, OnEvaluates
  <2>2. PICK S : S = {g, f}
    OBVIOUS
  <2>3. <<g>> \in Seq(S) /\ Len(<<g>>) = 1 /\ <<g>>[1] = g
    BY <2>2
  <2>4. PICK seq : seq = Append(<<g>>, f)
    OBVIOUS
  <2>5. seq \in Seq(S) /\ DOMAIN seq = 1 .. 2 /\ seq[1] = g /\ seq[2] = f
    BY <2>2, <2>3, <2>4
  <2>6. evaluated' = seq
    BY <1>2, <1>4, <2>1, <2>4
  <2>7. f \in {seq[i] : i \in DOMAIN seq} /\ EffectLater(seq)
    BY <1>1, <1>2, <2>5 DEF EffectLater
  <2> QED BY <1>1, <2>1, <2>5, <2>6, <2>7 DEF Installed, Evaluated
<1> QED BY <1>1, <1>2, <1>3, <1>4 DEF InPolyfills

\* The entrypoint stays, and a step evaluates one file at most.
LEMMA EvaluatedGrows ==
  ASSUME [BundleNext]_bundleVars
  PROVE  entry' = entry /\ (evaluated' = evaluated \/ \E f : evaluated' = Append(evaluated, f))
BY DEF BundleNext, LoadImport, EvaluateFile, bundleVars

\* What evaluates later comes after the polyfills.
LEMMA InstalledStep ==
  ASSUME Installed, [BundleNext]_bundleVars
  PROVE  entry' = entry /\ Installed'
<1>0. PICK seq, S : seq = evaluated /\ seq \in Seq(S)
  BY DEF Installed
<1>1. PICK p \in DOMAIN seq : seq[p] = "TemporalSandboxPolyfills"
  BY <1>0 DEF Installed, Evaluated
<1>2. EffectLater(seq)
  BY <1>0 DEF Installed
<1>3. CASE evaluated' = evaluated
  BY <1>3, EvaluatedGrows DEF Installed, Evaluated
<1>4. ASSUME NEW f, evaluated' = Append(evaluated, f) PROVE Installed'
  <2> DEFINE more == Append(seq, f)
  <2>1. /\ more \in Seq(S \cup {f}) /\ DOMAIN more = 1 .. Len(seq) + 1 /\ Len(seq) \in Nat
        /\ DOMAIN seq = 1 .. Len(seq) /\ \A i \in 1 .. Len(seq) : more[i] = seq[i]
    BY <1>0
  <2>2. evaluated' = more
    BY <1>0, <1>4
  <2> HIDE DEF more
  <2>3. EffectLater(more)
    <3> SUFFICES ASSUME NEW i \in DOMAIN more, more[i] = "effect"
                 PROVE  \E j \in 1 .. i - 1 : more[j] = "TemporalSandboxPolyfills"
      BY DEF EffectLater
    <3>1. CASE i \in DOMAIN seq
      BY <1>2, <2>1, <3>1 DEF EffectLater
    <3>2. CASE i = Len(seq) + 1
      BY <1>1, <2>1, <3>2
    <3> QED BY <2>1, <3>1, <3>2
  <2>4. "TemporalSandboxPolyfills" \in {more[i] : i \in DOMAIN more}
    BY <1>1, <2>1
  <2> QED BY <2>1, <2>2, <2>3, <2>4 DEF Installed, Evaluated
<1> QED BY <1>3, <1>4, EvaluatedGrows

\* An entrypoint without imports evaluates and that is all.
LEMMA NothingImportedStep ==
  ASSUME NothingImported, [BundleNext]_bundleVars, ~UNCHANGED bundleVars
  PROVE  NothingImported'
<1>1. CASE pending = <<>>
  BY <1>1 DEF BundleNext, LoadImport, EvaluateFile
<1>2. CASE On("entry", <<>>, {}) /\ evaluated = <<>>
  <2>1. PICK f, below : f = "entry" /\ below = {}
    OBVIOUS
  <2>2. entry' = entry /\ evaluated' = Append(evaluated, f) /\ pending' = <<>>
    BY <1>2, <2>1, OnEvaluates
  <2> QED BY <1>2, <2>1, <2>2 DEF NothingImported
<1> QED BY <1>1, <1>2 DEF NothingImported

\* From each stage a step leads to the next one, or stays in it.
LEMMA OrderStep == OrderInv /\ [BundleNext]_bundleVars => OrderInv'
<1> SUFFICES ASSUME OrderInv, [BundleNext]_bundleVars PROVE OrderInv'
  OBVIOUS
<1>1. CASE UNCHANGED bundleVars
  BY <1>1, OrderStutters
<1>2. entry' = entry /\ entry \in Seq(STRING)
  BY EvaluatedGrows, BundleOrderAssumption DEF OrderInv
<1>3. CASE ~UNCHANGED bundleVars /\ entry[1] \in SandboxFiles
  <2>1. CASE NothingImported
    BY <1>2, <1>3, <2>1, NothingImportedStep DEF OrderInv
  <2>2. CASE OnItsWay
    BY <1>2, <1>3, <2>2, OnWayStep DEF OrderInv
  <2>3. CASE InPolyfills
    BY <1>2, <1>3, <2>3, InPolyfillsStep DEF OrderInv
  <2>4. CASE Installed
    BY <1>2, <1>3, <2>4, InstalledStep DEF OrderInv
  <2> QED BY <1>3, <2>1, <2>2, <2>3, <2>4 DEF OrderInv
<1>4. CASE entry[1] \notin SandboxFiles
  BY <1>2, <1>4 DEF OrderInv
<1> QED BY <1>1, <1>3, <1>4

\* In every stage the polyfills come before Effect.
LEMMA OrderImplies == OrderInv => PolyfillsFirst
<1> SUFFICES ASSUME OrderInv, entry[1] \in SandboxFiles PROVE EffectLater(evaluated)
  BY DEF PolyfillsFirst, EffectLater
<1>1. CASE NothingImported
  BY <1>1 DEF NothingImported, EffectLater
<1>2. CASE OnItsWay
  BY <1>2 DEF OnItsWay, EffectLater
<1>3. CASE InPolyfills
  BY <1>3 DEF InPolyfills, EffectLater
<1>4. CASE Installed
  BY <1>4 DEF Installed
<1> QED BY <1>1, <1>2, <1>3, <1>4 DEF OrderInv

\* Of an entrypoint that imports a sandbox file first, whatever follows it, the
\* polyfills are installed before Effect evaluates.
THEOREM PolyfillsPrecedeEffect == BundleSpec => []PolyfillsFirst
<1>1. BundleSpec => []OrderInv
  BY OrderInit, OrderStep, PTL DEF BundleSpec
<1> QED BY <1>1, OrderImplies, PTL

-----------------------------------------------------------------------------
(* What a clean lint keeps out. *)

Linted ==
  noMixedHalves(entry) = {} /\ \A i \in DOMAIN entry : entry[i] \notin Unlisted

CleanFrames(e) == [file : Clean(e), imports : Seq(Clean(e))]

LintInv ==
  /\ entry \in Entries
  /\ Linted => pending \in Seq(CleanFrames(entry)) /\ evaluated \in Seq(Clean(entry))

\* The patterns and the files they leave out are all that reach the host.
LEMMA HostFilesForbidden == HostFiles \subseteq defaultForbiddenImports \cup Unlisted
<1>1. ClientPackage = {clientIndex[i] : i \in 1 .. 14} \cup {"@effect-temporal/client"}
  BY DEF ClientPackage, clientIndex
<1>2. /\ clientIndex[1] = "client/TemporalActivityClient" /\ clientIndex[3] = "client/TemporalClient"
      /\ clientIndex[4] = "client/TemporalConnection" /\ clientIndex[5] = "client/TemporalDataConverter"
      /\ clientIndex[7] = "client/TemporalNexusClient" /\ clientIndex[9] = "client/TemporalScheduleClient"
      /\ clientIndex[12] = "client/TemporalTaskQueueClient" /\ clientIndex[13] = "client/TemporalWorkflowClient"
  BY DEF clientIndex
<1>3. {"client/TemporalActivityClient", "client/TemporalClient", "client/TemporalConnection",
       "client/TemporalDataConverter", "client/TemporalNexusClient", "client/TemporalScheduleClient",
       "client/TemporalTaskQueueClient", "client/TemporalWorkflowClient", "@effect-temporal/client"}
        \subseteq ClientPackage
  BY <1>1, <1>2
<1>4. {"testing/TemporalTesting", "testing/TemporalStubClient", "testing/TemporalWorkflowHarness",
       "@effect-temporal/testing"} \subseteq TestingPackage
  BY DEF TestingPackage, testingIndex
<1> QED BY <1>3, <1>4 DEF HostFiles, HostOnly, defaultForbiddenImports, Unlisted

\* The imports of an entrypoint that lints cleanly are clean.
LEMMA LintInit == BundleInit => LintInv
<1> SUFFICES ASSUME BundleInit PROVE LintInv
  OBVIOUS
<1>1. entry \in Entries /\ entry \in Seq(STRING)
  BY BundleOrderAssumption DEF BundleInit
<1>2. ASSUME Linted PROVE pending \in Seq(CleanFrames(entry)) /\ evaluated \in Seq(Clean(entry))
  <2>1. \A i \in DOMAIN entry : entry[i] \notin HostFiles
    BY <1>2, HostFilesForbidden DEF Linted, noMixedHalves
  <2>2. \A i \in DOMAIN entry : entry[i] \in Clean(entry)
    BY <2>1 DEF Clean
  <2>3. entry \in Seq(Clean(entry))
    BY <1>1, <2>2
  <2>4. "entry" \in Clean(entry)
    BY DEF Clean, SandboxNames
  <2> QED BY <2>3, <2>4 DEF BundleInit, CleanFrames
<1> QED BY <1>1, <1>2 DEF LintInv

\* What is loaded for a clean file is clean, and so is what evaluates.
LEMMA LintStep == LintInv /\ [BundleNext]_bundleVars => LintInv'
<1> SUFFICES ASSUME LintInv, [BundleNext]_bundleVars PROVE LintInv'
  OBVIOUS
<1>0. entry' = entry
  BY EvaluatedGrows
<1>1. PICK e : e = entry
  OBVIOUS
<1>2. Linted' = Linted
  BY <1>0 DEF Linted
<1> DEFINE F == CleanFrames(e)
           C == Clean(e)
<1>3. ASSUME Linted PROVE pending' \in Seq(F) /\ evaluated' \in Seq(C)
  <2>0. pending \in Seq(F) /\ evaluated \in Seq(C)
    BY <1>1, <1>3 DEF LintInv
  <2>1. CASE UNCHANGED bundleVars
    BY <2>0, <2>1 DEF bundleVars
  <2>2. ASSUME pending # <<>> PROVE Head(pending) \in F /\ Tail(pending) \in Seq(F)
    BY <2>0, <2>2
  <2>3. CASE LoadImport
    <3> DEFINE top == Head(pending)
               next == Head(top.imports)
               left == [top EXCEPT !.imports = Tail(@)]
               rest == <<left>> \o Tail(pending)
    <3>1. top \in F /\ top.imports # <<>> /\ Tail(pending) \in Seq(F)
      BY <2>2, <2>3 DEF LoadImport
    <3>2. top.imports \in Seq(C) /\ next \in C /\ Tail(top.imports) \in Seq(C)
      BY <3>1 DEF CleanFrames
    <3>3. left \in F
      BY <3>1, <3>2 DEF CleanFrames
    <3>4. rest \in Seq(F)
      BY <3>1, <3>3
    <3>5. ImportsOf(next) \in Seq(C)
      BY <3>2, CleanImports
    <3>6. [file |-> next, imports |-> ImportsOf(next)] \in F
      BY <3>2, <3>5 DEF CleanFrames
    <3>7. pending' \in {rest, <<[file |-> next, imports |-> ImportsOf(next)]>> \o rest} /\ evaluated' = evaluated
      BY <2>3 DEF LoadImport
    <3> DEFINE frame == [file |-> next, imports |-> ImportsOf(next)]
    <3> HIDE DEF F, C, rest, frame
    <3>8. <<frame>> \o rest \in Seq(F)
      BY <3>4, <3>6 DEF frame
    <3> QED BY <2>0, <3>4, <3>7, <3>8 DEF frame
  <2>4. CASE EvaluateFile
    <3>1. Head(pending) \in F /\ Tail(pending) \in Seq(F)
      BY <2>2, <2>4 DEF EvaluateFile
    <3>2. Head(pending).file \in C
      BY <3>1 DEF CleanFrames
    <3> HIDE DEF F, C
    <3> QED BY <2>0, <2>4, <3>1, <3>2 DEF EvaluateFile
  <2> QED BY <2>1, <2>3, <2>4 DEF BundleNext
<1> QED BY <1>0, <1>1, <1>2, <1>3 DEF LintInv

\* Clean files are not the host's.
LEMMA LintImplies == LintInv => LintedStaysInSandbox
<1> SUFFICES ASSUME LintInv, Linted PROVE Evaluated \cap HostOnly = {}
  BY DEF LintedStaysInSandbox, Linted
<1>1. evaluated \in Seq(Clean(entry))
  BY DEF LintInv
<1>2. Evaluated \subseteq Clean(entry)
  BY <1>1 DEF Evaluated
<1>3. Clean(entry) \cap HostFiles = {}
  BY NamesApart DEF Clean
<1> QED BY <1>2, <1>3 DEF HostFiles

\* Of an entrypoint that lints cleanly and names none of the files the patterns
\* leave out, nothing that only the host has is evaluated.
THEOREM CleanLintKeepsHostOut == BundleSpec => []LintedStaysInSandbox
<1>1. BundleSpec => []LintInv
  BY LintInit, LintStep, PTL DEF BundleSpec
<1> QED BY <1>1, LintImplies, PTL

-----------------------------------------------------------------------------
(* SandboxPolyfills: the globals of an isolate and the blocks of a digest. *)

States == {"missing", "native", "sandbox"}

GlobalsInv ==
  /\ before \in [Globals -> {"missing", "native"}] /\ globals \in [Globals -> States]
  /\ InstallsGlobals

\* Blocks are read from the start, and none begins behind the padded message.
Blocks == length \in Lengths /\ offset \in Nat /\ offset % 64 = 0 /\ offset <= paddedLength

\* A missing global is installed with all others that are missing.
LEMMA InstallsTogether ==
  ASSUME GlobalsInv, ensureSandboxPolyfills
  PROVE  GlobalsInv'
<1>1. DOMAIN globals = Globals /\ before' = before
  BY DEF GlobalsInv, ensureSandboxPolyfills
<1>2. CASE ~inWorkflow
  <2>1. globals' = globals
    BY <1>1, <1>2 DEF ensureSandboxPolyfills, GlobalsInv
  <2> QED BY <1>1, <2>1 DEF GlobalsInv, InstallsGlobals
<1>3. CASE inWorkflow
  <2>1. \A g \in Globals :
          globals'[g] = IF g = "performance" \/ globals[g] = "missing" THEN "sandbox" ELSE globals[g]
    BY <1>3 DEF ensureSandboxPolyfills
  <2>2. globals' \in [Globals -> States]
    BY <1>3 DEF ensureSandboxPolyfills, GlobalsInv, States
  <2>3. ASSUME NEW g \in Globals, globals'[g] # before[g]
        PROVE  globals'[g] = "sandbox" /\ (g = "performance" \/ before[g] = "missing")
    BY <2>1, <2>3 DEF GlobalsInv, InstallsGlobals
  <2>4. \A g \in Globals : globals'[g] # "missing"
    BY <2>1
  <2> QED BY <1>1, <2>2, <2>3, <2>4 DEF GlobalsInv, InstallsGlobals
<1> QED BY <1>2, <1>3

\* However often and wherever ensureSandboxPolyfills runs, in an isolate with any
\* globals of its own: no native one but performance is replaced, what is
\* installed stays, and a sandbox is given all that is missing or nothing.
THEOREM GlobalsInstalled == SandboxSpec => []InstallsGlobals
<1>1. SandboxInit => GlobalsInv
  <2> SUFFICES ASSUME SandboxInit PROVE GlobalsInv
    OBVIOUS
  <2>1. globals \in [Globals -> {"missing", "native"}] /\ before = globals
    BY DEF SandboxInit, Isolates
  <2>2. globals \in [Globals -> States]
    BY <2>1 DEF States
  <2> QED BY <2>1, <2>2 DEF GlobalsInv, InstallsGlobals
<1>2. GlobalsInv /\ [SandboxNext]_sandboxVars => GlobalsInv'
  <2> SUFFICES ASSUME GlobalsInv, [SandboxNext]_sandboxVars PROVE GlobalsInv'
    OBVIOUS
  <2>1. CASE UNCHANGED <<globals, before>>
    BY <2>1 DEF GlobalsInv, InstallsGlobals
  <2> QED
    BY <2>1, InstallsTogether DEF SandboxNext, encodeInto, ReadBlock, Enter, sandboxVars
<1>3. GlobalsInv => InstallsGlobals
  BY DEF GlobalsInv
<1> QED BY <1>1, <1>2, <1>3, PTL DEF SandboxSpec

\* What \div and % are, for a divisor that is not a literal.
LEMMA Divides ==
  ASSUME NEW n \in Nat, NEW k \in Nat \ {0}
  PROVE  n \div k \in Int /\ n % k \in 0 .. (k - 1) /\ n = k * (n \div k) + (n % k)
OBVIOUS

\* Where 8 * k numbers make a word, n \div k is the high word of 8 * n, and the
\* rest the low one.
LEMMA Words ==
  ASSUME NEW n \in Nat, NEW k \in Nat \ {0}, NEW w \in Nat \ {0}, w = 8 * k
  PROVE  (n \div k) * w + ((n * 8) % w) = n * 8
<1>1. n \div k \in Int /\ n % k \in 0 .. (k - 1) /\ n = k * (n \div k) + (n % k)
  BY Divides
<1>2. (n * 8) \div w \in Int /\ (n * 8) % w \in 0 .. (w - 1) /\ n * 8 = w * ((n * 8) \div w) + ((n * 8) % w)
  <2>1. PICK m \in Nat : m = n * 8
    OBVIOUS
  <2>2. m \div w \in Int /\ m % w \in 0 .. (w - 1) /\ m = w * (m \div w) + (m % w)
    BY Divides
  <2> QED BY <2>1, <2>2
<1>3. PICK q \in Int, r \in 0 .. (k - 1) : q = n \div k /\ n = k * q + r
  BY <1>1
<1>4. PICK p \in Int, s \in 0 .. (w - 1) : s = (n * 8) % w /\ n * 8 = w * p + s
  BY <1>2
<1>5. n * 8 = w * q + 8 * r /\ 8 * r \in 0 .. (w - 1)
  <2>1. w * q = 8 * (k * q)
    BY <1>3
  <2>2. n * 8 = 8 * (k * q) + 8 * r
    <3>1. PICK x \in Int : x = k * q
      BY <1>3
    <3>2. n = x + r /\ r \in Int
      BY <1>3, <3>1
    <3> HIDE <1>3
    <3> QED BY <3>1, <3>2
  <2>3. 8 * r \in 0 .. (w - 1)
    BY <1>3
  <2> QED BY <2>1, <2>2, <2>3
<1>6. w * q + 8 * r = w * p + s
  BY <1>4, <1>5
<1>7. q = p
  <2>1. CASE q > p
    <3>1. PICK d \in Int : q = p + d /\ d >= 1
      <4>1. q = p + (q - p) /\ q - p >= 1
        BY <2>1
      <4> QED BY <4>1
    <3>2. w * q = w * p + w * d /\ w * d >= w
      BY <3>1
    <3> QED BY <1>4, <1>5, <1>6, <3>2
  <2>2. CASE p > q
    <3>1. PICK d \in Int : p = q + d /\ d >= 1
      <4>1. p = q + (p - q) /\ p - q >= 1
        BY <2>2
      <4> QED BY <4>1
    <3>2. w * p = w * q + w * d /\ w * d >= w
      BY <3>1
    <3> QED BY <1>4, <1>5, <1>6, <3>2
  <2> QED BY <2>1, <2>2
<1>8. q * w = w * p
  <2> HIDE <1>1, <1>2
  <2>1. q \in Int /\ w \in Int
    OBVIOUS
  <2> QED BY <1>7, <2>1
<1> QED BY <1>3, <1>4, <1>8

\* The padded message, for a message of any length.
LEMMA Padded ==
  ASSUME length \in Nat
  PROVE  /\ paddedLength \in Nat /\ paddedLength % 64 = 0
         /\ paddedLength - 64 < length + 9 /\ length + 9 <= paddedLength
<1>1. PICK n \in Nat : n = length
  OBVIOUS
<1>2. LET p == (((n + 8) \div 64) + 1) * 64 IN
      p \in Nat /\ p % 64 = 0 /\ p - 64 < n + 9 /\ n + 9 <= p
  OBVIOUS
<1> QED BY <1>1, <1>2 DEF paddedLength

\* The two words say the length of any message in bits.
LEMMA WordsTell ==
  ASSUME length \in Nat
  PROVE  LengthWords[1] * WordRange + LengthWords[2] = length * 8
<1>1. PICK n \in Nat : n = length
  OBVIOUS
<1>2. PICK k \in Nat \ {0} : k = WordRange \div 8 /\ WordRange = 8 * k
  <2>1. WordRange \div 8 \in Nat \ {0} /\ WordRange = 8 * (WordRange \div 8)
    BY DigestAssumption
  <2> QED BY <2>1
<1>3. (n \div k) * WordRange + ((n * 8) % WordRange) = n * 8
  BY <1>2, DigestAssumption, Words
<1> QED BY <1>1, <1>2, <1>3 DEF LengthWords

\* SHA-256 reads a message of any length with the padding that FIPS 180-4 asks
\* for, in the fewest blocks, and the length in bits at its end, also one that
\* takes more than a word.
THEOREM MessagesPadded == SandboxSpec => []PadsMessage
<1>0. Lengths \subseteq Nat
  BY DigestAssumption
<1>1. SandboxInit => Blocks
  <2> SUFFICES ASSUME SandboxInit PROVE Blocks
    OBVIOUS
  <2>1. length \in Lengths /\ length \in Nat /\ offset = 0
    BY <1>0 DEF SandboxInit
  <2> QED BY <2>1, Padded DEF Blocks
<1>2. Blocks /\ [SandboxNext]_sandboxVars => Blocks'
  <2> SUFFICES ASSUME Blocks, [SandboxNext]_sandboxVars PROVE Blocks'
    OBVIOUS
  <2>1. length' = length
    BY DEF SandboxNext, encodeInto, ReadBlock, ensureSandboxPolyfills, Enter, sandboxVars
  <2>2. paddedLength' = paddedLength
    BY <2>1 DEF paddedLength
  <2>3. CASE offset' = offset
    BY <2>1, <2>2, <2>3 DEF Blocks
  <2>4. CASE ReadBlock
    <3>1. paddedLength \in Nat /\ paddedLength % 64 = 0
      BY <1>0, Padded DEF Blocks
    <3>2. offset \in Nat /\ offset % 64 = 0 /\ offset < paddedLength /\ offset' = offset + 64
      BY <2>4 DEF Blocks, ReadBlock
    <3>3. offset' \in Nat /\ offset' % 64 = 0 /\ offset' <= paddedLength
      BY <3>1, <3>2
    <3> QED BY <2>1, <2>2, <3>3 DEF Blocks
  <2> QED
    BY <2>3, <2>4 DEF SandboxNext, encodeInto, ensureSandboxPolyfills, Enter, sandboxVars
<1>3. Blocks => PadsMessage
  BY <1>0, Padded, WordsTell DEF Blocks, PadsMessage
<1> QED BY <1>1, <1>2, <1>3, PTL DEF SandboxSpec

-----------------------------------------------------------------------------
(* SandboxPolyfills: the encoder, and all three together.                  *)

\* A code is what a text can contain: a unit that is no surrogate, or a pair.
Codes == {c \in Nat : c < 1114112}

\* What a decoder makes of the bytes of a code.
LEMMA BytesRead ==
  ASSUME NEW c \in Codes
  PROVE  /\ BytesOf(c) \in Seq(Nat) /\ Len(BytesOf(c)) = Width(c)
         /\ ReadsAs(BytesOf(c), 1, c)
<1>0. c \in Nat /\ c < 1114112
  BY SMT DEF Codes
<1>1. CASE c <= 127
  <2>1. BytesOf(c) = <<c>> /\ Width(c) = 1
    BY SMT, <1>0, <1>1 DEF BytesOf, Width
  <2>2. 1 \in Leads(<<c>>)
    BY SMT, <1>0, <1>1 DEF Leads
  <2> QED BY SMT, <1>0, <2>1, <2>2 DEF ReadsAs
<1>2. CASE c > 127 /\ c <= 2047
  <2>1. PICK a, x \in Nat : a = c \div 64 /\ x = c % 64 /\ c = 64 * a + x /\ a >= 2 /\ a <= 31 /\ x <= 63
    BY SMT, <1>0, <1>2
  <2> DEFINE b == <<192 + a, 128 + x>>
  <2>2. BytesOf(c) = b /\ Width(c) = 2
    <3>1. Continued(c, 1) = 128 + x
      BY SMT, <1>0, <2>1 DEF Continued
    <3> QED BY SMT, <1>0, <1>2, <2>1, <3>1 DEF BytesOf, Width
  <2>3. b \in Seq(Nat) /\ Len(b) = 2 /\ DOMAIN b = 1 .. 2 /\ b[1] = 192 + a /\ b[2] = 128 + x
    BY SMT, <2>1
  <2> HIDE DEF b
  <2>4. 1 \in Leads(b) /\ 2 \notin Leads(b)
    BY SMT, <2>1, <2>3 DEF Leads
  <2>5. ReadsAs(b, 1, c)
    <3>1. \A k \in 1 .. 1 : 1 + k = 2
      OBVIOUS
    <3>2. (b[1] - 192) * 64 + (b[1 + 1] - 128) = c
      BY SMT, <2>1, <2>3
    <3> QED BY SMT, <2>2, <2>3, <2>4, <3>1, <3>2 DEF ReadsAs
  <2> QED BY SMT, <2>2, <2>3, <2>5
<1>3. CASE c > 2047 /\ c <= 65535
  <2>1. PICK a, x, y \in Nat :
          /\ a = c \div 4096 /\ x = (c \div 64) % 64 /\ y = c % 64
          /\ c = 4096 * a + 64 * x + y /\ a <= 15 /\ x <= 63 /\ y <= 63
    BY SMT, <1>0, <1>3
  <2> DEFINE b == <<224 + a, 128 + x, 128 + y>>
  <2>2. BytesOf(c) = b /\ Width(c) = 3
    <3>1. Continued(c, 1) = 128 + y /\ Continued(c, 64) = 128 + x
      BY SMT, <1>0, <2>1 DEF Continued
    <3> QED BY SMT, <1>0, <1>3, <2>1, <3>1 DEF BytesOf, Width
  <2>3. /\ b \in Seq(Nat) /\ Len(b) = 3 /\ DOMAIN b = 1 .. 3
        /\ b[1] = 224 + a /\ b[2] = 128 + x /\ b[3] = 128 + y
    BY SMT, <2>1
  <2> HIDE DEF b
  <2>4. 1 \in Leads(b) /\ 2 \notin Leads(b) /\ 3 \notin Leads(b)
    BY SMT, <2>1, <2>3 DEF Leads
  <2>5. ReadsAs(b, 1, c)
    <3>1. \A k \in 1 .. 2 : 1 + k \in {2, 3}
      OBVIOUS
    <3>2. (b[1] - 224) * 4096 + (b[1 + 1] - 128) * 64 + (b[1 + 2] - 128) = c
      <4>1. b[1] - 224 = a /\ b[1 + 1] - 128 = x /\ b[1 + 2] - 128 = y
        BY SMT, <2>1, <2>3
      <4> QED BY SMT, <2>1, <4>1
    <3> QED BY SMT, <2>2, <2>3, <2>4, <3>1, <3>2 DEF ReadsAs
  <2> QED BY SMT, <2>2, <2>3, <2>5
<1>4. CASE c > 65535
  <2>1. PICK a, x, y, z \in Nat :
          /\ a = c \div 262144 /\ x = (c \div 4096) % 64 /\ y = (c \div 64) % 64 /\ z = c % 64
          /\ c = 262144 * a + 4096 * x + 64 * y + z /\ a <= 4 /\ x <= 63 /\ y <= 63 /\ z <= 63
    BY SMT, <1>0, <1>4
  <2> DEFINE b == <<240 + a, 128 + x, 128 + y, 128 + z>>
  <2>2. BytesOf(c) = b /\ Width(c) = 4
    <3>1. Continued(c, 1) = 128 + z /\ Continued(c, 64) = 128 + y /\ Continued(c, 4096) = 128 + x
      BY SMT, <1>0, <2>1 DEF Continued
    <3> QED BY SMT, <1>0, <1>4, <2>1, <3>1 DEF BytesOf, Width
  <2>3. /\ b \in Seq(Nat) /\ Len(b) = 4 /\ DOMAIN b = 1 .. 4
        /\ b[1] = 240 + a /\ b[2] = 128 + x /\ b[3] = 128 + y /\ b[4] = 128 + z
    BY SMT, <2>1
  <2> HIDE DEF b
  <2>4. 1 \in Leads(b) /\ 2 \notin Leads(b) /\ 3 \notin Leads(b) /\ 4 \notin Leads(b)
    BY SMT, <2>1, <2>3 DEF Leads
  <2>5. ReadsAs(b, 1, c)
    <3>1. \A k \in 1 .. 3 : 1 + k \in {2, 3, 4}
      OBVIOUS
    <3>2. (b[1] - 240) * 262144 + (b[1 + 1] - 128) * 4096 + (b[1 + 2] - 128) * 64 + (b[1 + 3] - 128) = c
      <4>1. b[1] - 240 = a /\ b[1 + 1] - 128 = x /\ b[1 + 2] - 128 = y /\ b[1 + 3] - 128 = z
        <5>1. 1 + 1 = 2 /\ 1 + 2 = 3 /\ 1 + 3 = 4
          OBVIOUS
        <5>2. b[1] - 240 = a
          BY SMT, <2>3
        <5>3. b[2] - 128 = x
          BY SMT, <2>3
        <5>4. b[3] - 128 = y
          BY SMT, <2>3
        <5>5. b[4] - 128 = z
          BY SMT, <2>3
        <5> QED BY <5>1, <5>2, <5>3, <5>4, <5>5
      <4> QED BY SMT, <2>1, <4>1
    <3> QED BY SMT, <2>2, <2>3, <2>4, <3>1, <3>2 DEF ReadsAs
  <2> QED BY SMT, <2>2, <2>3, <2>5
<1> QED BY SMT, <1>0, <1>1, <1>2, <1>3, <1>4

\* What a decoder reads of bytes it reads wherever they stand among others.
LEMMA ReadsAmong ==
  ASSUME NEW a \in Seq(Nat), NEW b \in Seq(Nat), NEW c \in Codes
  PROVE  /\ \A j \in DOMAIN a : ReadsAs(a, j, c) => ReadsAs(a \o b, j, c)
         /\ ReadsAs(b, 1, c) => ReadsAs(a \o b, Len(a) + 1, c)
<1>0. Width(c) \in 1 .. 4
  BY SMT DEF Width
<1>1. /\ \A j \in DOMAIN a : j \in DOMAIN (a \o b) /\ (a \o b)[j] = a[j]
      /\ \A j \in DOMAIN b : Len(a) + j \in DOMAIN (a \o b) /\ (a \o b)[Len(a) + j] = b[j]
      /\ DOMAIN a \subseteq Nat /\ DOMAIN b \subseteq Nat /\ Len(a) \in Nat
  OBVIOUS
<1>2. \A j \in DOMAIN a : j \in Leads(a \o b) <=> j \in Leads(a)
  BY <1>1 DEF Leads
<1>3. \A j \in DOMAIN b : Len(a) + j \in Leads(a \o b) <=> j \in Leads(b)
  BY <1>1 DEF Leads
<1> DEFINE s == a \o b
<1> HIDE DEF s
<1>4. ASSUME NEW j \in DOMAIN a, ReadsAs(a, j, c)
      PROVE  ReadsAs(s, j, c)
  <2>1. \A k \in 1 .. Width(c) - 1 : j + k \in DOMAIN a \ Leads(a)
    BY SMT, <1>4 DEF ReadsAs
  <2>2. \A k \in 1 .. Width(c) - 1 : j + k \in DOMAIN s \ Leads(s) /\ s[j + k] = a[j + k]
    BY <1>1, <1>2, <2>1 DEF s
  <2>3. j \in Leads(s) /\ s[j] = a[j]
    BY SMT, <1>1, <1>2, <1>4 DEF s, ReadsAs
  <2>4. /\ Width(c) = 2 => s[j + 1] = a[j + 1]
        /\ Width(c) = 3 => s[j + 1] = a[j + 1] /\ s[j + 2] = a[j + 2]
        /\ Width(c) = 4 => s[j + 1] = a[j + 1] /\ s[j + 2] = a[j + 2] /\ s[j + 3] = a[j + 3]
    BY <2>2
  <2>5. CASE Width(c) = 1
    BY SMT, <1>4, <2>3, <2>5 DEF ReadsAs
  <2>6. CASE Width(c) = 2
    BY SMT, <1>4, <2>2, <2>3, <2>4, <2>6 DEF ReadsAs
  <2>7. CASE Width(c) = 3
    BY SMT, <1>4, <2>2, <2>3, <2>4, <2>7 DEF ReadsAs
  <2>8. CASE Width(c) = 4
    BY SMT, <1>4, <2>2, <2>3, <2>4, <2>8 DEF ReadsAs
  <2> QED BY SMT, <1>0, <2>5, <2>6, <2>7, <2>8
<1>5. ASSUME ReadsAs(b, 1, c)
      PROVE  ReadsAs(s, Len(a) + 1, c)
  <2>1. \A k \in 1 .. Width(c) - 1 : 1 + k \in DOMAIN b \ Leads(b)
    BY SMT, <1>5 DEF ReadsAs
  <2>2. \A k \in 1 .. Width(c) - 1 :
          (Len(a) + 1) + k \in DOMAIN s \ Leads(s) /\ s[(Len(a) + 1) + k] = b[1 + k]
    <3> TAKE k \in 1 .. Width(c) - 1
    <3>1. (Len(a) + 1) + k = Len(a) + (1 + k)
      BY <1>0, <1>1
    <3> QED BY <1>1, <1>3, <2>1, <3>1 DEF s
  <2>3. Len(a) + 1 \in Leads(s) /\ s[Len(a) + 1] = b[1]
    <3>1. 1 \in Leads(b) /\ 1 \in DOMAIN b
      BY SMT, <1>5 DEF ReadsAs, Leads
    <3> QED BY <1>1, <1>3, <3>1 DEF s
  <2>4. /\ Width(c) = 2 => s[(Len(a) + 1) + 1] = b[1 + 1]
        /\ Width(c) = 3 => s[(Len(a) + 1) + 1] = b[1 + 1] /\ s[(Len(a) + 1) + 2] = b[1 + 2]
        /\ Width(c) = 4 => /\ s[(Len(a) + 1) + 1] = b[1 + 1] /\ s[(Len(a) + 1) + 2] = b[1 + 2]
                           /\ s[(Len(a) + 1) + 3] = b[1 + 3]
    BY <2>2
  <2>5. CASE Width(c) = 1
    BY SMT, <1>5, <2>3, <2>5 DEF ReadsAs
  <2>6. CASE Width(c) = 2
    BY SMT, <1>5, <2>2, <2>3, <2>4, <2>6 DEF ReadsAs
  <2>7. CASE Width(c) = 3
    BY SMT, <1>5, <2>2, <2>3, <2>4, <2>7 DEF ReadsAs
  <2>8. CASE Width(c) = 4
    BY SMT, <1>5, <2>2, <2>3, <2>4, <2>8 DEF ReadsAs
  <2> QED BY SMT, <1>0, <2>5, <2>6, <2>7, <2>8
<1> QED BY <1>4, <1>5 DEF s

\* What is stored for a text: units of 16 bits.
LEMMA UnitsAre ==
  ASSUME NEW input \in Seq(Units), NEW i \in DOMAIN input
  PROVE  input[i] \in Nat /\ input[i] < 65536
<1>1. input[i] \in Units
  OBVIOUS
<1>2. Units \subseteq Nat
  BY SMT, TextAssumption
<1>3. \A u \in Units : u < 65536
  BY SMT, TextAssumption
<1>4. input[i] \in Nat
  BY <1>1, <1>2
<1>5. input[i] < 65536
  BY SMT, <1>1, <1>3
<1> QED BY <1>4, <1>5

\* The rest of a unit that is half of a pair.
LEMMA Halves ==
  ASSUME NEW u \in Nat
  PROVE  /\ IsHigh(u) => (u % 1024) = u - 55296
         /\ IsLow(u) => (u % 1024) = u - 56320
         /\ ~(IsHigh(u) /\ IsLow(u))
<1> DEFINE q == u \div 1024
           r == u % 1024
<1>1. q \in Int /\ r \in 0 .. 1023 /\ u = 1024 * q + r
  BY SMT
<1> HIDE DEF q, r
<1>2. IsHigh(u) => r = u - 55296
  BY SMT, <1>1 DEF IsHigh
<1>3. IsLow(u) => r = u - 56320
  BY SMT, <1>1 DEF IsLow
<1>4. ~(IsHigh(u) /\ IsLow(u))
  BY SMT DEF IsHigh, IsLow
<1> QED BY SMT, <1>2, <1>3, <1>4 DEF r

\* Where a character starts, the loop is at its scalar value, and goes on at
\* the character after it.
LEMMA CodeIsScalar ==
  ASSUME NEW input \in Seq(Units), NEW i \in Firsts(input)
  PROVE  /\ CodeAt(input, i) = Scalar(input, i) /\ CodeAt(input, i) \in Codes
         /\ After(input, i) \in {i + 1, i + 2} /\ After(input, i) <= Len(input) + 1
         /\ After(input, i) <= Len(input) => After(input, i) \in Firsts(input)
         /\ {k \in Firsts(input) : k <= After(input, i) - 1} = {k \in Firsts(input) : k <= i - 1} \cup {i}
<1> DEFINE n == Len(input)
<1>1. i \in 1 .. n /\ n \in Nat /\ DOMAIN input = 1 .. n /\ Firsts(input) \subseteq 1 .. n
  BY DEF Firsts
<1>2. /\ \A k \in 1 .. n : input[k] \in Nat /\ input[k] < 65536
      /\ \A k \in 1 .. n : k \in Firsts(input) <=> ~(k > 1 /\ IsLow(input[k]) /\ IsHigh(input[k - 1]))
  BY <1>1, UnitsAre DEF Firsts
<1> HIDE DEF n
<1>3. CASE i < n /\ IsHigh(input[i]) /\ IsLow(input[i + 1])
  <2>1. i + 1 \in 1 .. n /\ (i + 1) - 1 = i /\ i + 1 > 1
    BY <1>1, <1>3
  <2>2. i + 1 \notin Firsts(input)
    BY <1>2, <1>3, <2>1
  <2>3. PICK u, v \in Nat : u = input[i] /\ v = input[i + 1] /\ IsHigh(u) /\ IsLow(v)
    BY <1>1, <1>2, <1>3, <2>1
  <2>4. (u % 1024) = u - 55296 /\ (v % 1024) = v - 56320
    <3>1. (u % 1024) = u - 55296
      BY SMT, <2>3, Halves
    <3>2. (v % 1024) = v - 56320
      BY SMT, <2>3, Halves
    <3> QED BY SMT, <3>1, <3>2
  <2>5. CodeAt(input, i) = 65536 + (u - 55296) * 1024 + (v - 56320)
    BY SMT, <1>3, <2>3 DEF CodeAt, n
  <2>6. Scalar(input, i) = 65536 + (u % 1024) * 1024 + (v % 1024)
    BY SMT, <1>1, <2>1, <2>2, <2>3 DEF Scalar
  <2>7. PICK c \in Nat : c = CodeAt(input, i) /\ c = Scalar(input, i) /\ c > 65535 /\ c \in Codes
    <3>1. CodeAt(input, i) = Scalar(input, i)
      BY SMT, <2>4, <2>5, <2>6
    <3>2. CodeAt(input, i) \in Nat /\ CodeAt(input, i) > 65535 /\ CodeAt(input, i) < 1114112
      <4>1. PICK x \in Nat : x = u - 55296 /\ x <= 1023
        <5>1. u - 55296 \in Nat /\ u - 55296 <= 1023
          BY SMT, <2>3 DEF IsHigh
        <5> QED BY <5>1
      <4>2. PICK y \in Nat : y = v - 56320 /\ y <= 1023
        <5>1. v - 56320 \in Nat /\ v - 56320 <= 1023
          BY SMT, <2>3 DEF IsLow
        <5> QED BY <5>1
      <4>3. CodeAt(input, i) = 65536 + x * 1024 + y
        BY SMT, <2>5, <4>1, <4>2
      <4> QED BY SMT, <4>1, <4>2, <4>3
    <3> QED BY SMT, <3>1, <3>2 DEF Codes
  <2>8. ~IsLow(u)
    BY SMT, <2>3 DEF IsHigh, IsLow
  <2>9. i + 2 <= n => i + 2 \in Firsts(input)
    <3>1. ~IsHigh(v)
      BY SMT, <2>3 DEF IsHigh, IsLow
    <3>2. (i + 2) - 1 = i + 1 /\ (i + 2 <= n => i + 2 \in 1 .. n)
      BY <1>1
    <3> QED BY <1>2, <2>3, <3>1, <3>2
  <2>10. {k \in Firsts(input) : k <= (i + 2) - 1} = {k \in Firsts(input) : k <= i - 1} \cup {i}
    <3>1. \A k \in Firsts(input) : k <= (i + 2) - 1 <=> k <= i - 1 \/ k = i
      <4> TAKE k \in Firsts(input)
      <4>1. k # i + 1
        BY <2>2
      <4>2. k \in Nat /\ i \in Nat
        BY <1>1
      <4> QED BY <4>1, <4>2
    <3> QED BY <3>1
  <2>11. After(input, i) = i + 2
    BY SMT, <2>7 DEF After
  <2>12. i + 2 <= n + 1
    BY <1>1, <1>3
  <2> QED BY <2>7, <2>9, <2>10, <2>11, <2>12 DEF n
<1>4. CASE ~(i < n /\ IsHigh(input[i]) /\ IsLow(input[i + 1]))
  <2>1. i + 1 \in 1 .. n => i + 1 \in Firsts(input)
    <3>1. (i + 1) - 1 = i /\ (i + 1 \in 1 .. n => i < n)
      BY <1>1
    <3> QED BY <1>2, <1>4, <3>1
  <2>2. PICK u \in Nat : u = input[i] /\ u < 65536
    BY SMT, <1>1, <1>2
  <2>3. Scalar(input, i) = IF IsHigh(u) \/ IsLow(u) THEN 65533 ELSE u
    BY SMT, <1>1, <2>1, <2>2 DEF Scalar
  <2>4. ~IsLow(0)
    BY SMT DEF IsLow
  <2>5. CodeAt(input, i) = IF IsHigh(u) \/ IsLow(u) THEN 65533 ELSE u
    BY SMT, <1>4, <2>2, <2>4 DEF CodeAt, n
  <2>6. PICK c \in Nat : c = CodeAt(input, i) /\ c = Scalar(input, i) /\ ~(c > 65535) /\ c \in Codes
    BY SMT, <2>2, <2>3, <2>5 DEF Codes
  <2>7. {k \in Firsts(input) : k <= (i + 1) - 1} = {k \in Firsts(input) : k <= i - 1} \cup {i}
    <3>1. \A k \in Firsts(input) : k <= (i + 1) - 1 <=> k <= i - 1 \/ k = i
      BY <1>1
    <3> QED BY <3>1
  <2>8. After(input, i) = i + 1
    BY SMT, <2>6 DEF After
  <2>9. i + 1 <= n + 1 /\ (i + 1 <= n => i + 1 \in 1 .. n)
    BY <1>1
  <2> QED BY <2>1, <2>6, <2>7, <2>8, <2>9 DEF n
<1> QED BY <1>3, <1>4

\* One more character in the text, and its bytes behind those before it.
LEMMA EncodesNext ==
  ASSUME NEW input \in Seq(Units), NEW i \in Firsts(input),
         NEW bytes \in Seq(Nat), Encodes(bytes, input, i - 1)
  PROVE  Encodes(bytes \o BytesOf(CodeAt(input, i)), input, After(input, i) - 1)
<1> DEFINE D == {k \in Firsts(input) : k <= i - 1}
           E == {k \in Firsts(input) : k <= After(input, i) - 1}
<1>1. PICK c : c = CodeAt(input, i) /\ c = Scalar(input, i) /\ c \in Codes /\ E = D \cup {i}
  BY CodeIsScalar, Zenon
<1>2. PICK b : b = BytesOf(c) /\ b \in Seq(Nat) /\ Len(b) = Width(c) /\ ReadsAs(b, 1, c)
  BY <1>1, BytesRead
<1>3. PICK at \in [D -> DOMAIN bytes] :
        /\ \A k \in DOMAIN at : ReadsAs(bytes, at[k], Scalar(input, k))
        /\ \A k, l \in DOMAIN at : k < l => at[k] < at[l]
        /\ \A j \in DOMAIN bytes : \E k \in DOMAIN at : at[k] <= j /\ j < at[k] + Width(Scalar(input, k))
  BY Zenon DEF Encodes
<1> DEFINE s == bytes \o b
           p == Len(bytes) + 1
           to == [k \in E |-> IF k = i THEN p ELSE at[k]]
<1>4. /\ DOMAIN at = D /\ DOMAIN to = E
      /\ Firsts(input) \subseteq Nat /\ i \in Nat
      /\ \A k \in D : k \in Firsts(input) /\ k < i
  BY DEF Firsts
<1>5. /\ s \in Seq(Nat) /\ Len(s) = Len(bytes) + Len(b) /\ DOMAIN s = 1 .. Len(s)
      /\ DOMAIN bytes = 1 .. Len(bytes) /\ Len(bytes) \in Nat /\ Len(b) \in Nat /\ 1 \in DOMAIN b
      /\ DOMAIN b = 1 .. Len(b)
  <2>1. 1 \in DOMAIN b
    BY SMT, <1>2 DEF ReadsAs, Leads
  <2> QED BY <1>2, <2>1
<1>6. /\ to[i] = p /\ i \in E /\ \A k \in D : k \in E /\ to[k] = at[k] /\ at[k] \in DOMAIN bytes
      /\ \A k \in E : k \in D \/ k = i
  BY <1>1, <1>3, <1>4
<1>7. p \in DOMAIN s /\ DOMAIN bytes \subseteq DOMAIN s
  BY <1>5
<1>8. to \in [E -> DOMAIN s]
  BY <1>6, <1>7
<1> HIDE DEF D, E, s, to, p
<1>9. \A k \in E : ReadsAs(s, to[k], Scalar(input, k))
  <2>1. ReadsAs(s, to[i], Scalar(input, i))
    BY <1>1, <1>2, <1>6, ReadsAmong DEF s, p
  <2>2. ASSUME NEW k \in D PROVE ReadsAs(s, to[k], Scalar(input, k))
    <3>1. Scalar(input, k) \in Codes
      BY <1>4, CodeIsScalar
    <3> QED BY <1>2, <1>3, <1>4, <1>6, <3>1, ReadsAmong DEF s
  <2> QED BY <1>6, <2>1, <2>2
<1>10. \A k, l \in E : k < l => to[k] < to[l]
  <2> TAKE k, l \in E
  <2> SUFFICES ASSUME k < l PROVE to[k] < to[l]
    OBVIOUS
  <2>1. k \in D
    BY <1>4, <1>6
  <2>2. CASE l \in D
    BY <1>3, <1>4, <1>6, <2>1, <2>2
  <2>3. CASE l = i
    <3>1. to[k] \in 1 .. Len(bytes)
      BY <1>5, <1>6, <2>1
    <3>2. to[l] = Len(bytes) + 1
      BY <1>6, <2>3 DEF p
    <3> QED BY <1>5, <3>1, <3>2
  <2> QED BY <1>6, <2>2, <2>3
<1>11. \A j \in DOMAIN s : \E k \in E : to[k] <= j /\ j < to[k] + Width(Scalar(input, k))
  <2> TAKE j \in DOMAIN s
  <2>1. CASE j \in DOMAIN bytes
    BY <1>3, <1>4, <1>6, <2>1
  <2>2. CASE j \notin DOMAIN bytes
    <3>1. p <= j /\ j < p + Len(b)
      BY <1>5, <2>2 DEF p
    <3> QED BY <1>1, <1>2, <1>6, <3>1
  <2> QED BY <2>1, <2>2
<1>12. Encodes(s, input, After(input, i) - 1)
  BY <1>4, <1>8, <1>9, <1>10, <1>11, Zenon DEF Encodes, E
<1> QED BY <1>1, <1>2, <1>12 DEF s

\* One turn of the loop of encode, which it begins without a byte.
Turn(input, acc, i) ==
  IF i < acc.i THEN acc
  ELSE [bytes |-> acc.bytes \o BytesOf(CodeAt(input, i)), i |-> After(input, i)]
Begun == [bytes |-> <<>>, i |-> 1]

\* f is the loop on the sets of the first n positions: FoldLeft, by the
\* recursion over sets that defines it.
Turns(input, q, n, f) ==
  f = [s \in SUBSET (1 .. n) |-> IF s = {} THEN Begun ELSE Turn(input, f[s \ {Max(s)}], q[Max(s)])]

\* There is a function that has the turns for every set of positions up to n:
\* where it did not exist there would be a first n.
LEMMA TurnsExist ==
  ASSUME NEW input, NEW q, NEW n \in Nat
  PROVE  \E f : Turns(input, q, n, f)
<1> DEFINE T == {m \in Nat : ~\E f : Turns(input, q, m, f)}
<1> SUFFICES ASSUME T # {} PROVE FALSE
  OBVIOUS
<1> DEFINE m == Min(T)
<1>1. m \in T /\ \A y \in T : m <= y
  <2>1. T \subseteq Nat
    OBVIOUS
  <2> HIDE DEF T
  <2> QED BY <2>1, LeastOf
<1> HIDE DEF m
<1>2. m \in Nat /\ ~\E f : Turns(input, q, m, f)
  BY <1>1
<1>3. CASE m = 0
  <2> DEFINE g == [s \in SUBSET (1 .. 0) |-> Begun]
  <2>1. \A s \in SUBSET (1 .. 0) : s = {}
    OBVIOUS
  <2>2. g = [s \in SUBSET (1 .. 0) |-> IF s = {} THEN Begun ELSE Turn(input, g[s \ {Max(s)}], q[Max(s)])]
    BY <2>1
  <2> HIDE DEF g
  <2>3. Turns(input, q, 0, g)
    BY <2>2 DEF Turns
  <2> QED BY <1>2, <1>3, <2>3
<1>4. CASE m > 0
  <2>1. m - 1 \in Nat /\ m - 1 \notin T
    BY <1>1, <1>2, <1>4
  <2>2. PICK h : Turns(input, q, m - 1, h)
    BY <2>1
  <2> DEFINE g == [s \in SUBSET (1 .. m) |-> IF m \in s THEN Turn(input, h[s \ {m}], q[m]) ELSE h[s]]
  <2>3. \A s \in SUBSET (1 .. m - 1) : g[s] = h[s]
    BY <1>2, <1>4
  <2>4. ASSUME NEW s \in SUBSET (1 .. m)
        PROVE  g[s] = IF s = {} THEN Begun ELSE Turn(input, g[s \ {Max(s)}], q[Max(s)])
    <3>1. CASE m \in s
      <4>1. Max(s) = m
        <5>1. s \subseteq Nat /\ \A y \in s : m >= y
          BY <1>2
        <5> QED BY <3>1, <5>1, GreatestIs
      <4>2. s \ {m} \in SUBSET (1 .. m - 1)
        BY <1>2
      <4>3. g[s] = Turn(input, h[s \ {m}], q[m])
        BY <3>1
      <4> HIDE DEF g
      <4> QED BY <2>3, <3>1, <4>1, <4>2, <4>3
    <3>2. CASE m \notin s
      <4>1. s \in SUBSET (1 .. m - 1) /\ s \ {Max(s)} \in SUBSET (1 .. m - 1)
        <5>1. \A i \in s : i \in 1 .. m - 1
          BY <1>2, <1>4, <3>2
        <5> QED BY <5>1
      <4>2. h[s] = IF s = {} THEN Begun ELSE Turn(input, h[s \ {Max(s)}], q[Max(s)])
        BY <2>2, <4>1 DEF Turns
      <4> HIDE DEF g
      <4> QED BY <2>3, <4>1, <4>2
    <3> QED BY <3>1, <3>2
  <2>5. g = [s \in SUBSET (1 .. m) |-> g[s]]
    OBVIOUS
  <2> HIDE DEF g
  <2>6. Turns(input, q, m, g)
    BY <2>4, <2>5 DEF Turns
  <2> QED BY <1>2, <2>6
<1> QED BY <1>2, <1>3, <1>4

\* The loop begins with no byte, and takes a turn per unit.
LEMMA TurnByTurn ==
  ASSUME NEW input, NEW q, NEW n \in Nat, NEW f, Turns(input, q, n, f)
  PROVE  /\ f[1 .. 0] = Begun
         /\ \A k \in 1 .. n : f[1 .. k] = Turn(input, f[1 .. k - 1], q[k])
<1>1. f[1 .. 0] = Begun
  <2>1. 1 .. 0 \in SUBSET (1 .. n) /\ 1 .. 0 = {}
    OBVIOUS
  <2> QED BY <2>1 DEF Turns
<1>2. ASSUME NEW k \in 1 .. n
      PROVE  f[1 .. k] = Turn(input, f[1 .. k - 1], q[k])
  <2>1. Max(1 .. k) = k
    <3>1. 1 .. k \subseteq Nat /\ k \in 1 .. k /\ \A y \in 1 .. k : k >= y
      OBVIOUS
    <3> QED BY <3>1, GreatestIs
  <2>2. 1 .. k \in SUBSET (1 .. n) /\ 1 .. k # {} /\ (1 .. k) \ {k} = 1 .. k - 1
    OBVIOUS
  <2>3. f[1 .. k] = IF 1 .. k = {} THEN Begun ELSE Turn(input, f[(1 .. k) \ {Max(1 .. k)}], q[Max(1 .. k)])
    BY <2>2 DEF Turns
  <2> QED BY <2>1, <2>2, <2>3
<1> QED BY <1>1, <1>2

\* encode returns the bytes of the last turn.
LEMMA EncodeTurns ==
  ASSUME NEW S, NEW input \in Seq(S)
  PROVE  \E f : /\ encode(input) = f[1 .. Len(input)].bytes /\ f[1 .. 0] = Begun
                /\ \A k \in 1 .. Len(input) : f[1 .. k] = Turn(input, f[1 .. k - 1], k)
<1> DEFINE q == [i \in DOMAIN input |-> i]
           D == DOMAIN q
           f == CHOOSE f : f = [s \in SUBSET D |-> IF s = {} THEN Begun ELSE Turn(input, f[s \ {Max(s)}], q[Max(s)])]
<1>1. encode(input) = f[D].bytes
  BY Zenon DEF encode, FoldLeft, MapThenFoldSet, Turn, Begun
<1>2. D = 1 .. Len(input) /\ Len(input) \in Nat /\ \A k \in 1 .. Len(input) : q[k] = k
  OBVIOUS
<1> HIDE DEF q, D
<1>3. f = CHOOSE g : Turns(input, q, Len(input), g)
  BY <1>2, Zenon DEF Turns
<1> HIDE DEF f
<1>4. Turns(input, q, Len(input), f)
  <2>1. \E g : Turns(input, q, Len(input), g)
    BY <1>2, TurnsExist
  <2> QED BY <1>3, <2>1, Zenon
<1>5. f[1 .. 0] = Begun /\ \A k \in 1 .. Len(input) : f[1 .. k] = Turn(input, f[1 .. k - 1], q[k])
  BY <1>2, <1>4, TurnByTurn
<1> QED BY <1>1, <1>2, <1>5

\* The bytes of nothing.
LEMMA EncodesNone ==
  ASSUME NEW input
  PROVE  Encodes(<<>>, input, 0)
<1>1. {i \in Firsts(input) : i <= 0} = {}
  <2>1. \A i \in Firsts(input) : i \in 1 .. Len(input)
    BY DEF Firsts
  <2> QED BY <2>1
<1> DEFINE at == [i \in {} |-> 1]
<1>2. at \in [{} -> DOMAIN <<>>] /\ DOMAIN at = {}
  OBVIOUS
<1>3. DOMAIN <<>> = {}
  OBVIOUS
<1> HIDE DEF at
<1> QED BY <1>1, <1>2, <1>3, Zenon DEF Encodes

\* encode encodes the whole of any text.
LEMMA EncodeEncodes ==
  ASSUME NEW input \in Seq(Units)
  PROVE  Encodes(encode(input), input, Len(input))
<1> DEFINE n == Len(input)
<1>1. PICK f : /\ encode(input) = f[1 .. n].bytes /\ f[1 .. 0] = Begun
               /\ \A k \in 1 .. n : f[1 .. k] = Turn(input, f[1 .. k - 1], k)
  BY EncodeTurns
<1>2. n \in Nat /\ Firsts(input) \subseteq 1 .. n /\ DOMAIN input = 1 .. n
  BY DEF Firsts
<1> DEFINE Good(k) == LET acc == f[1 .. k] IN
             /\ acc.i \in {k + 1, k + 2} /\ (acc.i <= n => acc.i \in Firsts(input)) /\ acc.i <= n + 1
             /\ acc.bytes \in Seq(Nat) /\ Encodes(acc.bytes, input, acc.i - 1)
           T == {k \in 0 .. n : ~Good(k)}
<1>3. Good(0)
  <2>1. Begun.bytes = <<>> /\ Begun.i = 1 /\ <<>> \in Seq(Nat)
    BY DEF Begun
  <2>2. 1 <= n => 1 \in Firsts(input)
    BY <1>2 DEF Firsts
  <2> QED BY <1>1, <1>2, <2>1, <2>2, EncodesNone
<1>4. ASSUME NEW k \in 1 .. n, Good(k - 1)
      PROVE  Good(k)
  <2> DEFINE acc == f[1 .. k - 1]
  <2>1. f[1 .. k] = Turn(input, acc, k)
    BY <1>1
  <2>2. /\ acc.i \in {k, k + 1} /\ (acc.i <= n => acc.i \in Firsts(input)) /\ acc.i <= n + 1
        /\ acc.bytes \in Seq(Nat) /\ Encodes(acc.bytes, input, acc.i - 1)
    <3>1. (k - 1) + 1 = k /\ (k - 1) + 2 = k + 1
      OBVIOUS
    <3> QED BY <1>4, <3>1
  <2> HIDE DEF acc
  <2>3. CASE acc.i = k + 1
    <3>1. f[1 .. k] = acc
      BY <2>1, <2>3 DEF Turn
    <3> QED BY <2>2, <2>3, <3>1
  <2>4. CASE acc.i = k
    <3>1. k \in Firsts(input) /\ Encodes(acc.bytes, input, k - 1)
      BY <2>2, <2>4
    <3> DEFINE b == BytesOf(CodeAt(input, k))
    <3>2. f[1 .. k].bytes = acc.bytes \o b /\ f[1 .. k].i = After(input, k)
      BY <2>1, <2>4 DEF Turn
    <3>3. /\ CodeAt(input, k) \in Codes /\ After(input, k) \in {k + 1, k + 2} /\ After(input, k) <= n + 1
          /\ After(input, k) <= n => After(input, k) \in Firsts(input)
      BY <3>1, CodeIsScalar
    <3>4. b \in Seq(Nat)
      BY <3>3, BytesRead
    <3>5. Encodes(acc.bytes \o b, input, After(input, k) - 1)
      BY <2>2, <3>1, EncodesNext
    <3> HIDE DEF b
    <3>6. acc.bytes \o b \in Seq(Nat)
      BY <2>2, <3>4
    <3> QED BY <3>2, <3>3, <3>5, <3>6
  <2> QED BY <2>2, <2>3, <2>4
<1>5. Good(n)
  <2>0. n \in 0 .. n
    BY <1>2
  <2> HIDE DEF n, Good
  <2> SUFFICES ASSUME T # {} PROVE FALSE
    BY <2>0
  <2> DEFINE k == Min(T)
  <2>1. k \in T /\ \A y \in T : k <= y
    <3>1. T \subseteq Nat
      OBVIOUS
    <3> HIDE DEF T
    <3> QED BY <3>1, LeastOf
  <2> HIDE DEF k
  <2>2. k \in 0 .. n /\ ~Good(k)
    BY <2>1
  <2>3. k # 0
    BY <1>3, <2>2
  <2>4. k \in 1 .. n /\ k - 1 \in 0 .. n /\ ~(k <= k - 1)
    BY <1>2, <2>2, <2>3
  <2>5. Good(k - 1)
    BY <2>1, <2>4
  <2> QED BY <1>4, <2>2, <2>4, <2>5
<1>6. f[1 .. n].i = n + 1
  BY <1>2, <1>5
<1>7. f[1 .. n].i - 1 = n
  BY <1>2, <1>6
<1> QED BY <1>1, <1>5, <1>7

\* The character encodeInto is at, and what encode makes of it.
LEMMA CharacterEncoded ==
  ASSUME text \in Seq(Units), read \in 0 .. Len(text) - 1, read + 1 \in Firsts(text)
  PROVE  /\ encode(CodePoint) = BytesOf(CodeAt(text, read + 1))
         /\ read + Len(CodePoint) = After(text, read + 1) - 1
<1> DEFINE n == Len(text)
<1>0. n \in Nat /\ read \in Nat /\ read + 1 \in 1 .. n /\ DOMAIN text = 1 .. n
  OBVIOUS
<1>1. PICK i : i = read + 1 /\ i \in 1 .. n /\ i + 1 = read + 2 /\ read = i - 1
  BY <1>0
<1>2. text[i] \in Units /\ text[i] \in Nat /\ text[i] < 65536
  BY <1>0, <1>1, UnitsAre
<1>3. CASE read + 1 < n /\ IsHigh(text[i]) /\ IsLow(text[i + 1])
  <2>1. i + 1 \in 1 .. n
    BY <1>0, <1>1, <1>3
  <2>2. PICK u, v \in Units : u = text[i] /\ v = text[i + 1] /\ IsHigh(u) /\ IsLow(v)
    BY <1>0, <1>1, <1>2, <1>3, <2>1
  <2>3. CodePoint = SubSeq(text, i, i + 1)
    BY <1>1, <1>3 DEF CodePoint, n
  <2> DEFINE p == <<u, v>>
  <2>4. p \in Seq(Units) /\ Len(p) = 2 /\ p[1] = u /\ p[2] = v
    OBVIOUS
  <2>5. CodePoint = p
    <3>1. /\ CodePoint \in Seq(Units) /\ Len(CodePoint) = 2
          /\ CodePoint[1] = text[i] /\ CodePoint[2] = text[i + 1]
      BY <1>0, <1>1, <2>1, <2>3
    <3> HIDE DEF p
    <3> QED BY <2>2, <2>4, <3>1
  <2> HIDE DEF p
  <2>6. CodeAt(text, i) = 65536 + (u - 55296) * 1024 + (v - 56320)
    BY SMT, <1>1, <1>3, <2>2 DEF CodeAt, n
  <2>7. CodeAt(p, 1) = 65536 + (u - 55296) * 1024 + (v - 56320)
    BY SMT, <2>2, <2>4 DEF CodeAt
  <2>8. CodeAt(p, 1) = CodeAt(text, i)
    BY <2>6, <2>7
  <2>9. CodeAt(text, i) > 65535
    <3>1. u \in Nat /\ v \in Nat
      BY <1>0, <1>1, <2>1, <2>2, UnitsAre
    <3>2. u - 55296 \in Nat
      BY SMT, <2>2, <3>1 DEF IsHigh
    <3>3. v - 56320 \in Nat
      BY SMT, <2>2, <3>1 DEF IsLow
    <3> QED BY SMT, <2>6, <3>2, <3>3
  <2>10. After(p, 1) = 3 /\ After(text, i) = i + 2
    BY SMT, <2>8, <2>9 DEF After
  <2>11. PICK f : /\ encode(p) = f[1 .. Len(p)].bytes /\ f[1 .. 0] = Begun
                  /\ \A k \in 1 .. Len(p) : f[1 .. k] = Turn(p, f[1 .. k - 1], k)
    BY <2>4, EncodeTurns
  <2>12. f[1 .. 1] = Turn(p, Begun, 1) /\ f[1 .. 2] = Turn(p, f[1 .. 1], 2) /\ encode(p) = f[1 .. 2].bytes
    <3>1. 1 - 1 = 0 /\ 2 - 1 = 1 /\ 1 \in 1 .. Len(p) /\ 2 \in 1 .. Len(p)
      BY <2>4
    <3> QED BY <2>4, <2>11, <3>1
  <2>13. f[1 .. 1].bytes = <<>> \o BytesOf(CodeAt(p, 1)) /\ f[1 .. 1].i = 3
    BY <2>10, <2>12 DEF Turn, Begun
  <2>14. f[1 .. 2] = f[1 .. 1]
    BY <2>12, <2>13 DEF Turn
  <2>15. BytesOf(CodeAt(text, i)) \in Seq(Nat)
    BY <1>1, CodeIsScalar, BytesRead
  <2>16. encode(p) = BytesOf(CodeAt(text, i))
    BY <2>8, <2>12, <2>13, <2>14, <2>15
  <2>17. encode(CodePoint) = BytesOf(CodeAt(text, read + 1))
    BY <1>1, <2>5, <2>16
  <2>18. read + Len(CodePoint) = After(text, read + 1) - 1
    <3>1. Len(CodePoint) = 2
      BY <2>4, <2>5
    <3>2. After(text, read + 1) = i + 2
      BY <1>1, <2>10
    <3> QED BY <1>0, <1>1, <3>1, <3>2
  <2> QED BY <2>17, <2>18
<1>4. CASE ~(read + 1 < n /\ IsHigh(text[i]) /\ IsLow(text[i + 1]))
  <2>1. CodePoint = <<text[i]>>
    BY <1>1, <1>4 DEF CodePoint, n
  <2>2. PICK u \in Units : u = text[i] /\ u \in Nat /\ u < 65536
    BY <1>2
  <2> DEFINE p == <<u>>
  <2>3. p \in Seq(Units) /\ Len(p) = 1 /\ p[1] = u
    OBVIOUS
  <2>4. CodePoint = p
    BY <2>1, <2>2
  <2> HIDE DEF p
  <2>5. ~IsLow(0)
    BY SMT DEF IsLow
  <2>6. CodeAt(text, i) = IF IsHigh(u) \/ IsLow(u) THEN 65533 ELSE u
    BY SMT, <1>1, <1>4, <2>2, <2>5 DEF CodeAt, n
  <2>7. CodeAt(p, 1) = IF IsHigh(u) \/ IsLow(u) THEN 65533 ELSE u
    BY SMT, <2>3, <2>5 DEF CodeAt
  <2>8. CodeAt(p, 1) = CodeAt(text, i)
    BY <2>6, <2>7
  <2>9. ~(CodeAt(text, i) > 65535)
    BY SMT, <2>2, <2>6
  <2>10. After(p, 1) = 2 /\ After(text, i) = i + 1
    BY SMT, <2>8, <2>9 DEF After
  <2>11. PICK f : /\ encode(p) = f[1 .. Len(p)].bytes /\ f[1 .. 0] = Begun
                  /\ \A k \in 1 .. Len(p) : f[1 .. k] = Turn(p, f[1 .. k - 1], k)
    BY <2>3, EncodeTurns
  <2>12. f[1 .. 1] = Turn(p, Begun, 1) /\ encode(p) = f[1 .. 1].bytes
    <3>1. 1 - 1 = 0 /\ 1 \in 1 .. Len(p)
      BY <2>3
    <3> QED BY <2>3, <2>11, <3>1
  <2>13. f[1 .. 1].bytes = <<>> \o BytesOf(CodeAt(p, 1))
    BY <2>12 DEF Turn, Begun
  <2>14. BytesOf(CodeAt(text, i)) \in Seq(Nat)
    BY <1>1, CodeIsScalar, BytesRead
  <2>15. encode(p) = BytesOf(CodeAt(text, i))
    BY <2>8, <2>12, <2>13, <2>14
  <2>16. encode(CodePoint) = BytesOf(CodeAt(text, read + 1))
    BY <1>1, <2>4, <2>15
  <2>17. read + Len(CodePoint) = After(text, read + 1) - 1
    <3>1. Len(CodePoint) = 1
      BY <2>3, <2>4
    <3>2. After(text, read + 1) = i + 1
      BY <1>1, <2>10
    <3> QED BY <1>0, <1>1, <3>1, <3>2
  <2> QED BY <2>16, <2>17
<1> QED BY <1>3, <1>4

\* Whole characters are read, their bytes are in the buffer, and the loop has
\* ended where the next one does not fit.
TextInv ==
  /\ text \in Seq(Units) /\ room \in Nat
  /\ read \in 0 .. Len(text) /\ (read < Len(text) => read + 1 \in Firsts(text))
  /\ buffer \in Seq(Nat) /\ Encodes(buffer, text, read) /\ Len(buffer) <= room
  /\ encoding = "done" /\ read < Len(text) => Len(buffer) + Width(Scalar(text, read + 1)) > room

\* What encodeInto reads next is one character, in its bytes.
LEMMA NextCharacter ==
  ASSUME TextInv, read < Len(text)
  PROVE  LET b == encode(CodePoint) IN
         /\ read + 1 \in Firsts(text)
         /\ b \in Seq(Nat) /\ Len(b) = Width(Scalar(text, read + 1))
         /\ Encodes(buffer \o b, text, read + Len(CodePoint))
         /\ read + Len(CodePoint) \in 0 .. Len(text)
         /\ read + Len(CodePoint) < Len(text) => read + Len(CodePoint) + 1 \in Firsts(text)
<1>1. /\ text \in Seq(Units) /\ read \in 0 .. Len(text) - 1 /\ read + 1 \in Firsts(text) /\ Len(text) \in Nat
      /\ buffer \in Seq(Nat) /\ Encodes(buffer, text, read) /\ (read + 1) - 1 = read
  BY DEF TextInv
<1>2. PICK i, c, m : i = read + 1 /\ c = CodeAt(text, i) /\ m = After(text, i)
  OBVIOUS
<1>3. encode(CodePoint) = BytesOf(c) /\ read + Len(CodePoint) = m - 1
  BY <1>1, <1>2, CharacterEncoded
<1>4. /\ c = Scalar(text, i) /\ c \in Codes /\ m \in {i + 1, i + 2} /\ m <= Len(text) + 1
      /\ m <= Len(text) => m \in Firsts(text)
  BY <1>1, <1>2, CodeIsScalar
<1>5. BytesOf(c) \in Seq(Nat) /\ Len(BytesOf(c)) = Width(c)
  BY <1>4, BytesRead
<1>6. Encodes(buffer \o BytesOf(c), text, m - 1)
  BY <1>1, <1>2, EncodesNext
<1>7. m - 1 \in 0 .. Len(text) /\ (m - 1) + 1 = m /\ (m - 1 < Len(text) => m <= Len(text))
  BY <1>1, <1>2, <1>4
<1> QED BY <1>1, <1>2, <1>3, <1>4, <1>5, <1>6, <1>7

\* Before the first character nothing is read and nothing written.
LEMMA TextInvHolds == SandboxInit => TextInv
<1> SUFFICES ASSUME SandboxInit PROVE TextInv
  OBVIOUS
<1>1. PICK n \in 0 .. MaxUnits : text \in [1 .. n -> Units]
  BY DEF SandboxInit
<1>2. n \in Nat /\ text \in Seq(Units) /\ Len(text) = n
  <2>1. n \in Nat
    BY TextAssumption
  <2> QED BY <1>1, <2>1
<1>3. room \in Nat /\ read = 0 /\ buffer = <<>> /\ encoding = "begun"
  BY SMT, TextAssumption DEF SandboxInit
<1>4. 0 < n => 0 + 1 \in Firsts(text)
  BY <1>1, <1>2 DEF Firsts
<1>5. Encodes(<<>>, text, 0)
  BY EncodesNone
<1>6. <<>> \in Seq(Nat) /\ Len(<<>>) = 0
  OBVIOUS
<1> QED BY <1>2, <1>3, <1>4, <1>5, <1>6 DEF TextInv

\* A character that fits is written whole, and one that does not ends the loop.
LEMMA TextInvStep == TextInv /\ [SandboxNext]_sandboxVars => TextInv'
<1> SUFFICES ASSUME TextInv, [SandboxNext]_sandboxVars PROVE TextInv'
  OBVIOUS
<1>1. CASE UNCHANGED <<text, room, read, buffer, encoding>>
  BY <1>1, Zenon DEF TextInv
<1>2. CASE encodeInto
  <2>1. text' = text /\ room' = room
    BY <1>2 DEF encodeInto
  <2>2. Len(text) \in Nat /\ read \in Nat /\ Len(buffer) \in Nat /\ room \in Nat
    BY DEF TextInv
  <2>3. CASE read < Len(text) /\ Fits
    <3>1. PICK b : b = encode(CodePoint)
      OBVIOUS
    <3>2. buffer' = buffer \o b /\ read' = read + Len(CodePoint) /\ encoding' = "begun"
      BY <1>2, <2>3, <3>1 DEF encodeInto
    <3>3. /\ b \in Seq(Nat) /\ Encodes(buffer \o b, text, read') /\ read' \in 0 .. Len(text)
          /\ read' < Len(text) => read' + 1 \in Firsts(text)
      BY <2>3, <3>1, <3>2, NextCharacter
    <3>4. buffer \o b \in Seq(Nat) /\ Len(buffer \o b) <= room
      <4>1. Len(b) <= room - Len(buffer)
        BY <2>3, <3>1 DEF Fits
      <4>2. buffer \in Seq(Nat)
        BY DEF TextInv
      <4> QED BY <2>2, <3>3, <4>1, <4>2
    <3> QED BY <2>1, <3>2, <3>3, <3>4 DEF TextInv
  <2>4. CASE ~(read < Len(text) /\ Fits)
    <3>1. buffer' = buffer /\ read' = read /\ encoding' = "done"
      BY <1>2, <2>4 DEF encodeInto
    <3>2. ASSUME read < Len(text)
          PROVE  Len(buffer) + Width(Scalar(text, read + 1)) > room
      <4>1. PICK b : b = encode(CodePoint) /\ b \in Seq(Nat) /\ Len(b) = Width(Scalar(text, read + 1))
        BY <3>2, NextCharacter
      <4>2. ~(Len(b) <= room - Len(buffer))
        BY <2>4, <3>2, <4>1 DEF Fits
      <4> QED BY <2>2, <4>1, <4>2
    <3> QED BY <2>1, <3>1, <3>2 DEF TextInv
  <2> QED BY <2>3, <2>4
<1> QED
  BY <1>1, <1>2 DEF SandboxNext, ReadBlock, ensureSandboxPolyfills, Enter, sandboxVars

\* For any text, with surrogates wherever they are, and a buffer of any size:
\* encode writes the shortest encoding of the text, and encodeInto that of the
\* units it reads, in whole characters and as many as the buffer holds.
THEOREM TextsEncoded == SandboxSpec => []EncodesText
<1>1. TextInv => EncodesText
  <2> SUFFICES ASSUME TextInv PROVE EncodesText
    OBVIOUS
  <2>1. Encodes(encode(text), text, Len(text))
    BY EncodeEncodes DEF TextInv
  <2>2. read = Len(text) \/ read + 1 \in Firsts(text)
    <3>1. read \in 0 .. Len(text) /\ Len(text) \in Nat
      BY DEF TextInv
    <3> QED BY <3>1 DEF TextInv
  <2> QED BY <2>1, <2>2 DEF TextInv, EncodesText
<1> QED BY <1>1, TextInvHolds, TextInvStep, PTL DEF SandboxSpec

\* A byte that does not start a character.
Inner(u) == u \in Nat /\ u >= 128 /\ u <= 191

\* A scalar value is read of no other bytes.
LEMMA ReadsOne ==
  ASSUME NEW a \in Seq(Nat), NEW b \in Seq(Nat), NEW c \in Codes, NEW j \in Nat,
         ReadsAs(a, j, c), ReadsAs(b, j, c)
  PROVE  \A k \in 0 .. Width(c) - 1 : j + k \in DOMAIN a /\ j + k \in DOMAIN b /\ a[j + k] = b[j + k]
<1> DEFINE Same(k) == j + k \in DOMAIN a /\ j + k \in DOMAIN b /\ a[j + k] = b[j + k]
<1>0. Width(c) \in {1, 2, 3, 4}
  BY SMT DEF Width
<1>1. j \in DOMAIN a /\ j \in DOMAIN b /\ j + 0 = j
  <2>1. j \in DOMAIN a /\ j \in DOMAIN b
    BY SMT DEF ReadsAs, Leads
  <2> QED BY <2>1
<1>2. PICK p \in Nat, q \in Nat : p = a[j] /\ q = b[j]
  BY <1>1
<1>3. ASSUME NEW k \in 1 .. Width(c) - 1
      PROVE  \E x, y \in Nat : /\ Inner(x) /\ Inner(y) /\ a[j + k] = x /\ b[j + k] = y
                               /\ j + k \in DOMAIN a /\ j + k \in DOMAIN b
  <2>1. j + k \in DOMAIN a \ Leads(a) /\ j + k \in DOMAIN b \ Leads(b)
    BY SMT DEF ReadsAs
  <2>2. PICK x, y \in Nat : x = a[j + k] /\ y = b[j + k] /\ ~(x < 128 \/ x > 191) /\ ~(y < 128 \/ y > 191)
    BY <2>1 DEF Leads
  <2> QED BY <2>1, <2>2 DEF Inner
<1>4. CASE Width(c) = 1
  <2>1. a[j] = b[j]
    BY SMT, <1>4 DEF ReadsAs
  <2>2. \A k \in 0 .. Width(c) - 1 : k = 0
    BY <1>4
  <2> QED BY <1>1, <2>1, <2>2
<1>5. CASE Width(c) = 2
  <2>0. 1 \in 1 .. Width(c) - 1
    BY <1>5
  <2>1. PICK x, y \in Nat : /\ Inner(x) /\ Inner(y) /\ a[j + 1] = x /\ b[j + 1] = y
                            /\ j + 1 \in DOMAIN a /\ j + 1 \in DOMAIN b
    BY <1>3, <2>0
  <2>2. (p - 192) * 64 + (x - 128) = c
    BY SMT, <1>2, <1>5, <2>1 DEF ReadsAs
  <2>3. (q - 192) * 64 + (y - 128) = c
    BY SMT, <1>2, <1>5, <2>1 DEF ReadsAs
  <2>4. p = q /\ x = y
    <3>1. Inner(x) /\ Inner(y)
      BY <2>1
    <3> QED BY SMT, <2>2, <2>3, <3>1 DEF Inner
  <2>5. Same(0) /\ Same(1)
    BY <1>1, <1>2, <2>1, <2>4
  <2>6. \A k \in 0 .. Width(c) - 1 : k = 0 \/ k = 1
    BY <1>5
  <2> QED BY <2>5, <2>6
<1>6. CASE Width(c) = 3
  <2>0. 1 \in 1 .. Width(c) - 1 /\ 2 \in 1 .. Width(c) - 1
    BY <1>6
  <2>1. PICK x, y \in Nat : /\ Inner(x) /\ Inner(y) /\ a[j + 1] = x /\ b[j + 1] = y
                            /\ j + 1 \in DOMAIN a /\ j + 1 \in DOMAIN b
    BY <1>3, <2>0
  <2>2. PICK z, w \in Nat : /\ Inner(z) /\ Inner(w) /\ a[j + 2] = z /\ b[j + 2] = w
                            /\ j + 2 \in DOMAIN a /\ j + 2 \in DOMAIN b
    BY <1>3, <2>0
  <2>3. (p - 224) * 4096 + (x - 128) * 64 + (z - 128) = c
    BY SMT, <1>2, <1>6, <2>1, <2>2 DEF ReadsAs
  <2>4. (q - 224) * 4096 + (y - 128) * 64 + (w - 128) = c
    BY SMT, <1>2, <1>6, <2>1, <2>2 DEF ReadsAs
  <2>5. p = q /\ x = y /\ z = w
    <3>0. Inner(x) /\ Inner(y) /\ Inner(z) /\ Inner(w)
      BY <2>1, <2>2
    <3>1. PICK i, l \in Int : i = (p - 224) * 64 + x /\ l = (q - 224) * 64 + y
      OBVIOUS
    <3>2. i * 64 + z = l * 64 + w
      BY SMT, <2>3, <2>4, <3>1
    <3>3. i = l /\ z = w
      BY SMT, <3>0, <3>2 DEF Inner
    <3>4. p = q /\ x = y
      BY SMT, <3>0, <3>1, <3>3 DEF Inner
    <3> QED BY <3>3, <3>4
  <2>6. Same(0) /\ Same(1) /\ Same(2)
    BY <1>1, <1>2, <2>1, <2>2, <2>5
  <2>7. \A k \in 0 .. Width(c) - 1 : k = 0 \/ k = 1 \/ k = 2
    BY <1>6
  <2> QED BY <2>6, <2>7
<1>7. CASE Width(c) = 4
  <2>0. 1 \in 1 .. Width(c) - 1 /\ 2 \in 1 .. Width(c) - 1 /\ 3 \in 1 .. Width(c) - 1
    BY <1>7
  <2>1. PICK x, y \in Nat : /\ Inner(x) /\ Inner(y) /\ a[j + 1] = x /\ b[j + 1] = y
                            /\ j + 1 \in DOMAIN a /\ j + 1 \in DOMAIN b
    BY <1>3, <2>0
  <2>2. PICK z, w \in Nat : /\ Inner(z) /\ Inner(w) /\ a[j + 2] = z /\ b[j + 2] = w
                            /\ j + 2 \in DOMAIN a /\ j + 2 \in DOMAIN b
    BY <1>3, <2>0
  <2>3. PICK r, s \in Nat : /\ Inner(r) /\ Inner(s) /\ a[j + 3] = r /\ b[j + 3] = s
                            /\ j + 3 \in DOMAIN a /\ j + 3 \in DOMAIN b
    BY <1>3, <2>0
  <2>4. (p - 240) * 262144 + (x - 128) * 4096 + (z - 128) * 64 + (r - 128) = c
    BY SMT, <1>2, <1>7, <2>1, <2>2, <2>3 DEF ReadsAs
  <2>5. (q - 240) * 262144 + (y - 128) * 4096 + (w - 128) * 64 + (s - 128) = c
    BY SMT, <1>2, <1>7, <2>1, <2>2, <2>3 DEF ReadsAs
  <2>6. p = q /\ x = y /\ z = w /\ r = s
    <3>0. Inner(x) /\ Inner(y) /\ Inner(z) /\ Inner(w) /\ Inner(r) /\ Inner(s)
      BY <2>1, <2>2, <2>3
    <3>1. PICK i, l \in Int : i = (p - 240) * 64 + x /\ l = (q - 240) * 64 + y
      OBVIOUS
    <3>2. PICK m, n \in Int : m = i * 64 + z /\ n = l * 64 + w
      OBVIOUS
    <3>3. m * 64 + r = n * 64 + s
      BY SMT, <2>4, <2>5, <3>1, <3>2
    <3>4. m = n /\ r = s
      BY SMT, <3>0, <3>3 DEF Inner
    <3>5. i = l /\ z = w
      BY SMT, <3>0, <3>2, <3>4 DEF Inner
    <3>6. p = q /\ x = y
      BY SMT, <3>0, <3>1, <3>5 DEF Inner
    <3> QED BY <3>4, <3>5, <3>6
  <2>7. Same(0) /\ Same(1) /\ Same(2) /\ Same(3)
    BY <1>1, <1>2, <2>1, <2>2, <2>3, <2>6
  <2>8. \A k \in 0 .. Width(c) - 1 : k = 0 \/ k = 1 \/ k = 2 \/ k = 3
    BY <1>7
  <2> QED BY <2>7, <2>8
<1> QED BY <1>0, <1>4, <1>5, <1>6, <1>7

\* Where the characters of the first n units are in the bytes.
Places(at, bytes, units, n) ==
  /\ at \in [{i \in Firsts(units) : i <= n} -> DOMAIN bytes]
  /\ \A i \in DOMAIN at : ReadsAs(bytes, at[i], Scalar(units, i))
  /\ \A i, k \in DOMAIN at : i < k => at[i] < at[k]
  /\ \A j \in DOMAIN bytes : \E i \in DOMAIN at : at[i] <= j /\ j < at[i] + Width(Scalar(units, i))

\* In another encoding a character is not later, if those before it are at the
\* same places: its first byte here would be a later byte of one of them there.
LEMMA NotLater ==
  ASSUME NEW units \in Seq(Units), NEW n \in Nat, NEW a \in Seq(Nat), NEW b \in Seq(Nat),
         NEW at, NEW to, Places(at, a, units, n), Places(to, b, units, n),
         NEW i \in DOMAIN at, \A k \in DOMAIN at : k < i => at[k] = to[k]
  PROVE  to[i] <= at[i]
<1>1. /\ DOMAIN at = DOMAIN to /\ DOMAIN at \subseteq Nat
      /\ \A k \in DOMAIN at : at[k] \in DOMAIN a /\ to[k] \in DOMAIN b
  <2> DEFINE D == {k \in Firsts(units) : k <= n}
  <2>1. at \in [D -> DOMAIN a] /\ to \in [D -> DOMAIN b]
    BY DEF Places
  <2>2. D \subseteq Nat
    BY DEF Firsts
  <2> HIDE DEF D
  <2> QED BY <2>1, <2>2
<1>2. at[i] \in Nat /\ to[i] \in Nat /\ at[i] >= 1 /\ to[i] <= Len(b) /\ Len(b) \in Nat /\ DOMAIN b = 1 .. Len(b)
  BY <1>1
<1>3. SUFFICES ASSUME at[i] < to[i] PROVE FALSE
  BY <1>2
<1>4. at[i] \in DOMAIN b
  BY <1>2, <1>3
<1>5. PICK k \in DOMAIN at : to[k] <= at[i] /\ at[i] < to[k] + Width(Scalar(units, k))
  BY <1>1, <1>4 DEF Places
<1>6. to[k] \in Nat /\ at[k] \in Nat /\ k \in Nat /\ i \in Nat
  BY <1>1
<1>7. k < i
  <2>1. k # i
    BY <1>2, <1>3, <1>5
  <2>2. ~(i < k)
    <3>1. i < k => to[i] < to[k]
      BY <1>1 DEF Places
    <3> QED BY <1>2, <1>3, <1>5, <1>6, <3>1
  <2> QED BY <1>6, <2>1, <2>2
<1>8. at[k] = to[k] /\ at[k] < at[i]
  BY <1>7 DEF Places
<1>9. PICK d \in 1 .. Width(Scalar(units, k)) - 1 : at[i] = at[k] + d
  <2>1. Width(Scalar(units, k)) \in Nat
    BY SMT DEF Width
  <2>2. at[i] - at[k] \in 1 .. Width(Scalar(units, k)) - 1 /\ at[i] = at[k] + (at[i] - at[k])
    BY <1>2, <1>5, <1>6, <1>8, <2>1
  <2> QED BY <2>2
<1>10. at[i] \notin Leads(a)
  <2>1. ReadsAs(a, at[k], Scalar(units, k))
    BY DEF Places
  <2>2. \A m \in 1 .. Width(Scalar(units, k)) - 1 : at[k] + m \in DOMAIN a \ Leads(a)
    BY SMT, <2>1 DEF ReadsAs
  <2> QED BY <1>9, <2>2
<1>11. at[i] \in Leads(a)
  <2>1. ReadsAs(a, at[i], Scalar(units, i))
    BY DEF Places
  <2> QED BY SMT, <2>1 DEF ReadsAs
<1> QED BY <1>10, <1>11

\* So the characters are at the same places.
LEMMA SamePlaces ==
  ASSUME NEW units \in Seq(Units), NEW n \in Nat, NEW a \in Seq(Nat), NEW b \in Seq(Nat),
         NEW at, NEW to, Places(at, a, units, n), Places(to, b, units, n)
  PROVE  at = to
<1> DEFINE D == {i \in Firsts(units) : i <= n}
           Apart == {i \in D : at[i] # to[i]}
<1>1. at \in [D -> DOMAIN a] /\ to \in [D -> DOMAIN b] /\ D \subseteq Nat
  BY DEF Places, Firsts
<1>2. ASSUME Apart # {} PROVE FALSE
  <2>1. PICK i \in Apart : \A k \in Apart : i <= k
    <3>1. Apart \subseteq Nat
      BY <1>1
    <3> HIDE DEF Apart
    <3> QED BY <1>2, <3>1, LeastOf
  <2>2. \A k \in D : k < i => at[k] = to[k]
    BY <1>1, <2>1
  <2>3. DOMAIN at = D /\ DOMAIN to = D /\ i \in D
    BY <1>1
  <2> HIDE DEF D
  <2>4. to[i] <= at[i]
    BY <2>2, <2>3, NotLater
  <2>5. at[i] <= to[i]
    BY <2>2, <2>3, NotLater
  <2>6. at[i] \in Nat /\ to[i] \in Nat
    BY <1>1, <2>3
  <2> QED BY <2>1, <2>4, <2>5, <2>6
<1> HIDE DEF D
<1> QED BY <1>1, <1>2

\* And so are the bytes.
LEMMA SameBytes ==
  ASSUME NEW units \in Seq(Units), NEW n \in Nat, NEW a \in Seq(Nat), NEW b \in Seq(Nat),
         NEW at, Places(at, a, units, n), Places(at, b, units, n)
  PROVE  \A j \in DOMAIN a : j \in DOMAIN b /\ a[j] = b[j]
<1> TAKE j \in DOMAIN a
<1>1. PICK i \in DOMAIN at : at[i] <= j /\ j < at[i] + Width(Scalar(units, i))
  BY DEF Places
<1>2. at[i] \in Nat /\ j \in Nat /\ i \in Firsts(units)
  <2>1. at \in [{k \in Firsts(units) : k <= n} -> DOMAIN a]
    BY DEF Places
  <2>2. i \in {k \in Firsts(units) : k <= n} /\ at[i] \in DOMAIN a
    BY <2>1
  <2> QED BY <2>2
<1>3. Scalar(units, i) \in Codes
  BY <1>2, CodeIsScalar
<1>4. Width(Scalar(units, i)) \in Nat
  BY SMT DEF Width
<1>5. PICK k \in 0 .. Width(Scalar(units, i)) - 1 : j = at[i] + k
  <2>1. j - at[i] \in 0 .. Width(Scalar(units, i)) - 1 /\ j = at[i] + (j - at[i])
    BY <1>1, <1>2, <1>4
  <2> QED BY <2>1
<1>6. ReadsAs(a, at[i], Scalar(units, i)) /\ ReadsAs(b, at[i], Scalar(units, i))
  BY DEF Places
<1> QED BY <1>2, <1>3, <1>5, <1>6, ReadsOne

\* The reference leaves an encoder no choice: the first n units of a text have
\* one encoding at most, so EncodesText says which bytes encode and encodeInto
\* of TemporalSandboxPolyfills.ts write.
THEOREM OneEncoding ==
  ASSUME NEW units \in Seq(Units), NEW n \in Nat, NEW a \in Seq(Nat), NEW b \in Seq(Nat),
         Encodes(a, units, n), Encodes(b, units, n)
  PROVE  a = b
<1>1. PICK at : Places(at, a, units, n)
  BY DEF Encodes, Places
<1>2. PICK to : Places(to, b, units, n)
  BY DEF Encodes, Places
<1>3. at = to
  BY <1>1, <1>2, SamePlaces
<1>4. /\ \A j \in DOMAIN a : j \in DOMAIN b /\ a[j] = b[j]
      /\ \A j \in DOMAIN b : j \in DOMAIN a /\ b[j] = a[j]
  BY <1>1, <1>2, <1>3, SameBytes
<1>5. DOMAIN a = DOMAIN b
  BY <1>4
<1>6. Len(a) = Len(b)
  <2>1. /\ Len(a) \in Nat /\ Len(b) \in Nat
        /\ Len(a) > 0 => Len(a) \in DOMAIN a
        /\ Len(b) > 0 => Len(b) \in DOMAIN b
        /\ \A j \in DOMAIN a : j <= Len(a)
        /\ \A j \in DOMAIN b : j <= Len(b)
    OBVIOUS
  <2> QED BY <1>5, <2>1
<1> QED BY <1>4, <1>6

\* What Effect computes with the polyfills is what it computes outside: the
\* encoding of any text, the padded message of any digest, and the globals.
THEOREM PolyfillsCompute == SandboxSpec => []PolyfillsAgree
BY TextsEncoded, MessagesPadded, GlobalsInstalled, PTL DEF PolyfillsAgree
=============================================================================
