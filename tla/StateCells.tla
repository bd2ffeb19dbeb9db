------------------------------ MODULE StateCells ------------------------------
(***************************************************************************)
(* A state cell that a body publishes its progress in: set before every    *)
(* step, in every pass of the body, and read by queries at any time.  A    *)
(* step awaits a deferred or calls an activity; the steps that are         *)
(* completed or memoized return at once, so a pass runs in one activation  *)
(* up to the step it has to wait at, and a query never sees it half done.  *)
(***************************************************************************)
EXTENDS Naturals, FiniteSetsExt

CONSTANTS
  Steps,       \* the number of steps of a body
  MaxSignals   \* bound: completions, interrupts and resumes

ASSUME StateCellsAssumption == Steps \in Nat \ {0} /\ MaxSignals \in Nat

VARIABLES
  code,        \* step -> "await" or "call"
  done,        \* the steps that are completed or memoized
  run,         \* "parked", "calling", "closed" or "failed"
  wake, held,  \* resumed and interrupted
  stateCells,  \* what the cell holds: the step it was set before, Steps + 1
               \* after the last one, 0 if it was not set
  signalsLeft

cellVars == <<code, done, run, wake, held, stateCells, signalsLeft>>

-----------------------------------------------------------------------------
Step == 1 .. Steps

\* The body sets the cell before each step from the first on, and again at its
\* end; what stays is what it set last before it waits or returns. A pass of
\* an interrupted run ends the run, unless it waits for an activity.
SetCells(first, completed) ==
  LET stop == Min((first .. Steps + 1) \ completed) IN
  /\ stateCells' = stop
  /\ run' = IF stop <= Steps /\ code[stop] = "call" THEN "calling"
            ELSE IF held THEN "failed"
            ELSE IF stop <= Steps THEN "parked" ELSE "closed"

CellInit ==
  /\ code \in [Step -> {"await", "call"}]
  /\ done = {} /\ run = "parked" /\ wake = FALSE /\ held = FALSE
  /\ stateCells = 0 /\ signalsLeft = MaxSignals

\* The first pass runs at once, a later one when waitForResume returns.
Pass ==
  /\ run = "parked"
  /\ \/ stateCells = 0 /\ UNCHANGED wake
     \/ stateCells # 0 /\ (wake \/ held) /\ wake' = FALSE
  /\ SetCells(1, done)
  /\ UNCHANGED <<code, done, held, signalsLeft>>

\* The result of the activity is not memoized.
CallReturnsBug ==
  /\ run = "calling" /\ SetCells(stateCells + 1, done)
  /\ UNCHANGED <<code, done, wake, held, signalsLeft>>

\* The exit of the activity is memoized and the pass goes on; a failure, or an
\* interruption of the fiber, ends the run.
CallReturns ==
  /\ run = "calling"
  /\ \/ done' = done \cup {stateCells} /\ SetCells(stateCells + 1, done')
     \/ run' = "failed" /\ UNCHANGED <<done, stateCells>>
  /\ UNCHANGED <<code, wake, held, signalsLeft>>

Signal == run \in {"parked", "calling"} /\ signalsLeft > 0 /\ signalsLeft' = signalsLeft - 1

\* A completion may come before its step is reached, and more than once.
completeDeferred(i) ==
  /\ Signal /\ code[i] = "await"
  /\ done' = done \cup {i}
  /\ wake' = (wake \/ ~held)
  /\ UNCHANGED <<code, run, held, stateCells>>

interrupt ==
  /\ Signal
  /\ held' = TRUE /\ wake' = FALSE
  /\ UNCHANGED <<code, done, run, stateCells>>

resume ==
  /\ Signal
  /\ held' = FALSE /\ wake' = TRUE
  /\ UNCHANGED <<code, done, run, stateCells>>

CellNext == Pass \/ CallReturns \/ interrupt \/ resume \/ \E i \in Step : completeDeferred(i)

CellSpec == CellInit /\ [][CellNext]_cellVars

\* stateCellQuery, decoded: None until the body has set the cell.
readStateCell == IF stateCells = 0 THEN {} ELSE {stateCells}

-----------------------------------------------------------------------------
(* Properties                                                              *)

\* Though every pass sets the cell from its first value again, what observers
\* read never goes back or away, whatever is interrupted, resumed, repeated or
\* completed early; and they read the last value exactly when the body got to
\* its end, as it did in every run that closed with a success.
PhaseAdvances == [][
  /\ \A old \in readStateCell : \E new \in readStateCell' : new >= old
  /\ run' = "closed" => readStateCell' = {Steps + 1}
  /\ Steps + 1 \in readStateCell' => run' \in {"closed", "failed"} /\ done' = Step]_cellVars
=============================================================================
