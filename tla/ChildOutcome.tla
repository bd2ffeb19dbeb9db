----------------------------- MODULE ChildOutcome -----------------------------
(***************************************************************************)
(* How the outcome of a typed activity reaches the workflow that calls it, *)
(* and the outcome of that workflow, as a child, its parent: exits are     *)
(* encoded into results and failures, wrapped by Temporal, unwrapped and   *)
(* memoized, while parent and child both suspend and run their bodies      *)
(* again.                                                                  *)
(***************************************************************************)
EXTENDS Naturals, Sequences, SequencesExt

CONSTANTS
  MaxAttempts,  \* the attempts of the activity's retry policy
  MaxRepeats,   \* bound: the suspended passes of parent and of child
  Besides,      \* whether the parent suspends in a fiber beside the call: tried values
  NoExit

ASSUME ChildOutcomeAssumption ==
  MaxAttempts \in Nat \ {0} /\ MaxRepeats \in Nat /\ Besides \subseteq BOOLEAN

VARIABLES
  beside,    \* whether the parent suspends in a fiber beside the call
  attempt,   \* the attempt of the activity that runs, 0 if none does
  handled,   \* the exits the handler ended with, in order
  typedMemo, \* typedActivityResults of the child
  childRuns, \* how often the child was started
  child,     \* "none", "open" or "closed"
  childExit, \* what its body ended with
  failure,   \* what its run closed with: a chain of causes, empty for success
  repeats,   \* suspended passes: of the parent, of the child
  calling,   \* whether a pass of the parent waits for the child
  childMemo, \* childResults of the parent
  seen       \* what each pass of the parent was given

outcomeVars == <<beside, attempt, handled, typedMemo, childRuns, child, childExit, failure, repeats,
                 calling, childMemo, seen>>

-----------------------------------------------------------------------------
\* Exits: a success, a failure of the error schema, a cause that holds such a
\* failure beside a defect, a defect, an interruption.
Exits == {"success", "fail", "failAndDie", "die", "interrupt"}
ASSUME NoExitAssumption == NoExit \notin Exits \cup {"killed"}

IsFailure(e) == e # "success"
HasFails(e) == e \in {"fail", "failAndDie"}

\* Every failure fails the attempt.
ThrowsBug(e) == IsFailure(e)

\* implement: an exit is the activity's result, unless it failed without a
\* failure of the schema; then the attempt fails.
Throws(e) == IsFailure(e) /\ ~HasFails(e)

\* The failures of a chain: encodeWorkflowFailure carries the exit, others do
\* not. Temporal wraps the one a child closed with.
ExitFailure(e) == [type |-> "EffectWorkflowExit", exit |-> e]
Foreign(type) == [type |-> type, exit |-> NoExit]
isEffectWorkflowExitFailure(f) == f.type = "EffectWorkflowExit"

\* The causes of a failure are not looked at.
findEncodedWorkflowExitBug(chain) == chain[1].exit

\* The encoded exit nearest to the top of the chain.
findEncodedWorkflowExit(chain) ==
  IF \E n \in DOMAIN chain : isEffectWorkflowExitFailure(chain[n])
  THEN chain[SelectInSeq(chain, isEffectWorkflowExitFailure)].exit
  ELSE NoExit

\* The result of execute: the child's value, the exit in its failure, or a
\* defect whose cause is the failure.
decodeChild(chain) ==
  IF chain = <<>> THEN "success"
  ELSE IF findEncodedWorkflowExit(chain) = NoExit THEN "die"
       ELSE findEncodedWorkflowExit(chain)

-----------------------------------------------------------------------------
OutcomeInit ==
  /\ beside \in Besides
  /\ attempt = 0 /\ handled = <<>> /\ typedMemo = NoExit
  /\ childRuns = 0 /\ child = "none" /\ childExit = NoExit /\ failure = <<>>
  /\ repeats = [parent |-> 0, child |-> 0]
  /\ calling = FALSE /\ childMemo = NoExit /\ seen = <<>>

activityVars == <<beside, attempt, handled, typedMemo>>
childVars == <<childRuns, child, childExit, failure>>
parentVars == <<calling, childMemo, seen>>

\* The pass of the parent has not called the child yet.
ReachesCall == ~calling /\ Len(seen) = repeats.parent

\* A resumed pass is given the memoized result.
executeMemoized ==
  /\ ReachesCall /\ childMemo # NoExit
  /\ seen' = Append(seen, childMemo)
  /\ UNCHANGED <<activityVars, childVars, repeats, calling, childMemo>>

\* Otherwise the child is started; the start of one that is open is refused,
\* and of one that closed is another run.
executeChild ==
  /\ ReachesCall /\ childMemo = NoExit /\ child # "open"
  /\ child' = "open" /\ childRuns' = childRuns + 1 /\ childExit' = NoExit /\ failure' = <<>>
  /\ attempt' = 0 /\ typedMemo' = NoExit /\ handled' = <<>>
  /\ repeats' = [repeats EXCEPT !.child = 0]
  /\ calling' = TRUE
  /\ UNCHANGED <<beside, childMemo, seen>>

executeRefused ==
  /\ ReachesCall /\ childMemo = NoExit /\ child = "open"
  /\ LET e == decodeChild(<<Foreign("WorkflowExecutionAlreadyStarted")>>) IN
     childMemo' = e /\ seen' = Append(seen, e)
  /\ UNCHANGED <<activityVars, childVars, repeats, calling>>

\* The child closed: its outcome is unwrapped and memoized.
executeReturns ==
  /\ calling /\ child = "closed"
  /\ LET e == decodeChild(IF failure = <<>> THEN <<>> ELSE <<Foreign("ChildWorkflowFailure")>> \o failure) IN
     childMemo' = e /\ seen' = Append(seen, e)
  /\ calling' = FALSE
  /\ UNCHANGED <<activityVars, childVars, repeats>>

\* The parent suspends: after the call, or in another fiber while the call
\* still waits, which interrupts the call but not the child.
ParentSuspends ==
  /\ repeats.parent < MaxRepeats
  /\ Len(seen) > repeats.parent \/ (beside /\ calling)
  /\ repeats' = [repeats EXCEPT !.parent = @ + 1]
  /\ calling' = FALSE
  /\ seen' = IF calling THEN Append(seen, NoExit) ELSE seen
  /\ UNCHANGED <<activityVars, childVars, childMemo>>

-----------------------------------------------------------------------------
BodyRuns == child = "open" /\ childExit = NoExit

\* call: the activity is scheduled unless its exit is memoized.
CallActivity ==
  /\ BodyRuns /\ typedMemo = NoExit /\ attempt = 0
  /\ attempt' = 1
  /\ UNCHANGED <<beside, handled, typedMemo, childVars, repeats, parentVars>>

\* The handler ends: its exit is the result, or the attempt fails and is
\* retried, or it was the last one and the call is a defect of the child.
HandlerEnds ==
  /\ BodyRuns /\ attempt > 0
  /\ \E e \in Exits :
       /\ handled' = Append(handled, e)
       /\ IF ~Throws(e)
          THEN attempt' = 0 /\ typedMemo' = e /\ childExit' = childExit
          ELSE IF attempt < MaxAttempts
               THEN attempt' = attempt + 1 /\ UNCHANGED <<typedMemo, childExit>>
               ELSE attempt' = 0 /\ typedMemo' = typedMemo /\ childExit' = "die"
  /\ UNCHANGED <<beside, childRuns, child, failure, repeats, parentVars>>

\* The child suspends after the call; its next pass is given the memo.
ChildSuspends ==
  /\ BodyRuns /\ typedMemo # NoExit /\ repeats.child < MaxRepeats
  /\ repeats' = [repeats EXCEPT !.child = @ + 1]
  /\ UNCHANGED <<activityVars, childVars, parentVars>>

\* The body of the child ends with the exit of the call.
ChildBodyEnds ==
  /\ BodyRuns /\ typedMemo # NoExit
  /\ childExit' = typedMemo
  /\ UNCHANGED <<activityVars, childRuns, child, failure, repeats, parentVars>>

\* The run closes with the success, or with the exit in a failure.
ChildCloses ==
  /\ child = "open" /\ childExit # NoExit
  /\ child' = "closed"
  /\ failure' = IF IsFailure(childExit) THEN <<ExitFailure(childExit)>> ELSE <<>>
  /\ UNCHANGED <<activityVars, childRuns, childExit, repeats, parentVars>>

\* The run is terminated, times out, or is cancelled.
ChildKilled ==
  /\ BodyRuns
  /\ child' = "closed" /\ childExit' = "killed" /\ attempt' = 0
  /\ failure' = <<Foreign("Terminated")>>
  /\ UNCHANGED <<beside, handled, typedMemo, childRuns, repeats, parentVars>>

OutcomeNext ==
  \/ executeMemoized \/ executeChild \/ executeRefused \/ executeReturns \/ ParentSuspends
  \/ CallActivity \/ HandlerEnds \/ ChildSuspends \/ ChildBodyEnds \/ ChildCloses \/ ChildKilled

OutcomeSpec == OutcomeInit /\ [][OutcomeNext]_outcomeVars

-----------------------------------------------------------------------------
(* Properties                                                              *)

\* A parent with one fiber starts the child once, and each of its passes that
\* reached the call is given what the body of the child ended with, or a defect
\* if nothing says so; the child ended with what the handler ended with, or
\* with a defect after the last attempt threw.
OutcomesTravel ==
  /\ ~beside => /\ childRuns <= 1
                /\ \A n \in DOMAIN seen :
                     child = "closed" /\ seen[n] = IF childExit = "killed" THEN "die" ELSE childExit
  /\ childExit \notin {NoExit, "killed"} =>
       childExit = IF Throws(Last(handled)) THEN "die" ELSE Last(handled)

\* A typed failure is an outcome and no reason to retry: the handler runs
\* again only after it threw, whatever is suspended and run again, and no more
\* often than the policy allows.
OnlyThrownRetried ==
  /\ Len(handled) <= MaxAttempts
  /\ \A n \in 1 .. Len(handled) - 1 : handled[n] \in {"die", "interrupt"}

\* However the parent suspends, the child is started once: "Completed
\* child-workflow results keyed by child execution id, so a resumed pass of the
\* body does not start a duplicate child run".
StartsChildOnce == childRuns <= 1
=============================================================================
