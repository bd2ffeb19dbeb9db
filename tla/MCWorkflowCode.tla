---------------------------- MODULE MCWorkflowCode ----------------------------
(***************************************************************************)
(* What one run or one isolate is made of, in one instance: a behavior     *)
(* exercises one part, and the others stay in one initial state.  The      *)
(* parts share no state.  One part is the protocol of durable updates      *)
(* between its workflow and two callers, a smaller instance than           *)
(* MCDurableUpdate's, for its liveness.                                    *)
(***************************************************************************)
EXTENDS MCPassReplay, Versioning, ChildOutcome, StateCells, SandboxPolyfills, MCBundleOrder

CONSTANT None

VARIABLES
  part,
  \* -- of DurableUpdate --------------------------------------------------
  calls, request, outcome, answer, known, exit, expired, callsLeft, latest, open, buffered,
  updateRequests, updateResults, updateLogs, updateCursors, taker, cursor, taken, passesLeft

\* One id on a channel that a fiber serves and on one that nobody serves; two
\* passes suspend.
Updates == INSTANCE DurableUpdate WITH
  Clients <- {"one", "other"}, Channels <- {"served", "unserved"}, Ids <- {"x"},
  Requests <- {[id |-> "x", name |-> "served"], [id |-> "x", name |-> "unserved"]},
  Answers <- {"answer"}, Takers <- {"fiber"},
  ChannelOf <- [f \in {"fiber"} |-> "served"],
  MaxRuns <- 1, MaxPasses <- 2, MaxCalls <- 1,
  phase <- calls, run <- latest, at <- cursor, held <- taken

replayVars == vars
updateVars ==
  <<calls, request, outcome, answer, known, exit, expired, callsLeft, latest, open, buffered,
    updateRequests, updateResults, updateLogs, updateCursors, taker, cursor, taken, passesLeft>>
codeVars == <<versionVars, outcomeVars, cellVars, sandboxVars, bundleVars>>
allVars == <<part, replayVars, updateVars, codeVars>>

Sandbox == {"text", "digest", "globals"}
Parts == {"replay", "updates", "versions", "outcomes", "cells", "bundle"} \cup Sandbox

\* The initial state of what a behavior does not exercise.
Pinned ==
  /\ part # "replay" => body = sequential
  /\ part # "versions" => oldest = 0
  /\ part # "outcomes" => beside = FALSE
  /\ part # "cells" => code = [i \in Step |-> "await"]
  /\ part # "text" => text = <<>> /\ room = 8
  /\ part # "digest" => length = 0
  /\ part # "globals" => inWorkflow = FALSE /\ globals = [g \in Globals |-> "missing"]
  /\ part # "bundle" => entry = <<"effect">>

AllInit ==
  /\ part \in Parts /\ Pinned
  /\ Init /\ Updates!Init /\ VersionInit /\ OutcomeInit /\ CellInit /\ SandboxInit /\ BundleInit

CodeNext ==
  \/ part = "versions" /\ VersionNext /\ UNCHANGED <<outcomeVars, cellVars, sandboxVars, bundleVars>>
  \/ part = "outcomes" /\ OutcomeNext /\ UNCHANGED <<versionVars, cellVars, sandboxVars, bundleVars>>
  \/ part = "cells" /\ CellNext /\ UNCHANGED <<versionVars, outcomeVars, sandboxVars, bundleVars>>
  \/ /\ \/ part = "text" /\ encodeInto
        \/ part = "digest" /\ ReadBlock
        \/ part = "globals" /\ (ensureSandboxPolyfills \/ Enter)
     /\ UNCHANGED <<versionVars, outcomeVars, cellVars, bundleVars>>
  \/ part = "bundle" /\ BundleNext /\ UNCHANGED <<versionVars, outcomeVars, cellVars, sandboxVars>>

AllNext ==
  /\ part' = part
  /\ \/ part = "replay" /\ Next /\ UNCHANGED <<updateVars, codeVars>>
     \/ part = "updates" /\ Updates!Next /\ UNCHANGED <<replayVars, codeVars>>
     \/ CodeNext /\ UNCHANGED <<replayVars, updateVars>>

\* PassReplay's Fairness and DurableUpdate's, each in its part; the other parts
\* need none.
ReplayFairness ==
  /\ WF_replayVars(part = "replay" /\ \E f \in Fibers : Fiber(f))
  /\ WF_replayVars(part = "replay" /\ Resolve)
  /\ WF_replayVars(part = "replay" /\ (EndPass \/ NextPass \/ BodyEnds))

UpdateFairness ==
  /\ WF_updateVars(part = "updates" /\ Updates!HandleSignal)
  /\ WF_updateVars(part = "updates" /\ Updates!Serve("fiber"))
  /\ WF_updateVars(part = "updates" /\ Updates!Respond("fiber", "answer"))
  /\ \A c \in {"one", "other"} :
       /\ WF_updateVars(part = "updates" /\ Updates!ClientStep(c))
       /\ WF_updateVars(part = "updates" /\ Updates!DeadlinePasses(c))

AllSpec == AllInit /\ [][AllNext]_allVars /\ ReplayFairness /\ UpdateFairness

-----------------------------------------------------------------------------
(* Properties of DurableUpdate, which the instance renames.                *)

\* Every request accepted on a channel that is served is answered unless its
\* run ends, also if the pass that took it suspended before it responded.
RequestsServed == Updates!RequestsServed

\* Every call of executeUpdate ends.
CallsReturn == Updates!CallsReturn

\* An answer recorded before a call's last query is never lost to its
\* deadline: the call returns it, unless an RPC fails or a new run begins.
LateAnswersReturned == Updates!LateAnswersReturned
=============================================================================
