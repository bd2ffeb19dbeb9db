-------------------------- MODULE MCWorkflowEngine --------------------------
(***************************************************************************)
(* Small instances of WorkflowEngine: two clients of the engine, with and  *)
(* without followRuns, and somebody who starts the execution by another    *)
(* way.                                                                    *)
(***************************************************************************)
EXTENDS WorkflowEngine, TLC

CONSTANTS a, b, p, ok, fail

\* Who calls what, and how often.
Everybody == a :> {"execute", "poll"} @@ p :> {"child", "nexus"}
             @@ b :> {"execute", "discard", "poll", "interrupt", "deferredDone"}
OnlyAFollows == [c \in Callers |-> c = a]
FewCalls == a :> 2 @@ b :> 1 @@ p :> 1
=============================================================================
