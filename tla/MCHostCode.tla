------------------------------ MODULE MCHostCode ------------------------------
(***************************************************************************)
(* What runs outside one run of a workflow, in one instance: a behavior    *)
(* exercises one part, the worker, a listing, the payload codec, or the    *)
(* executions that signal each other, and the others stay in one initial   *)
(* state.  The parts share no state.                                       *)
(***************************************************************************)
EXTENDS WorkerLifecycle, ListPaged, PayloadCodec, MCTargetRouting

CONSTANTS f, g, h, k1, k2, v1, v2

VARIABLE part

lifecycleVars == vars
allVars == <<part, lifecycleVars, listVars, codecVars, routingVars>>

Parts == {"worker", "listing", "codec", "routing"}

\* The initial state of what a behavior does not exercise.
Unexercised ==
  /\ part # "listing" => total = 0 /\ options = [pageSize |-> 1, limit |-> 0]
  /\ part # "codec" => codecs = <<"anonymous">> /\ current = k1
  /\ part # "routing" => body = requestReply

AllInit ==
  /\ part \in Parts /\ Unexercised
  /\ Init /\ ListInit /\ CodecInit /\ RoutingInit

AllNext ==
  /\ part' = part
  /\ \/ part = "worker" /\ Next /\ UNCHANGED <<listVars, codecVars, routingVars>>
     \/ part = "listing" /\ ListNext /\ UNCHANGED <<lifecycleVars, codecVars, routingVars>>
     \/ part = "codec" /\ CodecNext /\ UNCHANGED <<lifecycleVars, listVars, routingVars>>
     \/ part = "routing" /\ RoutingNext /\ UNCHANGED <<lifecycleVars, listVars, codecVars>>

\* The fairness of the parts, which asks for nothing in the initial state of the
\* others.
AllSpec == AllInit /\ [][AllNext]_allVars /\ Fairness /\ RoutingFairness
=============================================================================
