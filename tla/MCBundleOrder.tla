---------------------------- MODULE MCBundleOrder ----------------------------
(***************************************************************************)
(* The bundles of BundleOrder: any file of the packages and of the sample, *)
(* or any two of the workflow package, in both orders.                     *)
(***************************************************************************)
EXTENDS BundleOrder

Files ==
  WorkflowPackage \cup ClientPackage \cup TestingPackage
  \cup {"order-saga/definitions", "order-saga/workflows", "effect", "node:crypto",
        "@temporalio/workflow", "@temporalio/nexus", "@temporalio/client"}
OfWorkflow == (WorkflowPackage \ {"@effect-temporal/workflow"}) \cup {"effect"}

AnyEntry == {<<f>> : f \in Files} \cup {<<f, g>> : f \in OfWorkflow, g \in OfWorkflow}
=============================================================================
