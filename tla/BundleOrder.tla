----------------------------- MODULE BundleOrder -----------------------------
(***************************************************************************)
(* The order in which the modules of a bundle evaluate.  A file's imports  *)
(* evaluate before it, each once, in the order in which it names them.     *)
(* The order matters twice: the sandbox needs its polyfills before Effect, *)
(* and it has nothing of what the client and worker half stands on.        *)
(*                                                                         *)
(* A file is an element below; "import type" leaves nothing at run time.   *)
(* All of Effect is one module, and so is each package of Temporal.        *)
(***************************************************************************)
EXTENDS Integers, Sequences

CONSTANT Entries  \* what the files that begin a bundle import

ASSUME BundleOrderAssumption == Entries \subseteq Seq(STRING)

VARIABLES
  entry,      \* what this one imports
  pending,    \* the files being loaded, innermost first: file, imports left
  evaluated   \* the files that have evaluated, in order

bundleVars == <<entry, pending, evaluated>>

-----------------------------------------------------------------------------
(* The imports of the files of the workflow package.                       *)

TemporalSandboxBug == <<"effect", "TemporalSandboxPolyfills">>

TemporalSandbox == <<"TemporalSandboxPolyfills", "effect">>
TemporalSandboxPolyfills == <<"@temporalio/workflow">>
TemporalWorkflowRuntime ==
  <<"TemporalSandbox", "@temporalio/common", "@temporalio/workflow", "effect",
    "TemporalWorkflowProtocol", "TemporalWorkflowWire">>
TemporalWorkflowWire == <<"@temporalio/common", "effect">>
TemporalContinueAsNew == <<"@temporalio/workflow", "effect", "TemporalWorkflowWire">>
TemporalDurableMailbox ==
  <<"@temporalio/workflow", "effect", "TemporalWorkflowProtocol", "TemporalWorkflowRuntime", "TemporalWorkflowWire">>
TemporalDurableUpdate == <<"@temporalio/workflow", "effect", "TemporalWorkflowRuntime", "TemporalWorkflowWire">>
TemporalNexusOperation ==
  <<"@temporalio/workflow", "effect", "nexus-rpc", "TemporalWorkflowRuntime", "TemporalWorkflowWire">>
TemporalStateCell == <<"effect", "TemporalWorkflowRuntime", "TemporalWorkflowWire">>
TemporalTypedActivity == <<"@temporalio/workflow", "effect", "TemporalWorkflowRuntime", "TemporalWorkflowWire">>
TemporalVersioning == <<"@temporalio/workflow", "effect">>
TemporalNexusService ==
  <<"@temporalio/nexus", "effect", "nexus-rpc", "TemporalWorkflowProtocol", "TemporalWorkflowWire">>
TemporalWorker == <<"client/TemporalDataConverter", "@temporalio/worker", "effect", "TemporalError">>
TemporalWorkflowEngine ==
  <<"@temporalio/client", "effect", "TemporalClient", "TemporalError", "TemporalWorkflowProtocol",
    "TemporalWorkflowWire">>
TemporalWorkflowInteractions == <<"effect", "node:util", "TemporalClient", "TemporalWorkflowProtocol">>
TemporalClientOfWorkflow == <<"@temporalio/client", "effect", "client/TemporalWorkflowClient">>
TemporalConnectionOfWorkflow == <<"client/TemporalConnection">>
TemporalErrorOfWorkflow == <<"effect", "client/TemporalError">>

\* The index of the package, which names its files in alphabetical order.
indexToNexusService ==
  <<"TemporalClient", "TemporalConnection", "TemporalContinueAsNew", "TemporalDurableMailbox",
    "TemporalDurableUpdate", "TemporalError", "TemporalLint", "TemporalNexusOperation", "TemporalNexusService">>
indexFromSandbox ==
  <<"TemporalSandbox", "TemporalSandboxPolyfills", "TemporalStateCell", "TemporalTypedActivity",
    "TemporalVersioning", "TemporalWorker", "TemporalWorkflowEngine", "TemporalWorkflowInteractions",
    "TemporalWorkflowProtocol", "TemporalWorkflowRuntime", "TemporalWorkflowWire">>

-----------------------------------------------------------------------------
(* The imports of the files of the client and testing packages, and of the *)
(* bundle of the sample.                                                   *)

OfClients == <<"effect", "client/TemporalConnection", "client/TemporalDataConverter", "client/TemporalError">>
ActivityClientImports ==
  <<"@temporalio/client", "effect", "client/TemporalActivityHandle", "client/TemporalConnection",
    "client/TemporalDataConverter", "client/TemporalError", "client/TemporalSchema">>
WorkflowClientImports ==
  <<"@temporalio/client", "@temporalio/common/lib/internal-non-workflow", "effect", "client/TemporalConnection",
    "client/TemporalDataConverter", "client/TemporalError", "client/TemporalSchema", "client/TemporalWorkflowHandle">>
NexusClientImports == <<"@temporalio/client">> \o OfClients \o <<"client/TemporalNexusHandle">>
ScheduleClientImports == <<"@temporalio/client">> \o OfClients \o <<"client/TemporalScheduleHandle">>
TaskQueueClientImports == <<"@temporalio/client">> \o OfClients
ClientImports ==
  <<"@temporalio/client", "effect", "client/TemporalActivityClient", "client/TemporalConnection",
    "client/TemporalDataConverter", "client/TemporalError", "client/TemporalNexusClient",
    "client/TemporalScheduleClient", "client/TemporalTaskQueueClient", "client/TemporalWorkflowClient">>
ConnectionImports == <<"@temporalio/client", "effect", "client/TemporalError">>
DataConverterImports == <<"@temporalio/common", "@temporalio/proto", "effect", "node:crypto">>
ActivityHandleImports == <<"effect", "client/TemporalError", "client/TemporalSchema">>
WorkflowHandleImports == <<"effect", "client/TemporalError", "client/TemporalSchema">>
NexusHandleImports == <<"client/TemporalError">>
ScheduleHandleImports == <<"client/TemporalError">>
SchemaImports == <<"effect", "client/TemporalError">>
ErrorImports == <<"effect">>
clientIndex ==
  <<"client/TemporalActivityClient", "client/TemporalActivityHandle", "client/TemporalClient",
    "client/TemporalConnection", "client/TemporalDataConverter", "client/TemporalError", "client/TemporalNexusClient",
    "client/TemporalNexusHandle", "client/TemporalScheduleClient", "client/TemporalScheduleHandle",
    "client/TemporalSchema", "client/TemporalTaskQueueClient", "client/TemporalWorkflowClient",
    "client/TemporalWorkflowHandle">>
TestingImports ==
  <<"client/TemporalConnection", "client/TemporalDataConverter", "client/TemporalError",
    "client/TemporalWorkflowClient", "TemporalWorker", "TemporalWorkflowEngine", "@temporalio/testing", "effect">>
StubClientImports == <<"client/TemporalError", "client/TemporalWorkflowClient", "@temporalio/client", "effect">>
HarnessImports == <<"client/TemporalWorkflowClient", "TemporalWorkflowEngine", "effect", "testing/TemporalTesting">>
testingIndex == <<"testing/TemporalTesting", "testing/TemporalStubClient", "testing/TemporalWorkflowHarness">>

sampleDefinitions ==
  <<"effect", "TemporalDurableMailbox", "TemporalDurableUpdate", "TemporalNexusOperation", "TemporalStateCell",
    "TemporalTypedActivity">>
sampleBundle ==
  <<"effect", "TemporalContinueAsNew", "TemporalDurableMailbox", "TemporalDurableUpdate", "TemporalStateCell",
    "TemporalTypedActivity", "TemporalVersioning", "TemporalWorkflowRuntime", "order-saga/definitions">>

-----------------------------------------------------------------------------
(* Loading.                                                                *)

\* Files that are not listed import nothing of interest.
ImportsOf(file) ==
  CASE file = "TemporalSandbox" -> TemporalSandbox
    [] file = "TemporalSandboxPolyfills" -> TemporalSandboxPolyfills
    [] file = "TemporalWorkflowRuntime" -> TemporalWorkflowRuntime
    [] file = "TemporalWorkflowWire" -> TemporalWorkflowWire
    [] file = "TemporalContinueAsNew" -> TemporalContinueAsNew
    [] file = "TemporalDurableMailbox" -> TemporalDurableMailbox
    [] file = "TemporalDurableUpdate" -> TemporalDurableUpdate
    [] file = "TemporalNexusOperation" -> TemporalNexusOperation
    [] file = "TemporalStateCell" -> TemporalStateCell
    [] file = "TemporalTypedActivity" -> TemporalTypedActivity
    [] file = "TemporalVersioning" -> TemporalVersioning
    [] file = "TemporalNexusService" -> TemporalNexusService
    [] file = "TemporalWorker" -> TemporalWorker
    [] file = "TemporalWorkflowEngine" -> TemporalWorkflowEngine
    [] file = "TemporalWorkflowInteractions" -> TemporalWorkflowInteractions
    [] file = "TemporalClient" -> TemporalClientOfWorkflow
    [] file = "TemporalConnection" -> TemporalConnectionOfWorkflow
    [] file = "TemporalError" -> TemporalErrorOfWorkflow
    [] file = "@effect-temporal/workflow" -> indexToNexusService \o indexFromSandbox
    [] file = "client/TemporalActivityClient" -> ActivityClientImports
    [] file = "client/TemporalActivityHandle" -> ActivityHandleImports
    [] file = "client/TemporalClient" -> ClientImports
    [] file = "client/TemporalConnection" -> ConnectionImports
    [] file = "client/TemporalDataConverter" -> DataConverterImports
    [] file = "client/TemporalError" -> ErrorImports
    [] file = "client/TemporalNexusClient" -> NexusClientImports
    [] file = "client/TemporalNexusHandle" -> NexusHandleImports
    [] file = "client/TemporalScheduleClient" -> ScheduleClientImports
    [] file = "client/TemporalScheduleHandle" -> ScheduleHandleImports
    [] file = "client/TemporalSchema" -> SchemaImports
    [] file = "client/TemporalTaskQueueClient" -> TaskQueueClientImports
    [] file = "client/TemporalWorkflowClient" -> WorkflowClientImports
    [] file = "client/TemporalWorkflowHandle" -> WorkflowHandleImports
    [] file = "@effect-temporal/client" -> clientIndex
    [] file = "@effect-temporal/testing" -> testingIndex
    [] file = "testing/TemporalTesting" -> TestingImports
    [] file = "testing/TemporalStubClient" -> StubClientImports
    [] file = "testing/TemporalWorkflowHarness" -> HarnessImports
    [] file = "order-saga/definitions" -> sampleDefinitions
    [] file = "order-saga/workflows" -> sampleBundle
    [] OTHER -> <<>>

Evaluated == {evaluated[i] : i \in DOMAIN evaluated}
Loading == {pending[i].file : i \in DOMAIN pending}

BundleInit ==
  /\ entry \in Entries
  /\ pending = <<[file |-> "entry", imports |-> entry]>>
  /\ evaluated = <<>>

\* The innermost file's next import: loaded first, or there already.
LoadImport ==
  /\ pending # <<>> /\ Head(pending).imports # <<>>
  /\ LET next == Head(Head(pending).imports)
         rest == <<[Head(pending) EXCEPT !.imports = Tail(@)]>> \o Tail(pending) IN
     pending' = IF next \in Evaluated \cup Loading THEN rest
                ELSE <<[file |-> next, imports |-> ImportsOf(next)]>> \o rest
  /\ UNCHANGED <<entry, evaluated>>

\* Its imports are there: it evaluates.
EvaluateFile ==
  /\ pending # <<>> /\ Head(pending).imports = <<>>
  /\ evaluated' = Append(evaluated, Head(pending).file)
  /\ pending' = Tail(pending)
  /\ UNCHANGED entry

BundleNext == LoadImport \/ EvaluateFile

BundleSpec == BundleInit /\ [][BundleNext]_bundleVars

-----------------------------------------------------------------------------
(* TemporalLint.                                                           *)

\* What only the worker's process and the clients have.
HostOnly ==
  {"@temporalio/client", "@temporalio/worker", "@temporalio/nexus", "@temporalio/testing",
   "@temporalio/common/lib/internal-non-workflow", "node:crypto", "node:util"}

\* The files of the packages.
WorkflowPackage ==
  {indexToNexusService[i] : i \in DOMAIN indexToNexusService}
  \cup {indexFromSandbox[i] : i \in DOMAIN indexFromSandbox} \cup {"@effect-temporal/workflow"}
ClientPackage ==
  {clientIndex[i] : i \in DOMAIN clientIndex} \cup {"@effect-temporal/client"}
TestingPackage ==
  {testingIndex[i] : i \in DOMAIN testingIndex} \cup {"@effect-temporal/testing"}

defaultForbiddenImportsBug ==
  {"@temporalio/client", "@temporalio/worker", "@temporalio/testing", "node:crypto", "node:util"}
  \cup ClientPackage \cup TestingPackage
  \cup {"TemporalWorkflowEngine", "TemporalWorker"}

\* The files whose names match a pattern of the list.
defaultForbiddenImports ==
  {"@temporalio/client", "@temporalio/worker", "@temporalio/testing", "node:crypto", "node:util"}
  \cup ClientPackage \cup TestingPackage
  \cup {"TemporalWorkflowInteractions", "TemporalWorkflowEngine", "TemporalWorker"}

\* Reports an import declaration whose source matches.  What the imported
\* file imports, and "export from", are not looked at.
noMixedHalves(imports) == {imports[i] : i \in DOMAIN imports} \cap defaultForbiddenImports

\* The files of the package that stand on the host and match no pattern.
Unlisted ==
  {"@effect-temporal/workflow", "TemporalClient", "TemporalConnection", "TemporalNexusService",
   "@temporalio/nexus", "@temporalio/common/lib/internal-non-workflow"}

-----------------------------------------------------------------------------
(* Properties.                                                             *)

SandboxFiles == {"TemporalWorkflowRuntime", "TemporalSandbox", "TemporalSandboxPolyfills"}

\* An entrypoint that imports TemporalWorkflowRuntime or TemporalSandbox first
\* installs the polyfills before anything of Effect evaluates and reads the
\* globals: whatever it imports next, and although most files of the package
\* name Effect before the runtime.
PolyfillsFirst ==
  entry[1] \in SandboxFiles =>
    \A i \in DOMAIN evaluated :
      evaluated[i] = "effect" => \E j \in 1 .. i - 1 : evaluated[j] = "TemporalSandboxPolyfills"

\* A file that lints cleanly brings nothing of the host into the bundle, at
\* any depth, unless it names one of the files the pattern list leaves out.
LintedStaysInSandbox ==
  noMixedHalves(entry) = {} /\ (\A i \in DOMAIN entry : entry[i] \notin Unlisted) =>
    Evaluated \cap HostOnly = {}
=============================================================================
