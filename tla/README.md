# effect-temporal in TLA+

A verification project for `joepjoosten/effect-temporal`: Effect workflows
(`effect/workflow`) run on Temporal. TLA+ modules model the parts of it whose
correctness depends on order, TLC checks them on small instances, and TLAPS
proves the main safety properties for every value of the constants. Paths below
are relative to the repository.

## The system

| Part | Source | State it keeps | Operations |
|---|---|---|---|
| Workflow runtime | `packages/workflow/src/TemporalWorkflowRuntime.ts` | `TemporalWorkflowRuntimeState`: status, interrupted, resumed, result, deferreds, clocks, memo tables of activities, children, typed activities and outbound commands, tracked cancellation scopes, mailbox and update logs and cursors, published cells | `makeWorkflow` (the pass loop), `installBaseHandlers` (signals and queries), the in-workflow engine of `makeEngine` |
| Durable mailboxes | `TemporalDurableMailbox.ts` | a log per mailbox, a cursor per pass | `offer`, `take`, `poll` |
| Durable updates | `TemporalDurableUpdate.ts`, `TemporalWorkflowInteractions.ts` | request log, cursor, known requests and results per run; a caller's phase and deadline | `executeUpdate`, `take`, `respond` |
| Typed activities | `TemporalTypedActivity.ts` | position of each call per pass, memoized exits | `call`, `implement` |
| Nexus | `TemporalNexusOperation.ts`, `TemporalNexusService.ts` | memoized promises; the backing run | `call`, `workflowRunOperation` |
| Client-side engine | `TemporalWorkflowEngine.ts`, `TemporalWorkflowProtocol.ts` | none; the Temporal server holds the runs | `execute`, `poll`, `interrupt`, `resume`, `deferredResult`, `deferredDone`, `scheduleClock` |
| Worker lifecycle | `TemporalWorker.ts` | a worker and its connection in a scope | `run`, `runUntil`, `shutdown`, release |
| Versioning | `TemporalVersioning.ts` | the markers in the history | `patched`, `deprecatePatch`, `match` |
| Continue-as-new | `TemporalContinueAsNew.ts` | a marker in the exit of the body | `continueAsNew` |
| State cells | `TemporalStateCell.ts` | published values | `set`, and a query |
| Wire format | `TemporalWorkflowWire.ts` | none | JSON codecs; exits in failures and out of chains of causes |
| Sandbox | `TemporalSandbox.ts`, `TemporalSandboxPolyfills.ts` | the globals of the isolate | microtask scheduler, polyfills |
| Lint plugin | `TemporalLint.ts` | none | syntax rules |
| Client package | `packages/client/src` | a connection in its scope, the cursor of a listing, the data keys | one SDK call per method; `listPaged`, `fetchHistoryEvents`; the data converter and its codecs |
| Testing package | `packages/testing/src` | a server, a worker, a recorded call list | harness, stub client |

How they interact. A client starts a run through the client-side engine and
talks to it with signals (interrupt, resume, deferred completion, clock, mailbox
message, update request) and queries (workflow state, deferred result, state
cell, update result). In the isolate the runtime executes the whole body as one
Effect, a *pass*. A pass that awaits a missing deferred suspends: its fiber is
interrupted, the loop publishes `Suspended` and waits, and a wake-up runs the
body again from its beginning against memo tables and logs that kept growing.
Mailboxes, updates, typed activities and Nexus calls are all built on those
tables. Temporal itself also replays a history, but it replays the same
activations, so the model of a run is also the model of its replay; the passes
*within* a run are the program's own.

What is hard. Signals, timers, activity results and a cancellation are handled
in any order around two flags (`interrupted`, `resumed`) and a one-shot
condition; a pass can end between any two operations of the body; several fibers
of a body share tables indexed by order of arrival; a caller queries, signals,
polls and gives up while the run suspends, closes or continues as new. The list
with lines is `hazards` in `PROJECT.json`.

What makes each part correct:

- runtime: no wake-up is lost; a later pass gets at least as far as an earlier
  one; an interrupted run ends interrupted, and a cancelled one cancelled unless it
  continues as new; every completed activity is compensated exactly when the run
  does not succeed; the status a poll reads agrees with where the run waits;
- executions that signal each other: an operation takes effect at the execution
  it names and nowhere else, and wakes it;
- mailboxes: a message is taken once per pass, in order, and never before it
  arrived;
- updates: one request and one answer per id and run, and a caller gets the
  answer to its own request, a conflict that exists, or a failure;
- typed activities and Nexus calls: a call that returned is not issued again and
  returns the same result to every pass;
- client engine: its starts run an execution once, and a call returns what was true
  of the execution while it ran;
- worker: it runs at most once, and its connection outlives it;
- versioning: a replay takes the branches its history recorded;
- outcomes: what a handler ended with is what its caller is given, over every
  level of wrapping, and only a thrown failure is retried;
- state cells: observers never read progress that goes back;
- client: a listing is exactly what was asked for; payloads come back as written;
- sandbox: the polyfills compute what the platform computes, and are there before
  Effect looks for them.

## Modules

### WorkflowRun: one run in the sandbox

`WorkflowRun.tla` models one run: `makeWorkflow`'s loop, the handlers of
`installBaseHandlers`, `waitForResume`, `scheduleRuntimeClock`, the interruption
watcher, the cancellation, `activityExecute`, and a body, a straight-line
program of operations (`await`, `sleep`, `activity`, `take`, `complete`,
`interrupt`, `resume`, `continueAsNew`) executed by one fiber per pass.

Variables carry the names of `TemporalWorkflowRuntimeState` (`status`,
`interrupted`, `resumed`, `result`, `deferreds`, `clocks`, `activityResults`,
`inFlight`, `mailboxLogs`, `mailboxCursors`) and of the locals of
`makeWorkflow` (`cancelledFailure`, and `watcher` for the one
`condition(() => state.interrupted)`). `phase`, `pc`, `outcome` and `comps` are
the fiber. `frontier`, `seen` (the exits the passes read of each
deferred) and `undone` are history, read by properties only.

| Action | Code |
|---|---|
| `InterruptSignal`, `ResumeSignal`, `CompleteDeferredSignal`, `ScheduleClockSignal`, `MailboxSignal` | the signal handlers |
| `TimerFires` | the continuation of the sleep in `scheduleRuntimeClock` |
| `CancelRequested`, `WatcherFires` | `cancelRequested.catch` and the watcher, both through `OnInterrupted` |
| `TryUnblockConditions` | the SDK's evaluation of blocked conditions |
| `StartRun`, `ContinueLoop`, `Close` | the start of the loop, its next iteration, its exits |
| `AwaitCompleted`, `AwaitSuspends` | `DurableDeferred.await`, and `DurableClock.sleep` before it |
| `ActivityMemoized`, `ActivityScheduled`, `ActivityResolves`, `ActivitySuspends` | `activityExecute`, with a result, a failure, or a result that is not complete and suspends the pass |
| `TakeMessage`, `TakeBlocks` | `TemporalDurableMailbox.take` |
| `LocalDeferredDone`, `LocalControl` | the engine's operations on the run itself |
| `BodyEnds`, `Finish` | the end of a pass with `onExit` |
| `Compensate`, `CompensationResolves` | the finalizers of `withCompensation`: each completes, fails by itself, or fails because its scope was cancelled |

The sandbox is single-threaded: a job of an activation (signal, timer, result,
cancellation) is an action enabled only when no microtask is pending, each
operation of the body is an action, and conditions are evaluated afterwards.
What a later failure makes of an exit is one operator, `Replaced`: the
interruption of `onExit`, a failed finalizer, and an interruption that found the
fiber in a compensation and stayed pending (`FiberExits`) replace the exit or join
its cause.

### TargetRouting: executions that talk to each other

`TargetRouting.tla` has several runs at once, each the loop of WorkflowRun over a
body that awaits deferreds and completes deferreds, schedules clocks, interrupts
and resumes: of itself (`LocalOperation`) or of another execution, in which case
`SignalTarget` sends a signal and the fiber waits until the server has delivered
or refused it (`Deliver`, `Answered`). `isLocal` compares the name of the workflow
and the execution id, as the code does and as the workflow id joins them
(`workflowIdFor`). `Handle` is what the operation changes at its target, the same
for a handler and for the local engine. `RoutedAsNamed` is about what is recorded
where, in whichever pass it was sent, and `CompletionsArrive` about who is woken.

### UpdateSpec and DurableUpdate: durable updates

`UpdateSpec.tla` is the promise to callers: the requests accepted and the
answers given in each run, and each client's latest call.
`DurableUpdate.tla` is the machinery: `executeUpdate` as the phases of a client
(`QueryFirst`, `SendSignal`, `QueryAgain`, then `ReturnConflict`,
`ReturnAnswer`, `ReturnTimeout` or `PollLater`), the signals the server
recorded and the run has not handled (`buffered`), the update handler (`HandleSignal`), and `take` and
`respond` in several concurrent fibers (`Take`, `Block`, `Unblock`, `Respond`,
`TakeNext`), with `RestartPass`, `CloseRun` and `ContinueAsNew` at any quiet
moment. `RpcFails` ends a call at any step, also after the server acted on it.
`Promise == INSTANCE UpdateSpec WITH ...` is the refinement, `KeepsPromise` the
property: accepted requests are those in `updateRequests`, answers those in
`updateResults`, and a call is pending while its client is not idle.

### PassReplay: memo tables over passes of concurrent fibers

`PassReplay.tla` models what a pass of `MaxFibers` concurrent fibers reads from
the tables and what it issues: plain activities (memoized by name), typed
activities and outbound commands (memoized by name and position), Nexus calls
with their scopes, and mailboxes. A call's result is the identity of the
command that produced it, so that a fiber given another call's result is seen.
`first[site]` is what a call returned first, `issued[site]` how often it issued
a command. When one fiber suspends, `EndPass` interrupts the others as Effect.all
does; a suspending pass may end at once or first wait for wrapped commands in
flight. A Nexus call that fails with its typed failure returns like one that
succeeds: both are decoded from the memoized promise (`OutboundReturns`).
WorkflowRun covers flags, cancellation and compensation with one fiber;
PassReplay covers concurrency of fibers without them.

### ExecutionSpec and WorkflowEngine: one execution id and its callers

`ExecutionSpec.tla` is the promise of the client-side engine about one execution
id: a sequence of chains of runs with one outcome each, of which the engine
opens only the first, and calls that learn only what is true at some moment
while they run.

`WorkflowEngine.tla` has the server (`chains`, each with the run it is at and its
outcome) and the callers of `TemporalWorkflowEngine.ts` (`kind`, `phase`, the
next RPC, and `pin`, the run whose close a caller waits for). Every RPC is an
action, for anything may happen at the server between two.

| Action | Code |
|---|---|
| `ExecuteStarts`, `ExecuteAttaches` | `execute`: the start with `REJECT_DUPLICATE`, and `WorkflowExecutionAlreadyStartedError` |
| `Result`, `Follow`, `ReturnOutcome` | `client.result` and `resultFromClientOutcome`, with and without `followRuns` |
| `Describe`, `Query` | `poll`; `Result` when the execution has closed |
| `Signal` | `interrupt`, `resume`, `deferredDone`, `scheduleClock` |
| `ChildStarts` | `execute` with `discard` of the in-workflow engine, from any pass of a parent |
| `NexusStarts` | `workflowRunOperation`, which uses an existing run |
| `RpcFails`, and a failing `ExecuteStarts` | an RPC that fails before or after the server acted |
| `CloseChain`, `ContinueAsNew` | the end of a run, in `makeWorkflow` |

`Promise == INSTANCE ExecutionSpec WITH ...` forgets the runs of a chain; a poll
has *decided* once it has seen the execution open, because its second RPC returns
`unfinished` even if the run has closed in between. A poll that reads
`Suspended` and one that reads nothing are the same answer here; the status
itself is a property of WorkflowRun. `deferredResult`, a single query, is left out.

### WorkerLifecycle: a worker in its scope

`WorkerLifecycle.tla` models `ownWorker` of `TemporalWorker.ts` (`completion`,
`closing`, the SDK's state of the worker) in the scope that the testing package
builds around it: `finalizers` is the stack of the scope, `Acquire` pushes the
server, the connection and the worker, `Run`, `RunUntil` and `CallShutdown` are
what a fiber does with the worker (forked in the scope, or holding on to the
worker from outside, also after the scope closed), `Interrupt` is `onInterrupt`,
and `ReleaseWorker`, `WorkerReleased`, `ReleaseConnection` and
`ReleaseEnvironment` are the finalizers. `runner` is whose `worker.run()` the SDK
accepted; the code never knows it, and `completion` must agree with it. A
connection that a worker still refers to refuses to close. The client's own
connection of a local environment is left out.

### ChildOutcome, StateCells, Versioning: what bodies are built from

`ChildOutcome.tla` follows an exit from the handler of a typed activity
(`implement`: a result, or a throw that is retried) into the memo of the child
that called it, through the failure the child's run closes with
(`encodeWorkflowFailure`), through Temporal's wrapping of it, back out of the
chain of causes (`findEncodedWorkflowExit`) and into the memo of the parent
(`executeChild`, `executeReturns`), while parent and child suspend, alone or in a
fiber beside the call.

`StateCells.tla` is a body that publishes its progress before every step and
awaits deferreds or calls activities; each pass sets the cell from the first step
again, within one activation, and `readStateCell` reads in between.

`Versioning.tla` is `match` over the deployments of a workflow: `Deploy` appends a
version, `deprecatePatch` deletes branches when no open run predates them, and a
`LivePass` records the marker of the branch it takes. A replay is a function of
what was recorded (`Known`, `match`), and `ReplaysAgree` compares it with the past.

### SandboxPolyfills and BundleOrder: the isolate

`SandboxPolyfills.tla` has the algorithms as operators: `encode` and `encodeInto`
over UTF-16 units, with pairs, unpaired surrogates and rooms that end inside a
character; the padding and the blocks of SHA-256, with the range of a word as
parameter; and `ensureSandboxPolyfills` over every isolate. The reference for the
encoder computes nothing: it says where characters start in a text (`Firsts`), what
scalar value each has (`Scalar`), how a decoder reads bytes (`Leads`, `ReadsAs`), and
that bytes encode a text if its characters can be found in them, one after the other
and with no byte left over (`Encodes`). The padding is computed over unbounded
integers: the 32-bit shifts of the source wrap only from about 2^31 bytes on, more
than a text of the platform can have.

`BundleOrder.tla` has the imports of every file of the three packages as sequences
and evaluates a bundle as ES modules do, depth first (`LoadImport`,
`EvaluateFile`). `PolyfillsFirst` is the guarantee of
`TemporalSandboxPolyfills.ts:12-16` for entrypoints that follow its advice.
`LintedStaysInSandbox` relates `noMixedHalves`, which sees one file, to what the
bundle reaches; `MCBundleOrder` has the bundles that are checked. Two edges worth
knowing:

- the bundles of the quick start (`README.md:129`) and of the sample
  (`order-saga/workflows.ts:10`) import Effect first, and the model shows that
  there it evaluates before the polyfills; the globals read at call time are
  installed in time all the same, as every run installs them again;
- `LintedStaysInSandbox` is about bundles that name none of the files the pattern
  list leaves out (`Unlisted`: the package index, `TemporalClient`,
  `TemporalConnection`, `TemporalNexusService`). A bundle that names one of them lints
  cleanly and has host code in it, though `README.md:337-339` says without exception
  that the rule checks this. `export ... from` is not looked at either.

The import lists are data of the repository; a changed import is a changed line of
`BundleOrder`.

### ListPaged, PayloadCodec: the client package

`ListPaged.tla` models `listPaged` against a server that divides its items into
pages as it likes, with empty pages and a token after the last item
(`FetchPage`, `DecodeItem`, `StreamEnds`, failures of each, a consumer that
stops), and `fetchHistoryEvents` with `startInput`.

`PayloadCodec.tla` models the encrypting codec in a chain of one or two: a data key
per batch, payloads sealed and opened in any order, keys that `Rotate`, providers
that identify their keys or do not, and payloads of other writers in the batch.

### MCWorkflowCode and MCHostCode: two instances of several modules

The small modules share no state with each other. Each of these two instances
chooses one `part` in its initial state, pins the others to one state of their
own, and lets only that part move. What one run or one isolate is made of is in
`MCWorkflowCode` (PassReplay, ChildOutcome, StateCells, Versioning, SandboxPolyfills,
BundleOrder, and an instance of DurableUpdate, `Updates`, small enough for its
liveness), what is around them in `MCHostCode` (WorkerLifecycle, ListPaged,
PayloadCodec, and the executions of TargetRouting).

## Runs

| Run | Result | What it shows |
|---|---|---|
| `workflow_run` | pass | Five bodies (a saga, a consumer, a timer, a body that steers itself, an entity that continues as new), two completions, one cancellation, and by body up to two interrupts and resumes, two messages, one clock signal, in every order. |
| `durable_update` | pass | Two callers, two ids, three requests (one id on two channels: a conflict), two fibers on one channel, one suspension per run, one continue-as-new. `KeepsPromise` is the refinement. |
| `workflow_code` | pass | *replay*: six bodies of one and two fibers: stable calls replay, takes are in order, nothing is issued twice, the run ends. *versions*: two runs over three deployments. *outcomes*: an activity, its child, its parent, all of them repeating. *cells*: every body of three steps. *text*, *digest*, *globals*: the polyfills. *bundle*: every file as an entrypoint and every two files of the workflow package. *updates*: two callers with one id on a served and an unserved channel, and a body that suspends twice: accepted requests are served, calls end, and an answer that precedes a deadline is returned. |
| `workflow_engine` | pass | Two clients, with and without `followRuns`, and a third party that starts the execution as a child or by Nexus; two chains of up to two runs. `KeepsPromise` is the refinement, `OutcomesReturned` the liveness of waiting. |
| `host_code` | pass | *worker*: three fibers, one of them scoped, and a scope that closes at any stage of the acquisition or later. *listing*: every page size, limit and division into pages. *codec*: a batch through one or two codecs while keys rotate. *routing*: three executions, two of one workflow and one of another that shares an id, and four programs (a request and its reply, clocks set by two for a third, interrupts and resumes of each other, two that only wake each other), one interrupt and one resume from a client. |
| `watcher_spent`, `cancelled_compensation` | violation | Findings 1-2 |
| `shared_position`, `cancelled_operation` | violation | Findings 3-4 |
| `branch_switches`, `child_again` | violation | Findings 5-6 |
| `cancelled_continues` | violation | Finding 7 |

Bounds. `MaxJobs` bounds each kind of external job, for each body. Interrupts,
resumes and one cancellation meet in every order with each other and with two
completions; the saga and the body that steers itself get two interrupts and two
resumes, so that one can undo another that undid a third; the others one of each,
as each flag is Boolean. Messages come to the bodies that take, and a clock signal
to the one that sleeps, where its timer also wakes the awaits in vain. Two
completions are what distinguishes a first from a second one and what the two
awaits of a body need. Two messages let a body take, suspend, replay the take and
take again. In TargetRouting three executions are a sender, a target and one
that could be taken for either; the programs wait for what another sends, and a
client's interrupt and resume fall between any two steps.
`MaxRuns = 2` is one continue-as-new; `MaxPasses = 1` is one suspension per
run, after which a pass replays (two, in one run, where liveness is checked); two callers and two fibers are the smallest
numbers that race. `MaxCalls = 1` gives each caller one call; a retry by another
caller with the same id is the same to the workflow as a retry by the same one.
In PassReplay, `MaxResumes = 1` and two deferreds give up to four passes.
In WorkflowEngine two chains are an execution and one that supersedes it, two runs
one continue-as-new; one client calls twice, so that its second call meets what
its first left, including a start that failed at the caller and succeeded at the
server.
In WorkerLifecycle three fibers are a first run, a refused one and a shutdown.
In ChildOutcome two repeats of each body follow a call that was interrupted, and
three attempts are one more than the first retry. Three steps of a body are one
before, at and after the place it waits. `Units` holds both ends of every UTF-8
length and of both surrogate ranges, and `Rooms` every size from none to two of the
longest characters; `Lengths` both sides of where the padding needs another block;
`WordRange = 256` makes the length of a message overflow its low word. In BundleOrder
the first import decides, and the second is whatever comes next. The bounds of
`host_code` (items, page sizes, limits; a batch of two; two keys) are the smallest
that let a page be short, full and cut by the limit, and a key rotate between two
payloads.

Symmetry is used only in `durable_update`, a safety run, over clients, fibers
and answers; none of its properties tells members apart.

`CHECK_DEADLOCK FALSE` throughout: closed runs stop, parked runs wait for a
signal nobody has to send, and bounded jobs run out. `AwaitEnds`,
`InterruptedRunCloses`, `RequestsServed`, `CallsReturn`, `RunEnds`,
`OutcomesReturned`, `CompletionsArrive` and `ScopeCloses` state where the system may
not stop.

Every property of a passing run has a mutant, a definition `...Bug` beside the
one it replaces; with it TLC finds the property violated under the same
configuration.

Fairness. Steps of the sandbox are weakly fair: Temporal runs an activation to
the end, and the scheduler is the microtask queue. Timers fire and activities
end (they have timeouts and a retry limit; a retried attempt is part of the
wait). A client's own steps are weakly fair and a deadline passes, because
`executeUpdate` is a loop of RPCs and sleeps. No fairness for signals,
cancellations, closings, continue-as-new, RPC failures or suspensions.
In the part *updates* the fiber serves in a loop, and answers a request that it took; a request on a channel no fiber serves is not promised an answer.
In `workflow_engine` a call makes its next RPC and a long poll returns for a run
that closed; nothing obliges a run to close or anybody to call.
In the part *routing* the server answers a signal some time between two tasks of its
target, which is strong fairness, for the target may be busy again and again.
In the part *worker* a closing scope goes on, a settled promise resumes its fiber
and a worker drains. The promise given to `runUntil` need not settle, and
`ScopeCloses` says what follows: the SDK's `runUntil` waits for it, and an
interrupted one whose promise waits for a workflow of this very worker keeps the
scope open, because the worker was shut down first.

## Findings

Each is an order of events the code allows, against a line of its documentation
that says otherwise; `PROJECT.json` has the quotes.

1. `watcher_spent`: the watcher is armed once per run. A run cancelled while it
   is parked spends it; if the next pass then blocks in a mailbox `take`,
   nothing interrupts it. `InterruptedRunCloses`, which passes, is what does hold.
2. `cancelled_compensation`: a cancellation calls `onInterrupted` from its
   handler, and the watcher calls it again; the second call cancels the scope of
   the compensation opened in between.
3. `shared_position`: two fibers that call one typed activity swap positions
   between passes, and one gets the other's memoized result. Calls whose name no
   other fiber uses are safe (`StableCallsReplay`).
4. `cancelled_operation`: a suspension cancels the pending Nexus operation of a
   sibling, but its promise stays memoized, and the next pass waits for it.
5. `branch_switches`: `patched` is true of any id in a live pass, so a run that is
   resumed after a deployment runs its body again on the newest branch, whatever
   it recorded before. Replays agree with what was live (`ReplaysAgree`).
6. `child_again`: a suspension in a fiber beside `execute` interrupts the call and
   not the child; the next pass starts a child that has closed again, and takes
   one that is open for a defect. A parent with one fiber starts it once
   (`OutcomesTravel`).
7. `cancelled_continues`: the marker of continue-as-new is thrown before the loop
   reads the cancellation, so a run that was cancelled and resumed, or cancelled
   while a finalizer of the marker's exit ran, continues as new instead of closing
   as cancelled. What does hold is `CancelledNeverCompletes`.

Four more that nothing promises otherwise: an empty `poll` of a mailbox is not
recorded and can find a message in the replayed pass; a discarded child or a
Nexus operation, started under the server's default policy, starts a closed
execution again; signals to other executions are not memoized, so a pass resumed by
an answer sends its request again, and if the one that answered has closed, the
refusal is a defect and the run fails (the program `requestReply` of
`MCTargetRouting`); and as every completion wakes its target, whatever that waits
for, two suspended runs that complete deferreds of each other wake each other in
every pass, for ever (`wakeful`).

## Proofs

All proofs hold for any constants that satisfy the named assumptions of the
modules (well-named bodies, sets of the right type, positive bounds).

`WorkflowRunProofs.tla`. `IInv` strengthens `TypeOK` by what the actions rely on:
where `pc` points (`Located`: a fiber blocked in an activity, a take or on a
deferred stands at such an operation) and what the flags say there. `TypeOK`
alone is not inductive: `body[pc].name` of a blocked fiber is a name of the
right kind only because the fiber blocked there.
From it `TypeCorrect`, `WakeupsAreNotLost` (each handler that completes a
deferred wakes the run or finds it interrupted, and the flags are cleared only
when the loop leaves the wait), `InterruptedRunsFail` (through `SuccessInv`: a
pass that ended as a success ended uninterrupted and no job is handled before it
closes), `CancelledRunsNeverComplete` and `StatusIsTruthful` (through
`StatusInv`, the status in every phase). Two more theorems need to know what a
replay does. `ResumedPassesGoOn`, from `ReplayInv`: every operation before
`frontier`, and before `pc` in a pass, is `Passed` (its deferred completed, its
activity memoized), the log holds the messages of the takes before it, and the
cursor of a mailbox is the number of takes before `pc`. `CompensationsMatchOutcome`,
from `CompensationInv`: the finalizers pending in a pass are those of the
compensated activities before `pc` (`Registered`), they move one by one to what is
undone after it, however each of them ends, and a pass that fails fails at or beyond the
frontier, where all completed activities are registered. This last part is why
the property is about runs whose passes read the same exits
(`ReadExitsAgree`): a deferred completed three times, with a success, a failure
and a success, can make the middle pass fail early although the exits read last
are current again.

`DurableUpdateProofs.tla`. `IInv` adds to the types: logs and known requests of
a run contain the same requests once (`LogsMatch`), what a fiber holds has been
taken and accepted (`HeldTaken`), runs beyond the current one are untouched
(`RunsInOrder`), and what a client knows is true of a run it queried
(`CallsInOrder`). From it `UpdateTypeCorrect`, `RequestsAcceptedOnce`,
`RequestsTakenOnce`, and `UpdatesKeepPromise`: `Init` maps to `Promise!Init`,
and each step to a step of `UpdateSpec` or a stutter (`StepRefines`, one lemma
per group of actions). `CallsInOrder` is needed there: a client returns an
answer that it read some steps ago, perhaps from a run that has since been
replaced.

`WorkflowEngineProofs.tla`. `IInv` is `TypeOK` and that a call has no answer before
it ends; `TypeOK` already says that a caller waits for a run there is, of a chain
not older than its call, which is why the outcome it returns was not superseded.
It is proved call by call (`OthersStand`: the chains only grow under the others).
From it `EngineTypeCorrect` and `EngineKeepsPromise`: `OpenRefines` and
`CloseRefines` map the server's chains, `EndRefines` and `GoesOnRefines` the
calls, and `StepRefines` joins them. `NoneAssumption` keeps outcomes apart from
what else a call may return.

`WorkerLifecycleProofs.tla`. `IInv` adds to the types where each finalizer is on
the stack (`StackInOrder`: a worker that may run has its own), that the completion
is the run the SDK accepted (`CompletionRuns`) and that a fiber uses only a worker
there is. From it `WorkerTypeCorrect`, `ShutdownsStop` and `ScopesRelease`.

`TargetRoutingProofs.tla`. `IInv` adds to the types what connects a run to the signal
it waits for: the signal it sent is the operation it stands at and meant for another
execution (`SignalOf`, `MeantFor`), and what a pass has behind it is effective at its
target (`DoneSoFar`), which later passes and other executions cannot undo, for
deferreds and clocks are never removed. From it `RoutingTypeCorrect` and
`OperationsAreRouted`.

`PassReplayProofs.tla`. `WellFormed` is `TypeOK`, what a blocked fiber waits for
(`Waiting`) and that only calls a fiber is past have returned (`Past`). From it
`TypesCorrect` and `MessagesInOrder`, the latter for takes and polls of any
fibers. `ReplayInv` is about each stable site (a name that only one fiber uses):
while a pass runs, the position of its name is the number of earlier calls of it
in the fiber (`CursorsAgree`), so the site has one memo key in all passes
(`KeyOf`), the table holds at this key a command of the site and what the site
returned first (`Memo`), and a fiber that waits there waits at this key
(`WaitsAtKey`). From it `StableReplay` and `CommandsNotReissued`. Both assume
`OutboundCachePatched`: without the patch `memoizeOutboundCommand` reads no cache,
as a run started before it must not, and issues its commands again in every pass.

`WorkflowCodeProofs.tla`. Versioning: the markers of an open run are declared
still and never decrease (`MarkersLive`), so the newest one known to a replay is
the one its pass recorded: `ReplaysTakeTheirBranch`. StateCells: all steps before
the cell are done (`CellInv`), and a pass that starts over gets at least as far
again: `CellsAdvance`. ChildOutcome: what the attempts threw (`BodyInv`), what the
child's failure encodes (`ChildInv`), and that a parent with one fiber waits from
the start of the child until the outcome is memoized (`ParentInv`); without the
last part a second start could not be excluded. `Unwrapped` finds the encoded exit
under any layer of Temporal's. From them `OutcomesReachTheParent` and
`RetriesFollowThrows`. BundleOrder, for an entrypoint with any imports: before the
polyfills are installed only the files on the way to them are being loaded and at
most the Temporal SDK has evaluated (`OnItsWay`, `InPolyfills`), and what evaluates
later comes after them (`Installed`), so `PolyfillsPrecedeEffect`. The files of
a bundle that lints cleanly are the sandbox's and those of the entrypoint's imports
that do not reach the host (`Clean`), a set closed under imports (`CleanImports`) and
apart from the host's (`NamesApart`): `CleanLintKeepsHostOut`. SandboxPolyfills: the
three parts of `PolyfillsAgree` (`PolyfillsCompute`). `EncodesText` holds for any
text, with surrogates anywhere, and a buffer of any size (`TextsEncoded`). A decoder
reads the bytes of a code back, wherever they stand (`BytesRead`, `ReadsAmong`); the
code the loop is at is the scalar value of the character, and the loop goes on at the
next one (`CodeIsScalar`); so one more character behind the encoding of those before
is the encoding of all (`EncodesNext`). The fold of `encode` is unrolled turn by turn
(`TurnsExist`, `EncodeTurns`, `EncodeEncodes`). `encodeInto` reads the same characters
through the iterator of the string (`CharacterEncoded`, `NextCharacter`), so the buffer
holds the encoding of what was read (`TextInv`). That the reference leaves no choice is
a theorem as well: no text has two encodings (`OneEncoding`), because the first
character that is at another place in one of them would start inside a character of
the other (`NotLater`). `PadsMessage` holds for messages of any
length and words of any range that is a multiple of 8 (`MessagesPadded`, from
`Padded` and `WordsTell`), `InstallsGlobals` for any isolate (`GlobalsInstalled`).

`ClientDataProofs.tla`. ListPaged: a cursor that goes on stands at the number of
items passed on, below the limit (`CursorInv`), and what was passed on is what the
consumer has and the rest of the page (`ListedInv`): `ListingsAreExact`. `ReportsInv`
adds up the reports, for `ReportsAreExact`. The sum is a fold over a sequence, and
what it computes is proved for sequences of any length without an induction
theorem: the function that the fold chooses exists and is unique, because among the
sets where it did not there would be one with a smallest maximum (`SumsExist`,
`SumsAgree`, from `LeastOf`). PayloadCodec: a payload is sealed by the codecs up to
the one at work, in order (`Layered`), and a stored one is that, a plain one, one
with a single layer, or a foreign one (`StoredAs`); `Opening` says that opening it
removes a layer, leaves the value, or is lost for one of the two reasons
`RoundTrips` names. From it `PayloadsRoundTrip`, for chains and batches of any
length.

Every invariant above was model-checked on the instance of its run before it was
proved (that of the bundle's order with the head and the tail of the stack in place
of the sequence `On` says there is, which TLC cannot look for). In `ChildOutcome`,
`StateCells`, `Versioning`, `BundleOrder`, `SandboxPolyfills`, `ListPaged` and
`PayloadCodec` a theorem is about the module's own specification (`OutcomeSpec`,
`CellSpec`, `VersionSpec`, `BundleSpec`, `SandboxSpec`, `ListSpec`, `CodecSpec`),
whose steps are those of the corresponding parts of `MCWorkflowCode` or `MCHostCode`.

In TargetRouting the typing is a theorem only, `RoutingTypeOK`. With these, every invariant and every action property that a passing run checks is a
theorem. Only model-checked: the liveness properties (liveness under fairness and
`ENABLED` are out of the provers' reach), which are `AwaitEnds`, `InterruptedRunCloses`,
`RequestsServed`, `CallsReturn`, `LateAnswersReturned`, `RunEnds`, `OutcomesReturned`,
`CompletionsArrive` and `ScopeCloses`, and the runs that exhibit findings. An induction
theorem of the library cannot be used, as it takes an operator as a parameter; an
induction over numbers is replaced by the least-element principle, as above.

## Assumptions about Temporal and Effect

The code under `packages/*/src` is the source of every definition; what it calls
is modelled from how it is used. Temporal's TypeScript SDK: jobs of an activation
are handled one after the other, microtasks drain, and blocked conditions are
evaluated in the order they were registered; a condition is evaluated eagerly
when it is created; signals that arrive before their handler are buffered;
`patched(id)` is true in new histories, so `OutboundCachePatched`,
`FiberCancellationPatched`, `SignalClockPatched` and `RoutingPatched` are TRUE in the
runs. The server: a caller's retry can duplicate a signal; a close or a
continue-as-new with an unhandled signal is rejected and tried again after it was handled; a query may be answered before a
buffered signal is handled. A start is rejected while a run of the id is open, and,
with `REJECT_DUPLICATE`, when one has closed; children and Nexus operations start
with the server's default policy, which allows a closed id; closed executions are
not forgotten (no retention). A result asked for without a run id is that of the
latest run at the first request; the handle of a start, and the callback of a
Nexus operation, follow the chain. A worker runs once, any further `run` is refused;
`runUntil` shuts down a running worker when its promise settles, also one that
another fiber runs, and returns when the promise and the run have both settled; a
worker that stopped or failed holds no connection. Effect: the finalizers of a
scope run in reverse order and wait for each other; a suspension interrupts the fibers beside it;
a finalizer of `withCompensation` is uninterruptible; whether an interruption or a
failing finalizer replaces the exit it meets or joins it in the cause is left open
(`CausesJoin`): TRUE in `workflow_run` allows both, FALSE in the runs that exhibit
findings shows that they do not depend on it. A signal to an execution that is closed
or does not exist is refused, one to an open execution is taken between two of its
tasks, and one from a run that closes may be dropped.

The start of a child whose id is open is refused, and a child is not cancelled by
the interruption of the fiber that waits for it. A marker is known to a replay from
where it was recorded, and any marker is present in a live pass. A listing's server
takes a page size that is not positive for its own maximum, gives a token whenever
items remain and may give one when none do. Codecs encode in their order and decode
in the reverse one. A file of a bundle evaluates after its imports, in their order.
`Effect.tryPromise` in this code passes no abort signal. AES-GCM rejects what
another key sealed.

Abstractions: a message, payload or answer is its identity; a workflow body is a
straight line of operations; the attempts of one activity are one; queries and
RPC encodings are direct reads.

## Plan

In the order of importance.

| | Module | Models | Theorems |
|---|---|---|---|
| A | `WorkflowRun` | the runtime, one fiber | done, `PassesNeverRegress` and `CompensationMatchesOutcome` included |
| A' | `TargetRouting` | the runtime, several executions | done: `RoutingTypeOK`, `RoutedAsNamed` |
| B | `PassReplay` | memo tables, several fibers | done: `TypeOK`, `TakenInOrder`, `StableCallsReplay`, `NotReissued` |
| C | `UpdateSpec`, `DurableUpdate` | updates, both sides | done, the refinement included |
| D | `ExecutionSpec`, `WorkflowEngine` | the clients of one execution id | done, the refinement included |
| E | `WorkerLifecycle` | `run`, `runUntil`, `shutdown`, release, connection | done |
| F | `ListPaged`, `PayloadCodec` | the client package | done: `ListsExactly`, `ReportsAddUp`, `RoundTrips` |
| G | `Versioning`, `ChildOutcome`, `StateCells` | branches, outcomes, cells | done: `ReplaysAgree`, `OutcomesTravel`, `OnlyThrownRetried`, `PhaseAdvances` |
| H | `SandboxPolyfills`, `BundleOrder` | the isolate and its bundle | done: `PolyfillsFirst`, `LintedStaysInSandbox`, `PolyfillsAgree` |

## Not modelled

- The methods of the clients other than `listPaged` and `fetchHistoryEvents`: each
  decodes its input, makes an SDK call (or a start and the polls for its result) and
  decodes its output, and keeps nothing. What an interrupted or failed request still
  does is up to the SDK and the server: the code passes no abort signal and promises
  nothing about it.
- The schema-derived JSON codecs and schemas: pure data, covered by unit tests.
- The compression function of SHA-256, pinned against the platform by tests.
- The rules of the lint plugin other than `noMixedHalves`: each looks at one node
  of a syntax tree, and a model would restate its condition.
- The microtask scheduler: it is the granularity of every model here.
- The stub client of the testing package, an array of recorded calls, and the
  client's own connection in local mode; layers that only pass options; samples.
