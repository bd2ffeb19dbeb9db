--------------------------- MODULE WorkflowEngine ---------------------------
(***************************************************************************)
(* One execution id at the Temporal server and everybody who starts, polls *)
(* or signals it: clients through the client-side engine                   *)
(* (packages/workflow/src/TemporalWorkflowEngine.ts), parent workflows     *)
(* that execute it as a discarded child (TemporalWorkflowRuntime.ts), and  *)
(* callers of a Nexus operation it backs (TemporalNexusService.ts).        *)
(*                                                                         *)
(* An execution is a chain of runs, each continued as new by the next; the *)
(* runs themselves are the subject of WorkflowRun.  Each RPC is an action, *)
(* because anything may happen at the server between two of them.          *)
(***************************************************************************)
EXTENDS Naturals, Sequences

CONSTANTS
  Callers,
  Uses,         \* caller -> the kinds of calls it makes
  FollowRuns,   \* caller -> whether its engine is configured to follow runs
  Outcomes,     \* the outcomes a chain may close with
  None,
  MaxChains,    \* bound: chains of the execution
  MaxRuns,      \* bound: runs of a chain
  MaxCalls      \* bound: caller -> how many calls it makes

Starts  == {"execute", "discard", "child", "nexus"}
Signals == {"interrupt", "resume", "deferredDone", "scheduleClock"}
Kinds   == Starts \cup Signals \cup {"poll"}
Phases  == {"idle", "start", "result", "await", "describe", "query", "signal"}
Facts   == {"unfinished", "exists", "delivered", "ignored", "failed"}

ASSUME UsesAssumption == Uses \in [Callers -> SUBSET Kinds]
ASSUME FollowRunsAssumption == FollowRuns \in [Callers -> BOOLEAN]
ASSUME NoneAssumption == None \notin Outcomes \cup Facts /\ Outcomes \cap Facts = {}
ASSUME BoundsAssumption == MaxChains \in Nat /\ MaxRuns \in Nat /\ MaxCalls \in [Callers -> Nat]

VARIABLES
  chains,      \* the server: a sequence of [by, run, outcome]
  phase,       \* caller -> the RPC its call makes next
  kind,        \* caller -> what it called
  pin,         \* caller -> the run whose close it waits for: [chain, run, follows]
  since,       \* caller -> how many chains there were when it called
  answer,      \* caller -> how its latest call ended
  callsLeft

clientVars == <<phase, kind, pin, since, answer, callsLeft>>
vars == <<chains, clientVars>>

NoRun == [chain |-> 0, run |-> 0, follows |-> FALSE]

Init ==
  /\ chains = <<>>
  /\ phase = [c \in Callers |-> "idle"]
  /\ kind = [c \in Callers |-> None]
  /\ pin = [c \in Callers |-> NoRun]
  /\ since = [c \in Callers |-> 0]
  /\ answer = [c \in Callers |-> None]
  /\ callsLeft = MaxCalls

-----------------------------------------------------------------------------
(* The server.                                                             *)

Latest == Len(chains)
Exists == chains # <<>>
IsOpen == Exists /\ chains[Latest].outcome = None

\* A start opens a chain; the reuse policy of the starter decides whether a
\* closed one is in its way.  An open one always is.
OpenChain(by) ==
  /\ Latest < MaxChains
  /\ chains' = Append(chains, [by |-> by, run |-> 1, outcome |-> None])

CloseChain(o) ==
  /\ IsOpen
  /\ chains' = [chains EXCEPT ![Latest].outcome = o]
  /\ UNCHANGED clientVars

ContinueAsNew ==
  /\ IsOpen /\ chains[Latest].run < MaxRuns
  /\ chains' = [chains EXCEPT ![Latest].run = @ + 1]
  /\ UNCHANGED clientVars

-----------------------------------------------------------------------------
(* A call, and how it ends.                                                *)

Goes(c, p) == phase' = [phase EXCEPT ![c] = p]

End(c, a) ==
  /\ Goes(c, "idle")
  /\ answer' = [answer EXCEPT ![c] = a]
  /\ kind' = [kind EXCEPT ![c] = None]
  /\ pin' = [pin EXCEPT ![c] = NoRun]
  /\ since' = [since EXCEPT ![c] = 0]
  /\ UNCHANGED callsLeft

\* The call waits for run r of chain i to close, and for the runs that
\* continue it if it follows.
WaitFor(c, i, r, f) ==
  /\ Goes(c, "await")
  /\ pin' = [pin EXCEPT ![c] = [chain |-> i, run |-> r, follows |-> f]]
  /\ UNCHANGED <<kind, since, answer, callsLeft>>

\* The call goes on with another RPC.
Stays(c, p) ==
  /\ Goes(c, p)
  /\ UNCHANGED <<kind, pin, since, answer, callsLeft>>

FirstPhase(k) ==
  IF k = "poll" THEN "describe" ELSE IF k \in Signals THEN "signal" ELSE "start"

Call(c, k) ==
  /\ phase[c] = "idle" /\ callsLeft[c] > 0
  /\ callsLeft' = [callsLeft EXCEPT ![c] = @ - 1]
  /\ kind' = [kind EXCEPT ![c] = k]
  /\ since' = [since EXCEPT ![c] = Latest]
  /\ answer' = [answer EXCEPT ![c] = None]
  /\ Goes(c, FirstPhase(k))
  /\ UNCHANGED <<chains, pin>>

-----------------------------------------------------------------------------
(* engine.execute: start with REJECT_DUPLICATE, attach if it was started.  *)

RejectsBug == IsOpen
Rejects == Exists

\* With discard the execution that started is all the caller asked for; the
\* handle of a start follows the runs of its chain.  The caller may not learn
\* that the start succeeded.
ExecuteStarts(c) ==
  /\ phase[c] = "start" /\ kind[c] \in {"execute", "discard"} /\ ~Rejects
  /\ OpenChain("engine")
  /\ \/ kind[c] = "execute" /\ WaitFor(c, Latest + 1, 1, TRUE)
     \/ kind[c] = "discard" /\ End(c, "exists")
     \/ End(c, "failed")

\* WorkflowExecutionAlreadyStartedError: the execution is there.
ExecuteAttaches(c) ==
  /\ phase[c] = "start" /\ kind[c] \in {"execute", "discard"} /\ Rejects
  /\ \/ kind[c] = "execute" /\ Stays(c, "result")
     \/ kind[c] = "discard" /\ End(c, "exists")
  /\ UNCHANGED chains

\* client.result without a run id pins the latest run.
ResultBug(c) ==
  /\ phase[c] = "result"
  /\ WaitFor(c, 1, 1, FollowRuns[c])
  /\ UNCHANGED chains

Result(c) ==
  /\ phase[c] = "result"
  /\ WaitFor(c, Latest, chains[Latest].run, FollowRuns[c])
  /\ UNCHANGED chains

Pinned(c) == chains[pin[c].chain]

\* The run that was waited for closed: its outcome, as a success or decoded
\* from the WorkflowFailedError.
ReturnOutcome(c) ==
  /\ phase[c] = "await"
  /\ pin[c].run = Pinned(c).run /\ Pinned(c).outcome # None
  /\ End(c, Pinned(c).outcome)
  /\ UNCHANGED chains

\* It continued as new: the next run, or an error that is no outcome.
FollowBug(c) ==
  /\ phase[c] = "await" /\ pin[c].run < Pinned(c).run
  /\ WaitFor(c, pin[c].chain, pin[c].run, pin[c].follows)
  /\ UNCHANGED chains

Follow(c) ==
  /\ phase[c] = "await" /\ pin[c].run < Pinned(c).run
  /\ IF pin[c].follows THEN WaitFor(c, pin[c].chain, pin[c].run + 1, TRUE)
                       ELSE End(c, "failed")
  /\ UNCHANGED chains

-----------------------------------------------------------------------------
(* engine.poll: describe, then the state query or the result.              *)

Describe(c) ==
  /\ phase[c] = "describe"
  /\ IF Exists THEN Stays(c, IF IsOpen THEN "query" ELSE "result")
               ELSE End(c, "unfinished")
  /\ UNCHANGED chains

\* Whether the state is suspended or running, the execution is unfinished for
\* the caller, also if it has closed since.
Query(c) ==
  /\ phase[c] = "query"
  /\ End(c, "unfinished")
  /\ UNCHANGED chains

-----------------------------------------------------------------------------
(* engine.interrupt, resume, deferredDone and scheduleClock: one signal to *)
(* the latest run.  Nobody to signal is an error for the latter two only.  *)
Signal(c) ==
  /\ phase[c] = "signal"
  /\ IF IsOpen THEN End(c, "delivered")
     ELSE End(c, IF kind[c] \in {"interrupt", "resume"} THEN "ignored" ELSE "failed")
  /\ UNCHANGED chains

-----------------------------------------------------------------------------
(* Starts that reject only an open execution.                              *)

\* A pass of a parent workflow executes the child with discard; the start of
\* an earlier pass is not an error while the child runs.
ChildStarts(c) ==
  /\ phase[c] = "start" /\ kind[c] = "child"
  /\ IF IsOpen THEN UNCHANGED chains ELSE OpenChain("other")
  /\ End(c, "exists")

\* A Nexus request starts the execution or uses the existing run.
NexusStarts(c) ==
  /\ phase[c] = "start" /\ kind[c] = "nexus"
  /\ \/ IsOpen /\ WaitFor(c, Latest, chains[Latest].run, TRUE) /\ UNCHANGED chains
     \/ ~IsOpen /\ WaitFor(c, Latest + 1, 1, TRUE) /\ OpenChain("other")

-----------------------------------------------------------------------------
\* An RPC of a client fails without effect.
RpcFails(c) ==
  /\ phase[c] # "idle" /\ kind[c] \notin {"child", "nexus"}
  /\ End(c, "failed")
  /\ UNCHANGED chains

Step(c) ==
  \/ ExecuteStarts(c) \/ ExecuteAttaches(c) \/ Result(c)
  \/ ReturnOutcome(c) \/ Follow(c)
  \/ Describe(c) \/ Query(c) \/ Signal(c)
  \/ ChildStarts(c) \/ NexusStarts(c)

Next ==
  \/ \E c \in Callers : Step(c) \/ RpcFails(c) \/ \E k \in Uses[c] : Call(c, k)
  \/ \E o \in Outcomes : CloseChain(o)
  \/ ContinueAsNew

Spec == Init /\ [][Next]_vars

\* A call makes its next RPC, and a long poll for a run that closed returns.
\* Nothing obliges a run to close or anybody to call.
FairSpec == Spec /\ \A c \in Callers : WF_vars(Step(c))

-----------------------------------------------------------------------------
(* Properties.                                                             *)

Chain == [by : {"engine", "other"}, run : Nat, outcome : Outcomes \cup {None}]

TypeChains ==
  /\ chains \in Seq(Chain)
  /\ \A i \in DOMAIN chains : i < Latest => chains[i].outcome # None

TypeCallers ==
  /\ phase \in [Callers -> Phases]
  /\ kind \in [Callers -> Kinds \cup {None}]
  /\ pin \in [Callers -> [chain : Nat, run : Nat, follows : BOOLEAN]]
  /\ since \in [Callers -> Nat]
  /\ answer \in [Callers -> Outcomes \cup Facts \cup {None}]
  /\ callsLeft \in [Callers -> Nat]

\* Type correctness, and: only the latest chain is open, and a call waits for
\* a run there is, of a chain that was not superseded when it was made.
TypeOK ==
  /\ TypeChains /\ TypeCallers
  /\ \A c \in Callers :
       /\ since[c] <= Latest
       /\ phase[c] \in {"result", "query"} => Exists
       /\ phase[c] = "await" =>
            /\ pin[c].chain \in DOMAIN chains /\ pin[c].chain >= since[c]
            /\ pin[c].run <= Pinned(c).run

\* A call that waits for a chain that closed returns, whichever run of the
\* chain it waits for.
OutcomesReturned ==
  \A c \in Callers :
    (phase[c] = "await" /\ Pinned(c).outcome # None) ~> phase[c] = "idle"

\* A poll has decided once it has seen the execution open.
CallState(c) ==
  CASE phase[c] = "query" -> "decided"
    [] phase[c] # "idle" /\ phase[c] # "query" -> "pending"
    [] phase[c] = "idle" /\ answer[c] = None -> "idle"
    [] phase[c] = "idle" /\ answer[c] = "failed" -> "failed"
    [] OTHER -> "returned"

CallAnswer(c) ==
  IF phase[c] = "query" THEN "unfinished"
  ELSE IF answer[c] = "failed" THEN None ELSE answer[c]

Execution ==
  [i \in DOMAIN chains |-> [by |-> chains[i].by, outcome |-> chains[i].outcome]]
CallOf(c) == [state |-> CallState(c), since |-> since[c], answer |-> CallAnswer(c)]
CallsMade == [c \in Callers |-> CallOf(c)]

Promise == INSTANCE ExecutionSpec WITH chains <- Execution, calls <- CallsMade

\* The engine keeps the promise of ExecutionSpec: one execution per id as far
\* as its own starts go (TemporalWorkflowEngine.ts:122, "re-executing after
\* completion must attach to the recorded result, never start a fresh run"),
\* and calls that return the truth however runs close, continue as new or are
\* started again between their RPCs.
KeepsPromise == Promise!Spec
=============================================================================
