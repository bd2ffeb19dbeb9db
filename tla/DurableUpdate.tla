---------------------------- MODULE DurableUpdate ----------------------------
(***************************************************************************)
(* Durable updates: executeUpdate on the client's side                     *)
(* (packages/workflow/src/TemporalWorkflowInteractions.ts), the update     *)
(* signal and query handlers (TemporalWorkflowRuntime.ts) and the fibers   *)
(* of the workflow body that take requests and respond                     *)
(* (TemporalDurableUpdate.ts), over a chain of runs.                       *)
(*                                                                         *)
(* Granularity.  A client acts between two RPCs.  A signal is recorded by  *)
(* the server (buffered) and handled later, when no fiber has a microtask  *)
(* pending; a query reads the state of the latest run and its answer is    *)
(* looked at later.  The body is a set of fibers, each of which serves one *)
(* channel for ever: take a request, work on it, respond.                  *)
(***************************************************************************)
EXTENDS Naturals, Sequences

CONSTANTS
  Clients,     \* callers of executeUpdate
  Channels,    \* update names
  Ids,         \* request ids
  Requests,    \* requests: records with an id and a name (and a payload)
  Answers,     \* encoded exits
  Takers,      \* fibers of the body
  ChannelOf,   \* the channel each fiber serves
  None,        \* undefined
  MaxRuns,     \* bound: runs of the chain
  MaxPasses,   \* bound: how often passes of a run suspend
  MaxCalls     \* bound: calls of each client

ASSUME RequestsAssumption ==
  \A r \in Requests : r.id \in Ids /\ r.name \in Channels
ASSUME ChannelOfAssumption == ChannelOf \in [Takers -> Channels]
ASSUME NoneAssumption == None \notin Requests \cup Answers
ASSUME BoundsAssumption ==
  MaxRuns \in Nat \ {0} /\ MaxPasses \in Nat /\ MaxCalls \in Nat

Phases == {"idle", "first", "send", "poll", "check"}
Outcomes == {"none", "pending", "answer", "conflict",
             "timeout", "failed"}
TakerStates == {"take", "blocked", "holding", "answered", "stopped"}

VARIABLES
  \* -- the client, one record per caller --------------------------------
  phase,           \* where its executeUpdate stands
  request,         \* the request of its latest call
  outcome, answer, \* how that call ended
  known, exit,     \* the last query result it read
  expired,         \* its deadline has passed
  callsLeft,
  \* -- the server -------------------------------------------------------
  run, open,       \* the latest run, and whether it is open
  buffered,        \* signals recorded and not yet handled
  \* -- TemporalWorkflowRuntimeState, per run of the chain ----------------
  updateRequests,  \* run -> the requests it accepted
  updateResults,   \* run -> pairs of a request id and an answer
  updateLogs,      \* of the latest run: channel -> requests in order
  updateCursors,   \* channel -> requests taken in this pass
  \* -- the fibers of the body --------------------------------------------
  taker,           \* fiber -> its state
  at,              \* fiber -> the cursor it read before it blocked
  held,            \* fiber -> the request it took last
  passesLeft

clientVars == <<phase, request, outcome, answer, known, exit, expired, callsLeft>>
handlerVars == <<updateRequests, updateLogs>>
fiberVars  == <<updateCursors, taker, at, held, passesLeft>>
runVars    == <<handlerVars, updateResults, fiberVars, run, open>>
vars       == <<clientVars, runVars, buffered>>

Runs == 1..MaxRuns
NoMessages == [n \in Channels |-> <<>>]
NoCursors  == [n \in Channels |-> 0]

Init ==
  /\ phase = [c \in Clients |-> "idle"]
  /\ request = [c \in Clients |-> None]
  /\ outcome = [c \in Clients |-> "none"]
  /\ answer = [c \in Clients |-> None]
  /\ known = [c \in Clients |-> None]
  /\ exit = [c \in Clients |-> None]
  /\ expired = [c \in Clients |-> FALSE]
  /\ callsLeft = [c \in Clients |-> MaxCalls]
  /\ run = 1 /\ open = TRUE /\ buffered = <<>>
  /\ updateRequests = [k \in Runs |-> {}]
  /\ updateResults = [k \in Runs |-> {}]
  /\ updateLogs = NoMessages
  /\ updateCursors = NoCursors
  /\ taker = [f \in Takers |-> "take"]
  /\ at = [f \in Takers |-> 0]
  /\ held = [f \in Takers |-> None]
  /\ passesLeft = MaxPasses

-----------------------------------------------------------------------------
(* The handlers of a run (installBaseHandlers).                            *)

\* No microtask of the body is pending.
Quiescent == \A f \in Takers : taker[f] # "take"

\* The handler of updateSignal: a request id is accepted once.
AcceptableBug(r) == r \notin updateRequests[run]
Acceptable(r) == \A s \in updateRequests[run] : s.id # r.id

HandleSignal ==
  /\ open /\ Quiescent /\ buffered # <<>>
  /\ LET r == Head(buffered)
     IN  IF Acceptable(r)
           THEN /\ updateRequests' = [updateRequests EXCEPT ![run] = @ \cup {r}]
                /\ updateLogs' = [updateLogs EXCEPT ![r.name] = Append(@, r)]
           ELSE UNCHANGED handlerVars
  /\ buffered' = Tail(buffered)
  /\ UNCHANGED <<clientVars, updateResults, fiberVars, run, open>>

\* The handler of updateResultQuery: the exit of an id and its request.
RequestOf(id) ==
  IF \E r \in updateRequests[run] : r.id = id
    THEN CHOOSE r \in updateRequests[run] : r.id = id ELSE None
ExitOf(id) ==
  IF \E a \in Answers : <<id, a>> \in updateResults[run]
    THEN CHOOSE a \in Answers : <<id, a>> \in updateResults[run] ELSE None

-----------------------------------------------------------------------------
(* TemporalDurableUpdate.take and respond, in each fiber.                  *)

Cursor(f) == updateCursors[ChannelOf[f]]
LogOf(f)  == updateLogs[ChannelOf[f]]

Goes(f, state) == taker' = [taker EXCEPT ![f] = state]

HasRequest(f) == Cursor(f) < Len(LogOf(f))

\* take returns the request at the cursor and moves the cursor.
Take(f) ==
  /\ taker[f] = "take"
  /\ HasRequest(f)
  /\ held' = [held EXCEPT ![f] = LogOf(f)[Cursor(f) + 1]]
  /\ updateCursors' = [updateCursors EXCEPT ![ChannelOf[f]] = @ + 1]
  /\ Goes(f, "holding")
  /\ UNCHANGED <<clientVars, handlerVars, updateResults, at, passesLeft, run,
                 open, buffered>>

\* take finds none and waits for the log to grow beyond the cursor it read.
Block(f) ==
  /\ taker[f] = "take"
  /\ ~HasRequest(f)
  /\ at' = [at EXCEPT ![f] = Cursor(f)]
  /\ Goes(f, "blocked")
  /\ UNCHANGED <<clientVars, handlerVars, updateResults, updateCursors, held,
                 passesLeft, run, open, buffered>>

\* The condition holds: take reads the cursor again.
UnblockBug(f) ==
  /\ taker[f] = "blocked" /\ Len(LogOf(f)) > at[f]
  /\ held' = [held EXCEPT ![f] = LogOf(f)[at[f] + 1]]
  /\ updateCursors' = [updateCursors EXCEPT ![ChannelOf[f]] = at[f] + 1]
  /\ at' = [at EXCEPT ![f] = 0]
  /\ Goes(f, "holding")
  /\ UNCHANGED <<clientVars, handlerVars, updateResults, passesLeft, run,
                 open, buffered>>

Unblock(f) ==
  /\ taker[f] = "blocked" /\ Len(LogOf(f)) > at[f]
  /\ at' = [at EXCEPT ![f] = 0]
  /\ Goes(f, "take")
  /\ UNCHANGED <<clientVars, handlerVars, updateResults, updateCursors, held,
                 passesLeft, run, open, buffered>>

\* respond records the first exit for the request, and only the first.
RecordBug(r, a) ==
  updateResults' = [updateResults EXCEPT ![run] =
                      {p \in @ : p[1] # r.id} \cup {<<r.id, a>>}]
Record(r, a) ==
  IF \E b \in Answers : <<r.id, b>> \in updateResults[run]
    THEN UNCHANGED updateResults
    ELSE updateResults' = [updateResults EXCEPT ![run] = @ \cup {<<r.id, a>>}]

Respond(f, a) ==
  /\ taker[f] \in {"holding", "answered"}
  /\ Record(held[f], a)
  /\ Goes(f, "answered")
  /\ UNCHANGED <<clientVars, handlerVars, updateCursors, at, held, passesLeft,
                 run, open, buffered>>

TakeNext(f) ==
  /\ taker[f] = "answered"
  /\ held' = [held EXCEPT ![f] = None]
  /\ Goes(f, "take")
  /\ UNCHANGED <<clientVars, handlerVars, updateResults, updateCursors, at,
                 passesLeft, run, open, buffered>>

-----------------------------------------------------------------------------
(* The body as a whole.                                                    *)

StartFibers ==
  /\ taker' = [f \in Takers |-> "take"]
  /\ at' = [f \in Takers |-> 0]
  /\ held' = [f \in Takers |-> None]

ResetCursorsBug == UNCHANGED updateCursors
ResetCursors == updateCursors' = NoCursors

\* The pass suspends and, once resumed, the next one starts every fiber
\* again from the beginning of the logs.
RestartPass ==
  /\ open /\ Quiescent /\ passesLeft > 0
  /\ passesLeft' = passesLeft - 1
  /\ ResetCursors
  /\ StartFibers
  /\ UNCHANGED <<clientVars, handlerVars, updateResults, run, open, buffered>>

\* The run closes, or continues as a new one with a fresh state.  The server
\* accepts neither while it holds signals the run has not handled.
CloseRun ==
  /\ open /\ Quiescent /\ buffered = <<>>
  /\ open' = FALSE
  /\ taker' = [f \in Takers |-> "stopped"]
  /\ UNCHANGED <<clientVars, handlerVars, updateResults, updateCursors, at,
                 held, passesLeft, run, buffered>>

ContinueAsNew ==
  /\ open /\ Quiescent /\ buffered = <<>> /\ run < MaxRuns
  /\ run' = run + 1
  /\ updateLogs' = NoMessages
  /\ ResetCursors
  /\ StartFibers
  /\ passesLeft' = MaxPasses
  /\ UNCHANGED <<clientVars, updateRequests, updateResults, open, buffered>>

-----------------------------------------------------------------------------
(* executeUpdate.                                                          *)

StepTo(c, p) == phase' = [phase EXCEPT ![c] = p]

\* The call ends, and its locals with it.
End(c, o, a) ==
  /\ StepTo(c, "idle")
  /\ outcome' = [outcome EXCEPT ![c] = o]
  /\ answer' = [answer EXCEPT ![c] = a]
  /\ known' = [known EXCEPT ![c] = None]
  /\ exit' = [exit EXCEPT ![c] = None]
  /\ expired' = [expired EXCEPT ![c] = FALSE]
  /\ UNCHANGED <<request, callsLeft>>

Call(c, r) ==
  /\ phase[c] = "idle" /\ callsLeft[c] > 0
  /\ callsLeft' = [callsLeft EXCEPT ![c] = @ - 1]
  /\ request' = [request EXCEPT ![c] = r]
  /\ outcome' = [outcome EXCEPT ![c] = "pending"]
  /\ answer' = [answer EXCEPT ![c] = None]
  /\ StepTo(c, "first")
  /\ UNCHANGED <<known, exit, expired, runVars, buffered>>

\* The query reads the latest run, closed or not.
Query(c) ==
  /\ known' = [known EXCEPT ![c] = RequestOf(request[c].id)]
  /\ exit' = [exit EXCEPT ![c] = ExitOf(request[c].id)]
  /\ UNCHANGED <<request, outcome, answer, expired, callsLeft, runVars, buffered>>

\* The query before sending: a retry finds the request already accepted.
QueryFirst(c) ==
  /\ phase[c] = "first"
  /\ Query(c)
  /\ StepTo(c, IF known'[c] = None /\ exit'[c] = None THEN "send" ELSE "check")

\* The signal is recorded; the acknowledgement may be lost.
SendSignal(c) ==
  /\ phase[c] = "send" /\ open
  /\ buffered' = Append(buffered, request[c])
  /\ \/ /\ StepTo(c, "poll")
        /\ UNCHANGED <<request, outcome, answer, known, exit, expired, callsLeft>>
     \/ End(c, "failed", None)
  /\ UNCHANGED runVars

\* The query after the signal, or after the poll interval.
QueryAgain(c) ==
  /\ phase[c] = "poll"
  /\ Query(c)
  /\ StepTo(c, "check")

\* An RPC fails: the run is closed or the server is not reached.
RpcFails(c) ==
  /\ phase[c] \in {"first", "send", "poll"}
  /\ End(c, "failed", None)
  /\ UNCHANGED <<runVars, buffered>>

\* What the loop does with a query result, in this order.
IsConflict(c) == known[c] # None /\ known[c] # request[c]

TimesOutBug(c) == expired[c]
TimesOut(c) == expired[c] /\ exit[c] = None

ReturnConflict(c) ==
  /\ phase[c] = "check" /\ IsConflict(c)
  /\ End(c, "conflict", None)
  /\ UNCHANGED <<runVars, buffered>>

ReturnAnswer(c) ==
  /\ phase[c] = "check" /\ ~IsConflict(c) /\ exit[c] # None
  /\ End(c, "answer", exit[c])
  /\ UNCHANGED <<runVars, buffered>>

ReturnTimeout(c) ==
  /\ phase[c] = "check" /\ ~IsConflict(c) /\ TimesOut(c)
  /\ End(c, "timeout", None)
  /\ UNCHANGED <<runVars, buffered>>

\* A deadline that every poll renews.
PollLaterBug(c) ==
  /\ phase[c] = "check" /\ ~IsConflict(c) /\ exit[c] = None
  /\ expired' = [expired EXCEPT ![c] = FALSE]
  /\ StepTo(c, "poll")
  /\ UNCHANGED <<request, outcome, answer, known, exit, callsLeft, runVars,
                 buffered>>

PollLater(c) ==
  /\ phase[c] = "check" /\ ~IsConflict(c) /\ exit[c] = None /\ ~expired[c]
  /\ StepTo(c, "poll")
  /\ UNCHANGED <<request, outcome, answer, known, exit, expired, callsLeft,
                 runVars, buffered>>

DeadlinePasses(c) ==
  /\ phase[c] \in {"poll", "check"} /\ ~expired[c]
  /\ expired' = [expired EXCEPT ![c] = TRUE]
  /\ UNCHANGED <<phase, request, outcome, answer, known, exit, callsLeft,
                 runVars, buffered>>

-----------------------------------------------------------------------------
ClientStep(c) ==
  \/ QueryFirst(c) \/ SendSignal(c) \/ QueryAgain(c) \/ RpcFails(c)
  \/ ReturnConflict(c) \/ ReturnAnswer(c) \/ ReturnTimeout(c) \/ PollLater(c)

Serve(f) == Take(f) \/ Block(f) \/ Unblock(f) \/ TakeNext(f)

Next ==
  \/ \E c \in Clients :
       ClientStep(c) \/ DeadlinePasses(c) \/ \E r \in Requests : Call(c, r)
  \/ \E f \in Takers : Serve(f) \/ \E a \in Answers : Respond(f, a)
  \/ HandleSignal \/ RestartPass \/ CloseRun \/ ContinueAsNew

Spec == Init /\ [][Next]_vars

\* The SDK runs the fibers and the handlers, a request that was taken is
\* answered, a call makes progress and its deadline passes.  RPCs may fail
\* and the body may suspend or end, but nothing makes them.
Fairness ==
  /\ WF_vars(HandleSignal)
  /\ \A f \in Takers : WF_vars(Serve(f)) /\ WF_vars(\E a \in Answers : Respond(f, a))
  /\ \A c \in Clients : WF_vars(ClientStep(c)) /\ WF_vars(DeadlinePasses(c))

FairSpec == Spec /\ Fairness

-----------------------------------------------------------------------------
(* Properties.                                                             *)

TypeClients ==
  /\ phase \in [Clients -> Phases]
  /\ request \in [Clients -> Requests \cup {None}]
  /\ outcome \in [Clients -> Outcomes]
  /\ answer \in [Clients -> Answers \cup {None}]
  /\ known \in [Clients -> Requests \cup {None}]
  /\ exit \in [Clients -> Answers \cup {None}]
  /\ expired \in [Clients -> BOOLEAN]
  /\ callsLeft \in [Clients -> Nat]

TypeRuns ==
  /\ run \in Runs /\ open \in BOOLEAN
  /\ buffered \in Seq(Requests)
  /\ updateRequests \in [Runs -> SUBSET Requests]
  /\ updateResults \in [Runs -> SUBSET (Ids \X Answers)]
  /\ updateLogs \in [Channels -> Seq(Requests)]

TypeFibers ==
  /\ updateCursors \in [Channels -> Nat]
  /\ \A n \in Channels : updateCursors[n] <= Len(updateLogs[n])
  /\ taker \in [Takers -> TakerStates]
  /\ at \in [Takers -> Nat]
  /\ held \in [Takers -> Requests \cup {None}]
  /\ passesLeft \in Nat

\* Type correctness; in particular take never reads beyond the end of a log.
TypeOK == TypeClients /\ TypeRuns /\ TypeFibers

\* A request id is logged once per run, whatever the number of signals that
\* carried it and the channels they named, and exactly the accepted requests
\* are logged (the two writes of the updateSignal handler).
AcceptedOnce ==
  /\ \A n, o \in Channels : \A i \in DOMAIN updateLogs[n], j \in DOMAIN updateLogs[o] :
       updateLogs[n][i].id = updateLogs[o][j].id => n = o /\ i = j
  /\ \A r \in Requests : r \in updateRequests[run] <=>
       \E i \in DOMAIN updateLogs[r.name] : updateLogs[r.name][i] = r

Serving(f) == taker[f] \in {"holding", "answered"}

\* Two fibers that take from one channel never serve the same request: take
\* reads the cursor again after its wait, and not the one it waited with.
TakenOnce ==
  \A f, g \in Takers : f # g /\ Serving(f) /\ Serving(g) => held[f] # held[g]

Answered(k, r) == \E a \in Answers : <<r.id, a>> \in updateResults[k]

\* Every request accepted on a channel that is served is answered unless its
\* run ends, also if the pass that took it suspended before it responded.
RequestsServed ==
  \A k \in Runs, r \in Requests :
    r \in updateRequests[k] /\ (\E f \in Takers : ChannelOf[f] = r.name)
      ~> Answered(k, r) \/ run # k \/ ~open

\* Every call of executeUpdate ends.
CallsReturn == \A c \in Clients : phase[c] # "idle" ~> phase[c] = "idle"

\* An answer recorded before a call's last query is never lost to its
\* deadline: the call returns it, unless an RPC fails or a new run begins.
LateAnswersReturned ==
  \A c \in Clients, k \in Runs :
    (phase[c] = "poll" /\ run = k /\ request[c] \in updateRequests[k]
       /\ Answered(k, request[c]))
      ~> outcome[c] \in {"answer", "failed"} \/ run # k

\* The promise made to callers (UpdateSpec): calls, answers and accepted
\* requests behave as if each request id were bound to one request and one
\* answer per run.
Promise == INSTANCE UpdateSpec WITH
  accepted <- {p \in Runs \X Requests : p[2] \in updateRequests[p[1]]},
  answers  <- {p \in Runs \X Ids \X Answers :
                 <<p[2], p[3]>> \in updateResults[p[1]]},
  calls    <- [c \in Clients |-> [request |-> request[c],
                                  outcome |-> outcome[c],
                                  answer  |-> answer[c]]]

KeepsPromise == Promise!Spec
=============================================================================
