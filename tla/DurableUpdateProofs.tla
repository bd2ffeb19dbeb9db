------------------------- MODULE DurableUpdateProofs -------------------------
(***************************************************************************)
(* Proofs about DurableUpdate for every set of callers, requests, fibers   *)
(* and every bound: type correctness, the safety invariants, and that it   *)
(* implements UpdateSpec.                                                  *)
(***************************************************************************)
EXTENDS DurableUpdate, SequenceTheorems, TLAPS

USE DEF clientVars, handlerVars, fiberVars, runVars, vars

\* The logs of the latest run hold each accepted request once, in the log of
\* its channel.
LogsMatch ==
  /\ \A n \in Channels : \A i \in 1..Len(updateLogs[n]) :
       updateLogs[n][i] \in updateRequests[run] /\ updateLogs[n][i].name = n
  /\ \A n, o \in Channels :
       \A i \in 1..Len(updateLogs[n]), j \in 1..Len(updateLogs[o]) :
         updateLogs[n][i].id = updateLogs[o][j].id => n = o /\ i = j
  /\ \A r \in updateRequests[run] :
       \E i \in 1..Len(updateLogs[r.name]) : updateLogs[r.name][i] = r

\* What a fiber serves was taken from its log in this pass.
HeldTaken ==
  \A f \in Takers : Serving(f) =>
    \E i \in 1..updateCursors[ChannelOf[f]] : held[f] = updateLogs[ChannelOf[f]][i]

\* Later runs are still empty; only accepted requests have answers.
RunsInOrder ==
  /\ \A k \in Runs : k > run => updateRequests[k] = {}
  /\ \A k \in Runs : \A id \in Ids, a \in Answers :
       <<id, a>> \in updateResults[k] => \E r \in updateRequests[k] : r.id = id

\* A query result was true in some run, and still is.
KnownIn(c, k) ==
  /\ known[c] # None => known[c] \in updateRequests[k] /\ known[c].id = request[c].id
  /\ exit[c] # None => known[c] # None /\ <<request[c].id, exit[c]>> \in updateResults[k]

CallsInOrder ==
  \A c \in Clients :
    /\ phase[c] = "idle" <=> outcome[c] # "pending"
    /\ phase[c] # "idle" => request[c] \in Requests
    /\ phase[c] = "check" => \E k \in 1..run : KnownIn(c, k)

IInv == TypeOK /\ LogsMatch /\ HeldTaken /\ RunsInOrder /\ CallsInOrder

-----------------------------------------------------------------------------
\* The first run is a run.
LEMMA RunsNonEmpty == 1 \in Runs /\ Runs \subseteq Nat
  BY BoundsAssumption DEF Runs

\* The invariant holds initially.
LEMMA InitIInv == Init => IInv
<1> SUFFICES ASSUME Init PROVE IInv
  OBVIOUS
<1>1. TypeClients
  BY BoundsAssumption DEF Init, TypeClients, Phases, Outcomes
<1>2. TypeRuns
  BY RunsNonEmpty DEF Init, TypeRuns, NoMessages
<1>3. TypeFibers
  BY BoundsAssumption DEF Init, TypeFibers, NoMessages, NoCursors, TakerStates
<1>4. LogsMatch
  BY RunsNonEmpty DEF Init, LogsMatch, NoMessages
<1>5. HeldTaken
  BY DEF Init, HeldTaken, Serving
<1>6. RunsInOrder
  BY DEF Init, RunsInOrder
<1>7. CallsInOrder
  BY DEF Init, CallsInOrder
<1>8. QED
  BY <1>1, <1>2, <1>3, <1>4, <1>5, <1>6, <1>7 DEF IInv, TypeOK

-----------------------------------------------------------------------------
\* The steps of a client leave the run alone.
ClientMoves(c) ==
  ClientStep(c) \/ DeadlinePasses(c) \/ \E r \in Requests : Call(c, r)

\* No step of a client changes the state of a run.
LEMMA ClientLeavesRun ==
  ASSUME NEW c \in Clients, ClientMoves(c)
  PROVE  UNCHANGED runVars
BY DEF ClientMoves, ClientStep, DeadlinePasses, Call, QueryFirst, SendSignal,
       QueryAgain, RpcFails, ReturnConflict, ReturnAnswer, ReturnTimeout,
       PollLater, Query, End, StepTo

\* What the query of a known id returns.
LEMMA QueryResult ==
  ASSUME IInv, NEW id \in Ids
  PROVE  /\ RequestOf(id) \in Requests \cup {None}
         /\ RequestOf(id) # None =>
              RequestOf(id) \in updateRequests[run] /\ RequestOf(id).id = id
         /\ ExitOf(id) \in Answers \cup {None}
         /\ ExitOf(id) # None =>
              RequestOf(id) # None /\ <<id, ExitOf(id)>> \in updateResults[run]
<1>1. run \in Runs /\ updateRequests[run] \subseteq Requests
  BY DEF IInv, TypeOK, TypeRuns
<1>2. (\E r \in updateRequests[run] : r.id = id) =>
        RequestOf(id) \in updateRequests[run] /\ RequestOf(id).id = id
  BY DEF RequestOf
<1>3. ~(\E r \in updateRequests[run] : r.id = id) => RequestOf(id) = None
  BY DEF RequestOf
<1>4. (\E a \in Answers : <<id, a>> \in updateResults[run]) =>
        ExitOf(id) \in Answers /\ <<id, ExitOf(id)>> \in updateResults[run]
  BY DEF ExitOf
<1>5. ~(\E a \in Answers : <<id, a>> \in updateResults[run]) => ExitOf(id) = None
  BY DEF ExitOf
<1>6. (\E a \in Answers : <<id, a>> \in updateResults[run]) =>
        \E r \in updateRequests[run] : r.id = id
  BY <1>1 DEF IInv, RunsInOrder
<1>7. QED
  BY <1>1, <1>2, <1>3, <1>4, <1>5, <1>6, NoneAssumption

\* A query leaves its caller with a result that is true in the latest run.
LEMMA QueryKnown ==
  ASSUME IInv, NEW c \in Clients, phase[c] # "idle", Query(c)
  PROVE  /\ known' \in [Clients -> Requests \cup {None}]
         /\ exit' \in [Clients -> Answers \cup {None}]
         /\ KnownIn(c, run)'
<1> DEFINE id == request[c].id
<1>1. request[c] \in Requests /\ id \in Ids
  BY RequestsAssumption DEF IInv, CallsInOrder
<1>2. known'[c] = RequestOf(id) /\ exit'[c] = ExitOf(id)
  BY DEF Query, IInv, TypeOK, TypeClients
<1>3. QED
  BY <1>1, <1>2, QueryResult DEF Query, KnownIn, IInv, TypeOK, TypeClients

\* A client's step keeps the invariant: what it read of a run stays true, for
\* the requests and answers of a run only grow.
LEMMA ClientIInv ==
  ASSUME IInv, NEW c \in Clients, ClientMoves(c)
  PROVE  IInv'
<1>1. UNCHANGED runVars
  BY ClientLeavesRun
<1>2. TypeClients'
  <2>1. CASE QueryFirst(c) \/ QueryAgain(c)
    <3>1. Query(c) /\ phase[c] # "idle" /\ \E p \in Phases : StepTo(c, p)
      BY <2>1 DEF QueryFirst, QueryAgain, Phases
    <3>2. /\ known' \in [Clients -> Requests \cup {None}]
          /\ exit' \in [Clients -> Answers \cup {None}]
      BY <3>1, QueryKnown
    <3>3. phase' \in [Clients -> Phases]
      BY <3>1 DEF StepTo, IInv, TypeOK, TypeClients
    <3>4. QED
      BY <3>1, <3>2, <3>3 DEF Query, IInv, TypeOK, TypeClients
  <2>2. CASE SendSignal(c) \/ RpcFails(c) \/ ReturnConflict(c) \/ ReturnTimeout(c)
    BY <2>2 DEF SendSignal, RpcFails, ReturnConflict, ReturnTimeout, End, StepTo,
       IInv, TypeOK, TypeClients, Phases, Outcomes
  <2>3. CASE ReturnAnswer(c)
    BY <2>3 DEF ReturnAnswer, End, StepTo, IInv, TypeOK, TypeClients, Phases, Outcomes
  <2>4. CASE PollLater(c) \/ DeadlinePasses(c)
    BY <2>4 DEF PollLater, DeadlinePasses, StepTo, IInv, TypeOK, TypeClients, Phases
  <2>5. ASSUME NEW r \in Requests, Call(c, r) PROVE TypeClients'
    BY <2>5 DEF Call, StepTo, IInv, TypeOK, TypeClients, Phases, Outcomes
  <2>6. QED
    BY <2>1, <2>2, <2>3, <2>4, <2>5 DEF ClientMoves, ClientStep
<1>3. TypeRuns'
  <2>1. CASE SendSignal(c)
    <3>1. request[c] \in Requests
      BY <2>1 DEF SendSignal, IInv, CallsInOrder
    <3>2. buffered' \in Seq(Requests)
      BY <2>1, <3>1, AppendProperties DEF SendSignal, IInv, TypeOK, TypeRuns
    <3>3. QED
      BY <3>2, <1>1 DEF IInv, TypeOK, TypeRuns
  <2>2. CASE ~SendSignal(c)
    <3>1. UNCHANGED buffered
      BY <2>2 DEF ClientMoves, ClientStep, DeadlinePasses, Call, QueryFirst, QueryAgain,
         RpcFails, ReturnConflict, ReturnAnswer, ReturnTimeout, PollLater, Query
    <3>2. QED
      BY <3>1, <1>1 DEF IInv, TypeOK, TypeRuns
  <2>3. QED
    BY <2>1, <2>2
<1>4. TypeFibers' /\ LogsMatch' /\ HeldTaken' /\ RunsInOrder'
  <2>1. TypeFibers'
    BY <1>1 DEF IInv, TypeOK, TypeFibers
  <2>2. LogsMatch'
    BY <1>1 DEF IInv, LogsMatch
  <2>3. HeldTaken'
    BY <1>1 DEF IInv, HeldTaken, Serving
  <2>4. RunsInOrder'
    BY <1>1 DEF IInv, RunsInOrder
  <2>5. QED
    BY <2>1, <2>2, <2>3, <2>4
<1>5. CallsInOrder'
  <2> SUFFICES ASSUME NEW d \in Clients
               PROVE  /\ phase'[d] = "idle" <=> outcome'[d] # "pending"
                      /\ phase'[d] # "idle" => request'[d] \in Requests
                      /\ phase'[d] = "check" => \E k \in 1..run' : KnownIn(d, k)'
    BY DEF CallsInOrder
  <2>1. CASE d # c
    <3>1. /\ phase'[d] = phase[d] /\ outcome'[d] = outcome[d]
          /\ request'[d] = request[d] /\ known'[d] = known[d] /\ exit'[d] = exit[d]
      BY <2>1 DEF ClientMoves, ClientStep, DeadlinePasses, Call, QueryFirst, SendSignal,
         QueryAgain, RpcFails, ReturnConflict, ReturnAnswer, ReturnTimeout,
         PollLater, Query, End, StepTo, IInv, TypeOK, TypeClients
    <3>2. QED
      BY <3>1, <1>1 DEF IInv, CallsInOrder, KnownIn
  <2>2. CASE d = c /\ (QueryFirst(c) \/ QueryAgain(c))
    <3>1. KnownIn(c, run)' /\ run \in 1..run /\ run' = run
      BY <2>2, <1>1, QueryKnown, RunsNonEmpty DEF QueryFirst, QueryAgain, IInv, TypeOK,
         TypeRuns, Runs
    <3>2. QED
      BY <2>2, <3>1 DEF QueryFirst, QueryAgain, Query, StepTo, IInv, TypeOK,
         TypeClients, CallsInOrder
  <2>3. CASE d = c /\ (SendSignal(c) \/ RpcFails(c) \/ ReturnConflict(c)
                         \/ ReturnAnswer(c) \/ ReturnTimeout(c))
    BY <2>3 DEF SendSignal, RpcFails, ReturnConflict, ReturnAnswer, ReturnTimeout, End,
       StepTo, IInv, TypeOK, TypeClients, CallsInOrder
  <2>4. CASE d = c /\ (PollLater(c) \/ DeadlinePasses(c))
    BY <2>4, <1>1 DEF PollLater, DeadlinePasses, StepTo, IInv, TypeOK, TypeClients,
       CallsInOrder, KnownIn
  <2>5. CASE d = c /\ \E r \in Requests : Call(c, r)
    BY <2>5 DEF Call, StepTo, IInv, TypeOK, TypeClients, CallsInOrder
  <2>6. QED
    BY <2>1, <2>2, <2>3, <2>4, <2>5 DEF ClientMoves, ClientStep
<1>6. QED
  BY <1>2, <1>3, <1>4, <1>5 DEF IInv, TypeOK

-----------------------------------------------------------------------------
\* The fibers leave the calls, the logs and the run alone.
FiberMoves(f) == Serve(f) \/ \E a \in Answers : Respond(f, a)

\* No step of a fiber changes what was accepted or what callers know.
LEMMA FiberLeavesLogs ==
  ASSUME NEW f \in Takers, FiberMoves(f)
  PROVE  UNCHANGED <<clientVars, handlerVars, run, open, buffered, passesLeft>>
BY DEF FiberMoves, Serve, Take, Block, Unblock, TakeNext, Respond

\* A fiber that is serving serves an accepted request.
LEMMA HeldAccepted ==
  ASSUME IInv, NEW f \in Takers, Serving(f)
  PROVE  held[f] \in updateRequests[run] /\ held[f] \in Requests
<1>1. PICK i \in 1..updateCursors[ChannelOf[f]] : held[f] = updateLogs[ChannelOf[f]][i]
  BY DEF IInv, HeldTaken
<1>2. ChannelOf[f] \in Channels /\ i \in 1..Len(updateLogs[ChannelOf[f]])
  BY ChannelOfAssumption DEF IInv, TypeOK, TypeFibers, TypeRuns
<1>3. held[f] \in updateRequests[run]
  BY <1>1, <1>2 DEF IInv, LogsMatch
<1>4. QED
  BY <1>3 DEF IInv, TypeOK, TypeRuns

\* A fiber's step keeps the invariant: only its own state, its cursor and the
\* answers change.
LEMMA FiberIInv ==
  ASSUME IInv, NEW f \in Takers, FiberMoves(f)
  PROVE  IInv'
<1> DEFINE n == ChannelOf[f]
<1> USE FiberLeavesLogs
<1>1. n \in Channels
  BY ChannelOfAssumption
<1>2. TypeClients' /\ CallsInOrder' /\ LogsMatch'
  <2>1. TypeClients' /\ LogsMatch'
    <3>1. TypeClients'
      BY DEF IInv, TypeOK, TypeClients
    <3>2. LogsMatch'
      BY DEF IInv, LogsMatch
    <3>3. QED
      BY <3>1, <3>2
  <2>2. UNCHANGED updateResults \/ \E a \in Answers : Respond(f, a)
    BY DEF FiberMoves, Serve, Take, Block, Unblock, TakeNext
  <2>3. run \in Runs /\ run \in Nat /\ run' = run
    BY RunsNonEmpty DEF IInv, TypeOK, TypeRuns
  <2>4. \A k \in 1..run : updateResults[k] \subseteq updateResults'[k]
    <3>1. 1..run \subseteq Runs
      BY <2>3, BoundsAssumption DEF Runs
    <3>2. QED
      BY <2>2, <3>1 DEF Respond, Record, IInv, TypeOK, TypeRuns
  <2>5. CallsInOrder'
    BY <2>3, <2>4 DEF IInv, CallsInOrder, KnownIn
  <2>6. QED
    BY <2>1, <2>5
<1>3. TypeRuns' /\ RunsInOrder'
  <2>1. CASE UNCHANGED updateResults
    BY <2>1 DEF IInv, TypeOK, TypeRuns, RunsInOrder
  <2>2. ASSUME NEW a \in Answers, Respond(f, a), ~UNCHANGED updateResults
        PROVE  TypeRuns' /\ RunsInOrder'
    <3>1. held[f] \in updateRequests[run] /\ held[f].id \in Ids
      BY <2>2, HeldAccepted, RequestsAssumption DEF Respond, Serving
    <3>2. updateResults' = [updateResults EXCEPT ![run] = @ \cup {<<held[f].id, a>>}]
      BY <2>2 DEF Respond, Record
    <3>3. TypeRuns'
      BY <3>1, <3>2 DEF IInv, TypeOK, TypeRuns
    <3>4. ASSUME NEW k \in Runs, NEW id \in Ids, NEW b \in Answers,
                 <<id, b>> \in updateResults'[k]
          PROVE  \E r \in updateRequests[k] : r.id = id
      BY <3>1, <3>2, <3>4 DEF IInv, TypeOK, TypeRuns, RunsInOrder
    <3>5. QED
      BY <3>3, <3>4 DEF IInv, RunsInOrder
  <2>3. QED
    BY <2>1, <2>2 DEF FiberMoves, Serve, Take, Block, Unblock, TakeNext
<1>4. TypeFibers'
  <2>1. CASE Take(f)
    <3>1. updateLogs[n][updateCursors[n] + 1] \in Requests
      BY <2>1, <1>1 DEF Take, HasRequest, Cursor, LogOf, IInv, TypeOK, TypeRuns, TypeFibers
    <3>2. QED
      BY <2>1, <1>1, <3>1 DEF Take, HasRequest, Cursor, LogOf, Goes, TakerStates, IInv,
         TypeOK, TypeRuns, TypeFibers
  <2>2. CASE Block(f) \/ Unblock(f) \/ TakeNext(f) \/ \E a \in Answers : Respond(f, a)
    <3>1. UNCHANGED updateCursors /\ taker' \in [Takers -> TakerStates]
      BY <2>2 DEF Block, Unblock, TakeNext, Respond, Goes, TakerStates, IInv, TypeOK,
         TypeFibers
    <3>2. at' \in [Takers -> Nat] /\ held' \in [Takers -> Requests \cup {None}]
      BY <2>2, <1>1 DEF Block, Unblock, TakeNext, Respond, Cursor, IInv, TypeOK, TypeFibers
    <3>3. QED
      BY <3>1, <3>2 DEF IInv, TypeOK, TypeFibers
  <2>3. QED
    BY <2>1, <2>2 DEF FiberMoves, Serve
<1>5. HeldTaken'
  <2> SUFFICES ASSUME NEW g \in Takers, Serving(g)'
               PROVE  \E i \in 1..updateCursors'[ChannelOf[g]] :
                        held'[g] = updateLogs'[ChannelOf[g]][i]
    BY DEF HeldTaken
  <2>1. CASE Take(f)
    <3>1. /\ updateCursors[n] \in Nat /\ updateCursors'[n] = updateCursors[n] + 1
          /\ \A o \in Channels : o # n => updateCursors'[o] = updateCursors[o]
          /\ held'[f] = updateLogs[n][updateCursors[n] + 1]
          /\ g # f => held'[g] = held[g] /\ Serving(g)
      BY <2>1, <1>1 DEF Take, Cursor, LogOf, Goes, Serving, IInv, TypeOK, TypeFibers
    <3>2. CASE g = f
      BY <3>1, <3>2
    <3>3. CASE g # f
      <4>1. PICK i \in 1..updateCursors[ChannelOf[g]] :
                   held[g] = updateLogs[ChannelOf[g]][i]
        BY <3>1, <3>3 DEF IInv, HeldTaken
      <4>2. ChannelOf[g] \in Channels /\ updateCursors[ChannelOf[g]] \in Nat
        BY ChannelOfAssumption DEF IInv, TypeOK, TypeFibers
      <4>3. i \in 1..updateCursors'[ChannelOf[g]]
        BY <4>1, <4>2, <3>1
      <4>4. QED
        BY <3>1, <3>3, <4>1, <4>3
    <3>4. QED
      BY <3>2, <3>3
  <2>2. CASE Block(f) \/ Unblock(f) \/ TakeNext(f) \/ \E a \in Answers : Respond(f, a)
    <3>1. Serving(g) /\ held'[g] = held[g] /\ UNCHANGED updateCursors
      BY <2>2 DEF Block, Unblock, TakeNext, Respond, Goes, Serving, IInv, TypeOK, TypeFibers
    <3>2. QED
      BY <3>1 DEF IInv, HeldTaken
  <2>3. QED
    BY <2>1, <2>2 DEF FiberMoves, Serve
<1>6. QED
  BY <1>2, <1>3, <1>4, <1>5 DEF IInv, TypeOK

-----------------------------------------------------------------------------
\* The logs once a request has been accepted: one log is longer by one.
LEMMA HandleSignalLogs ==
  ASSUME IInv, HandleSignal
  PROVE  LogsMatch' /\ TypeRuns'
<1> DEFINE r == Head(buffered)
           Len_(n) == Len(updateLogs[n])
<1>1. r \in Requests /\ r.name \in Channels /\ buffered' \in Seq(Requests)
  BY HeadTailProperties, RequestsAssumption DEF HandleSignal, IInv, TypeOK, TypeRuns
<1>2. run \in Runs /\ run' = run
  BY DEF HandleSignal, IInv, TypeOK, TypeRuns
<1>3. CASE ~Acceptable(r)
  <2>1. UNCHANGED <<updateRequests, updateLogs, updateResults, open>>
    BY <1>3 DEF HandleSignal
  <2>2. QED
    BY <1>1, <1>2, <2>1 DEF LogsMatch, IInv, TypeOK, TypeRuns
<1>4. CASE Acceptable(r)
  <2>1. /\ updateRequests' = [updateRequests EXCEPT ![run] = @ \cup {r}]
        /\ updateLogs' = [updateLogs EXCEPT ![r.name] = Append(@, r)]
        /\ UNCHANGED <<updateResults, open>>
    BY <1>4 DEF HandleSignal
  <2>2. \A n \in Channels : updateLogs[n] \in Seq(Requests) /\ Len_(n) \in Nat
    BY DEF IInv, TypeOK, TypeRuns
  <2>3. /\ updateRequests'[run] = updateRequests[run] \cup {r}
        /\ updateLogs'[r.name] = Append(updateLogs[r.name], r)
        /\ \A n \in Channels : n # r.name => updateLogs'[n] = updateLogs[n]
    BY <1>1, <1>2, <2>1 DEF IInv, TypeOK, TypeRuns
  <2>4. TypeRuns'
    <3>1. Append(updateLogs[r.name], r) \in Seq(Requests)
      BY <1>1, <2>2, AppendProperties
    <3>2. QED
      BY <1>1, <1>2, <2>1, <3>1 DEF IInv, TypeOK, TypeRuns
  <2>5. /\ Len(updateLogs'[r.name]) = Len_(r.name) + 1
        /\ updateLogs'[r.name][Len_(r.name) + 1] = r
        /\ \A i \in 1..Len_(r.name) : updateLogs'[r.name][i] = updateLogs[r.name][i]
    BY <1>1, <2>2, <2>3, AppendProperties
  \* Every entry of the new logs is an old entry or the new request.
  <2>6. ASSUME NEW n \in Channels, NEW i \in 1..Len(updateLogs'[n])
        PROVE  \/ /\ i \in 1..Len_(n) /\ updateLogs'[n][i] = updateLogs[n][i]
                  /\ updateLogs[n][i] \in updateRequests[run]
                  /\ updateLogs[n][i].name = n /\ updateLogs[n][i].id # r.id
               \/ /\ n = r.name /\ i = Len_(n) + 1 /\ updateLogs'[n][i] = r
    <3>1. i \in 1..Len_(n) \/ (n = r.name /\ i = Len_(n) + 1)
      BY <2>2, <2>3, <2>5
    <3>2. ASSUME i \in 1..Len_(n)
          PROVE  /\ updateLogs'[n][i] = updateLogs[n][i]
                 /\ updateLogs[n][i] \in updateRequests[run]
                 /\ updateLogs[n][i].name = n
      BY <2>3, <2>5, <3>2 DEF IInv, LogsMatch
    <3>3. QED
      BY <1>4, <2>5, <3>1, <3>2 DEF Acceptable
  <2>7. ASSUME NEW n \in Channels, NEW i \in 1..Len(updateLogs'[n])
        PROVE  updateLogs'[n][i] \in updateRequests'[run'] /\ updateLogs'[n][i].name = n
    BY <1>2, <2>3, <2>6
  <2>8. ASSUME NEW n \in Channels, NEW o \in Channels,
               NEW i \in 1..Len(updateLogs'[n]), NEW j \in 1..Len(updateLogs'[o]),
               updateLogs'[n][i].id = updateLogs'[o][j].id
        PROVE  n = o /\ i = j
    <3>1. CASE updateLogs'[n][i] = r \/ updateLogs'[o][j] = r
      BY <2>6, <2>8, <3>1
    <3>2. CASE updateLogs'[n][i] # r /\ updateLogs'[o][j] # r
      <4>1. /\ i \in 1..Len_(n) /\ updateLogs'[n][i] = updateLogs[n][i]
            /\ j \in 1..Len_(o) /\ updateLogs'[o][j] = updateLogs[o][j]
        BY <2>6, <3>2
      <4>2. QED
        BY <2>8, <4>1 DEF IInv, LogsMatch
    <3>3. QED
      BY <3>1, <3>2
  <2>9. ASSUME NEW s \in updateRequests'[run']
        PROVE  \E i \in 1..Len(updateLogs'[s.name]) : updateLogs'[s.name][i] = s
    <3>1. CASE s = r
      BY <1>1, <2>2, <2>5, <3>1
    <3>2. CASE s # r
      <4>1. s \in updateRequests[run] /\ s.name \in Channels
        BY <1>2, <2>3, <3>2, RequestsAssumption DEF IInv, TypeOK, TypeRuns
      <4>2. PICK i \in 1..Len_(s.name) : updateLogs[s.name][i] = s
        BY <4>1 DEF IInv, LogsMatch
      <4>3. i \in 1..Len(updateLogs'[s.name]) /\ updateLogs'[s.name][i] = s
        BY <2>2, <2>3, <2>5, <4>1, <4>2
      <4>4. QED
        BY <4>3
    <3>3. QED
      BY <3>1, <3>2
  <2>10. QED
    BY <2>4, <2>7, <2>8, <2>9 DEF LogsMatch
<1>5. QED
  BY <1>3, <1>4

\* Accepting a request keeps every entry of every log where it was.
LEMMA LogsGrow ==
  ASSUME IInv, HandleSignal, NEW n \in Channels
  PROVE  /\ Len(updateLogs[n]) \in Nat /\ Len(updateLogs'[n]) \in Nat
         /\ Len(updateLogs[n]) <= Len(updateLogs'[n])
         /\ \A i \in 1..Len(updateLogs[n]) : updateLogs'[n][i] = updateLogs[n][i]
<1> DEFINE r == Head(buffered)
<1>1. r \in Requests /\ r.name \in Channels
  BY HeadTailProperties, RequestsAssumption DEF HandleSignal, IInv, TypeOK, TypeRuns
<1>2. updateLogs[n] \in Seq(Requests)
  BY DEF IInv, TypeOK, TypeRuns
<1>3. updateLogs'[n] = updateLogs[n] \/ updateLogs'[n] = Append(updateLogs[n], r)
  BY <1>1 DEF HandleSignal, IInv, TypeOK, TypeRuns
<1>4. QED
  BY <1>1, <1>2, <1>3, AppendProperties

\* Handling a signal keeps the invariant.
LEMMA HandleSignalIInv ==
  ASSUME IInv, HandleSignal
  PROVE  IInv'
<1>1. UNCHANGED <<clientVars, updateResults, fiberVars, run, open>>
  BY DEF HandleSignal
<1>2. /\ \A k \in Runs : \A r \in updateRequests[k] : r \in updateRequests'[k]
      /\ \A k \in Runs : k # run => updateRequests'[k] = updateRequests[k]
  BY DEF HandleSignal, IInv, TypeOK, TypeRuns
<1>3. TypeClients'
  BY <1>1 DEF IInv, TypeOK, TypeClients
<1>4. TypeFibers'
  <2>1. \A n \in Channels : updateCursors'[n] <= Len(updateLogs'[n])
    <3> SUFFICES ASSUME NEW n \in Channels PROVE updateCursors'[n] <= Len(updateLogs'[n])
      OBVIOUS
    <3>1. QED
      BY <1>1, LogsGrow DEF IInv, TypeOK, TypeFibers
  <2>2. QED
    BY <1>1, <2>1 DEF IInv, TypeOK, TypeFibers
<1>5. HeldTaken'
  <2> SUFFICES ASSUME NEW f \in Takers, Serving(f)'
               PROVE  \E i \in 1..updateCursors'[ChannelOf[f]] :
                        held'[f] = updateLogs'[ChannelOf[f]][i]
    BY DEF HeldTaken
  <2> DEFINE n == ChannelOf[f]
  <2>1. n \in Channels /\ updateCursors[n] \in Nat /\ updateCursors[n] <= Len(updateLogs[n])
    BY ChannelOfAssumption DEF IInv, TypeOK, TypeFibers
  <2>2. PICK i \in 1..updateCursors[n] : held[f] = updateLogs[n][i]
    BY <1>1 DEF IInv, HeldTaken, Serving
  <2>3. updateLogs'[n][i] = updateLogs[n][i]
    BY <2>1, <2>2, LogsGrow
  <2>4. QED
    BY <1>1, <2>2, <2>3
<1>6. RunsInOrder'
  <2>1. run \in Nat /\ Runs \subseteq Nat /\ run' = run
    BY <1>1, RunsNonEmpty DEF IInv, TypeOK, TypeRuns
  <2>2. \A k \in Runs : k > run => updateRequests'[k] = {}
    BY <1>2, <2>1 DEF IInv, RunsInOrder
  <2>3. \A k \in Runs : \A id \in Ids, a \in Answers :
          <<id, a>> \in updateResults[k] => \E r \in updateRequests'[k] : r.id = id
    <3> SUFFICES ASSUME NEW k \in Runs, NEW id \in Ids, NEW a \in Answers,
                        <<id, a>> \in updateResults[k]
                 PROVE  \E r \in updateRequests'[k] : r.id = id
      OBVIOUS
    <3>1. PICK r \in updateRequests[k] : r.id = id
      BY DEF IInv, RunsInOrder
    <3>2. QED
      BY <1>2, <3>1
  <2>4. QED
    BY <1>1, <2>1, <2>2, <2>3 DEF RunsInOrder
<1>7. CallsInOrder'
  <2>1. 1..run \subseteq Runs
    BY BoundsAssumption DEF IInv, TypeOK, TypeRuns, Runs
  <2>2. QED
    <3>1. ASSUME NEW c \in Clients, NEW k \in 1..run, KnownIn(c, k)
          PROVE  KnownIn(c, k)'
      <4>1. k \in Runs /\ \A r \in updateRequests[k] : r \in updateRequests'[k]
        BY <1>2, <2>1
      <4>2. UNCHANGED <<known, exit, request, updateResults>>
        BY <1>1
      <4>3. QED
        BY <3>1, <4>1, <4>2 DEF KnownIn
    <3>2. QED
      BY <1>1, <3>1 DEF IInv, CallsInOrder
<1>8. QED
  BY <1>3, <1>4, <1>5, <1>6, <1>7, HandleSignalLogs DEF IInv, TypeOK

-----------------------------------------------------------------------------
\* The end of a pass or of a run stops every fiber from serving.
LEMMA BodyIInv ==
  ASSUME IInv, RestartPass \/ CloseRun \/ ContinueAsNew
  PROVE  IInv'
<1>1. UNCHANGED <<clientVars, updateRequests, updateResults, buffered>>
  BY DEF RestartPass, CloseRun, ContinueAsNew
<1>2. run \in Runs /\ run' \in Runs /\ run \in Nat /\ (run' = run \/ run' = run + 1)
  BY BoundsAssumption DEF RestartPass, CloseRun, ContinueAsNew, IInv, TypeOK, TypeRuns, Runs
<1>3. TypeClients'
  BY <1>1 DEF IInv, TypeOK, TypeClients
<1>4. TypeRuns'
  BY <1>1, <1>2 DEF RestartPass, CloseRun, ContinueAsNew, NoMessages, IInv, TypeOK, TypeRuns
<1>5. TypeFibers'
  <2>1. CASE RestartPass
    BY <2>1 DEF RestartPass, ResetCursors, StartFibers, NoCursors, TakerStates, IInv,
       TypeOK, TypeRuns, TypeFibers
  <2>2. CASE CloseRun
    BY <2>2 DEF CloseRun, TakerStates, IInv, TypeOK, TypeRuns, TypeFibers
  <2>3. CASE ContinueAsNew
    BY <2>3, BoundsAssumption DEF ContinueAsNew, ResetCursors, StartFibers, NoCursors,
       NoMessages, TakerStates, IInv, TypeOK, TypeRuns, TypeFibers
  <2>4. QED
    BY <2>1, <2>2, <2>3
<1>6. LogsMatch'
  <2>1. CASE RestartPass \/ CloseRun
    BY <2>1 DEF RestartPass, CloseRun, IInv, LogsMatch
  <2>2. CASE ContinueAsNew
    <3>1. updateRequests'[run'] = {}
      BY <1>1, <1>2, <2>2 DEF ContinueAsNew, IInv, RunsInOrder
    <3>2. updateLogs' = [n \in Channels |-> <<>>]
      BY <2>2 DEF ContinueAsNew, NoMessages
    <3>3. QED
      BY <3>1, <3>2 DEF LogsMatch
  <2>3. QED
    BY <2>1, <2>2
<1>7. HeldTaken'
  BY DEF RestartPass, CloseRun, ContinueAsNew, StartFibers, HeldTaken, Serving
<1>8. RunsInOrder'
  BY <1>1, <1>2 DEF IInv, RunsInOrder, Runs
<1>9. CallsInOrder'
  BY <1>1, <1>2 DEF IInv, CallsInOrder, KnownIn
<1>10. QED
  BY <1>3, <1>4, <1>5, <1>6, <1>7, <1>8, <1>9 DEF IInv, TypeOK

\* Every step keeps the invariant.
LEMMA NextIInv == IInv /\ [Next]_vars => IInv'
<1> SUFFICES ASSUME IInv, [Next]_vars PROVE IInv'
  OBVIOUS
<1>1. CASE UNCHANGED vars
  BY <1>1 DEF IInv, TypeOK, TypeClients, TypeRuns, TypeFibers, LogsMatch, HeldTaken,
     Serving, RunsInOrder, CallsInOrder, KnownIn
<1>2. ASSUME NEW c \in Clients, ClientMoves(c) PROVE IInv'
  BY <1>2, ClientIInv
<1>3. ASSUME NEW f \in Takers, FiberMoves(f) PROVE IInv'
  BY <1>3, FiberIInv
<1>4. CASE HandleSignal
  BY <1>4, HandleSignalIInv
<1>5. CASE RestartPass \/ CloseRun \/ ContinueAsNew
  BY <1>5, BodyIInv
<1>6. QED
  BY <1>1, <1>2, <1>3, <1>4, <1>5 DEF Next, ClientMoves, FiberMoves

\* The invariant holds in every reachable state.
LEMMA Inductive == Spec => []IInv
<1>1. IInv /\ [Next]_vars => IInv'
  BY NextIInv
<1>2. QED
  BY InitIInv, <1>1, PTL DEF Spec

-----------------------------------------------------------------------------
\* Every variable of the callers, the runs and the fibers keeps its type, and
\* take never moves a cursor beyond its log.
THEOREM UpdateTypeCorrect == Spec => []TypeOK
<1>1. IInv => TypeOK
  BY DEF IInv
<1>2. QED
  BY <1>1, Inductive, PTL

\* The handler of updateSignal logs each request id once per run.
THEOREM RequestsAcceptedOnce == Spec => []AcceptedOnce
<1>1. ASSUME IInv PROVE AcceptedOnce
  <2>1. \A n \in Channels : DOMAIN updateLogs[n] = 1..Len(updateLogs[n])
    BY DEF IInv, TypeOK, TypeRuns
  <2>2. \A n, o \in Channels : \A i \in DOMAIN updateLogs[n], j \in DOMAIN updateLogs[o] :
          updateLogs[n][i].id = updateLogs[o][j].id => n = o /\ i = j
    BY <1>1, <2>1 DEF IInv, LogsMatch
  <2>3. ASSUME NEW r \in Requests
        PROVE  r \in updateRequests[run] <=>
                 \E i \in DOMAIN updateLogs[r.name] : updateLogs[r.name][i] = r
    <3>1. r.name \in Channels
      BY RequestsAssumption
    <3>2. QED
      BY <1>1, <2>1, <3>1 DEF IInv, LogsMatch
  <2>4. QED
    BY <2>2, <2>3 DEF AcceptedOnce
<1>2. QED
  BY <1>1, Inductive, PTL

\* Two fibers that serve hold different requests: a taken request lies below
\* the cursor of its log, and each request lies in one place of one log.
TakenInv == IInv /\ TakenOnce

\* The request at the cursor is served by no fiber: what a fiber serves stands
\* before the cursor, and the log of a channel holds a request once.
LEMMA TakeIsNew ==
  ASSUME IInv, NEW f \in Takers, Take(f), NEW g \in Takers, g # f, Serving(g)
  PROVE  held[g] # held'[f]
<1> DEFINE n == ChannelOf[f]
           o == ChannelOf[g]
<1>1. n \in Channels /\ o \in Channels
  BY ChannelOfAssumption
<1>2. /\ updateCursors[n] \in Nat /\ updateCursors[n] < Len(updateLogs[n])
      /\ updateCursors[o] \in Nat /\ updateCursors[o] <= Len(updateLogs[o])
      /\ Len(updateLogs[n]) \in Nat /\ Len(updateLogs[o]) \in Nat
      /\ held'[f] = updateLogs[n][updateCursors[n] + 1]
  BY <1>1 DEF Take, HasRequest, Cursor, LogOf, IInv, TypeOK, TypeRuns, TypeFibers
<1>3. PICK i \in 1..updateCursors[o] : held[g] = updateLogs[o][i]
  BY DEF IInv, HeldTaken
<1>4. i \in 1..Len(updateLogs[o]) /\ updateCursors[n] + 1 \in 1..Len(updateLogs[n])
  BY <1>2, <1>3
<1>5. ~(n = o /\ i = updateCursors[n] + 1)
  BY <1>2, <1>3
<1>6. updateLogs[o][i].id # updateLogs[n][updateCursors[n] + 1].id
  BY <1>1, <1>4, <1>5 DEF IInv, LogsMatch
<1>7. QED
  BY <1>2, <1>3, <1>6

\* Every step keeps TakenOnce, given the invariant.
LEMMA NextTakenOnce == TakenInv /\ [Next]_vars => TakenInv'
<1> SUFFICES ASSUME IInv, TakenOnce, [Next]_vars PROVE TakenOnce'
  BY NextIInv DEF TakenInv
<1>1. ASSUME NEW f \in Takers, Take(f) PROVE TakenOnce'
  <2>1. \A g \in Takers : g # f => held'[g] = held[g] /\ (Serving(g)' => Serving(g))
    BY <1>1 DEF Take, Goes, Serving, IInv, TypeOK, TypeFibers
  <2>2. QED
    BY <1>1, <2>1, TakeIsNew DEF TakenOnce
<1>2. ASSUME NEW f \in Takers,
             Block(f) \/ Unblock(f) \/ TakeNext(f) \/ \E a \in Answers : Respond(f, a)
      PROVE  TakenOnce'
  <2>1. \A g \in Takers : Serving(g)' => Serving(g) /\ held'[g] = held[g]
    BY <1>2 DEF Block, Unblock, TakeNext, Respond, Goes, Serving, IInv, TypeOK, TypeFibers
  <2>2. QED
    BY <2>1 DEF TakenOnce
<1>3. CASE UNCHANGED <<taker, held>>
  BY <1>3 DEF TakenOnce, Serving
<1>4. CASE RestartPass \/ CloseRun \/ ContinueAsNew
  BY <1>4 DEF RestartPass, CloseRun, ContinueAsNew, StartFibers, TakenOnce, Serving
<1>5. ASSUME NEW c \in Clients, ClientMoves(c) PROVE UNCHANGED <<taker, held>>
  BY <1>5, ClientLeavesRun
<1>6. HandleSignal => UNCHANGED <<taker, held>>
  BY DEF HandleSignal
<1>7. QED
  BY <1>1, <1>2, <1>3, <1>4, <1>5, <1>6 DEF Next, Serve, ClientMoves

\* take hands each request to one fiber of a pass, whichever fibers wait on
\* the same channel.
THEOREM RequestsTakenOnce == Spec => []TakenOnce
<1>1. Init => TakenInv
  BY InitIInv DEF TakenInv, Init, TakenOnce, Serving
<1>2. TakenInv => TakenOnce
  BY DEF TakenInv
<1>3. QED
  BY <1>1, <1>2, NextTakenOnce, PTL DEF Spec

-----------------------------------------------------------------------------
(* DurableUpdate implements UpdateSpec.                                    *)

\* The abstract call of a client, and the abstract sets.
CallOfClient(c) == [request |-> request[c], outcome |-> outcome[c], answer |-> answer[c]]
AcceptedPairs == {p \in Runs \X Requests : p[2] \in updateRequests[p[1]]}
AnsweredTriples == {p \in Runs \X Ids \X Answers : <<p[2], p[3]>> \in updateResults[p[1]]}
CallsOfClients == [c \in Clients |-> CallOfClient(c)]


\* A step of one client changes its own abstract call only.
LEMMA CallsFollow ==
  ASSUME NEW c \in Clients, NEW call, CallOfClient(c)' = call,
         \A d \in Clients : d # c => CallOfClient(d)' = CallOfClient(d)
  PROVE  CallsOfClients' = [CallsOfClients EXCEPT ![c] = call]
BY DEF CallsOfClients

\* A client whose call ends as o with a becomes that call.
LEMMA EndFollows ==
  ASSUME IInv, NEW c \in Clients, NEW o, NEW a, End(c, o, a)
  PROVE  CallsOfClients' =
           [CallsOfClients EXCEPT ![c] = Promise!CallOf(@.request, o, a)]
<1>1. /\ request'[c] = request[c] /\ outcome'[c] = o /\ answer'[c] = a
      /\ \A d \in Clients : d # c =>
           /\ request'[d] = request[d] /\ outcome'[d] = outcome[d] /\ answer'[d] = answer[d]
  BY DEF End, IInv, TypeOK, TypeClients
<1>2. CallOfClient(c)' = Promise!CallOf(request[c], o, a)
  BY <1>1 DEF CallOfClient, Promise!CallOf
<1>3. \A d \in Clients : d # c => CallOfClient(d)' = CallOfClient(d)
  BY <1>1 DEF CallOfClient
<1>4. CallsOfClients[c].request = request[c]
  BY DEF CallsOfClients, CallOfClient
<1>5. CallsOfClients' = [CallsOfClients EXCEPT ![c] = Promise!CallOf(request[c], o, a)]
  BY <1>2, <1>3, CallsFollow
<1>6. QED
  BY <1>4, <1>5

Abstract == <<run, AcceptedPairs, AnsweredTriples, CallsOfClients>>

\* Initial states map to initial states of UpdateSpec.
LEMMA InitRefines == Init => Promise!Init
<1> SUFFICES ASSUME Init PROVE Promise!Init
  OBVIOUS
<1>1. run = 1
  BY DEF Init
<1>2. AcceptedPairs = {} /\ AnsweredTriples = {}
  BY DEF Init, AcceptedPairs, AnsweredTriples
<1>3. CallsOfClients = [c \in Clients |-> Promise!CallOf(None, "none", None)]
  BY DEF Init, CallsOfClients, CallOfClient, Promise!CallOf
<1>4. QED
  BY <1>1, <1>2, <1>3 DEF Promise!Init, AcceptedPairs, AnsweredTriples, CallsOfClients,
     CallOfClient

\* The end of a call, in terms of the abstract variables.
LEMMA ClientRefines ==
  ASSUME IInv, NEW c \in Clients, ClientMoves(c)
  PROVE  Promise!Next \/ UNCHANGED Abstract
<1>1. run' = run /\ AcceptedPairs' = AcceptedPairs /\ AnsweredTriples' = AnsweredTriples
  BY ClientLeavesRun DEF AcceptedPairs, AnsweredTriples
<1>2. CallsOfClients[c].request = request[c] /\ CallsOfClients[c].outcome = outcome[c]
  BY DEF CallsOfClients, CallOfClient
<1>3. phase[c] # "idle" => request[c] \in Requests /\ Promise!Pending(c)
  BY <1>2 DEF IInv, CallsInOrder, Promise!Pending, CallsOfClients, CallOfClient
<1>4. 1..run \subseteq Runs
  BY BoundsAssumption DEF IInv, TypeOK, TypeRuns, Runs
<1>5. CASE UNCHANGED <<request, outcome, answer>>
  <2>1. CallsOfClients' = CallsOfClients
    BY <1>5 DEF CallsOfClients, CallOfClient
  <2>2. QED
    BY <1>1, <2>1 DEF Abstract
<1>6. ASSUME phase[c] # "idle", End(c, "failed", None) \/ End(c, "timeout", None)
      PROVE  Promise!Fail(c)
  <2>1. \/ CallsOfClients' = [CallsOfClients EXCEPT ![c] = Promise!CallOf(@.request, "failed", None)]
        \/ CallsOfClients' = [CallsOfClients EXCEPT ![c] = Promise!CallOf(@.request, "timeout", None)]
    BY <1>6, EndFollows
  <2>2. QED
    BY <1>1, <1>3, <1>6, <2>1 DEF Promise!Fail, Promise!Becomes, CallsOfClients,
       CallOfClient, AcceptedPairs, AnsweredTriples
<1>7. ASSUME ReturnConflict(c)
      PROVE  \E k \in 1..run, r \in Requests : Promise!Conflict(c, k, r)
  <2>1. PICK k \in 1..run : KnownIn(c, k)
    BY <1>7 DEF ReturnConflict, IInv, CallsInOrder
  <2>2. /\ known[c] \in updateRequests[k] /\ known[c].id = request[c].id
        /\ known[c] # request[c]
    BY <1>7, <2>1 DEF ReturnConflict, IsConflict, KnownIn
  <2>3. known[c] \in Requests /\ <<k, known[c]>> \in AcceptedPairs
    BY <1>4, <2>2 DEF AcceptedPairs, IInv, TypeOK, TypeRuns
  <2>4. CallsOfClients' = [CallsOfClients EXCEPT ![c] = Promise!CallOf(@.request, "conflict", None)]
    BY <1>7, EndFollows DEF ReturnConflict
  <2>5. Promise!Pending(c)
    BY <1>3, <1>7 DEF ReturnConflict
  <2>6. Promise!Conflict(c, k, known[c])
    BY <1>1, <1>2, <2>2, <2>3, <2>4, <2>5 DEF Promise!Conflict, Promise!Becomes,
       CallsOfClients, CallOfClient, AcceptedPairs, AnsweredTriples
  <2>7. QED
    BY <2>3, <2>6
<1>8. ASSUME ReturnAnswer(c)
      PROVE  \E k \in 1..run, a \in Answers : Promise!Return(c, k, a)
  <2>1. PICK k \in 1..run : KnownIn(c, k)
    BY <1>8 DEF ReturnAnswer, IInv, CallsInOrder
  <2>2. /\ exit[c] \in Answers /\ request[c] \in updateRequests[k]
        /\ <<request[c].id, exit[c]>> \in updateResults[k]
    BY <1>8, <2>1 DEF ReturnAnswer, IsConflict, KnownIn, IInv, TypeOK, TypeClients
  <2>3. request[c] \in Requests /\ request[c].id \in Ids
    BY <1>3, <1>8, RequestsAssumption DEF ReturnAnswer
  <2>4. /\ <<k, request[c]>> \in AcceptedPairs
        /\ <<k, request[c].id, exit[c]>> \in AnsweredTriples
    BY <1>4, <2>2, <2>3 DEF AcceptedPairs, AnsweredTriples
  <2>5. CallsOfClients' = [CallsOfClients EXCEPT ![c] = Promise!CallOf(@.request, "answer", exit[c])]
    BY <1>8, EndFollows DEF ReturnAnswer
  <2>6. Promise!Pending(c)
    BY <1>3, <1>8 DEF ReturnAnswer
  <2>7. Promise!Return(c, k, exit[c])
    BY <1>1, <1>2, <2>4, <2>5, <2>6 DEF Promise!Return, Promise!Becomes,
       CallsOfClients, CallOfClient, AcceptedPairs, AnsweredTriples
  <2>8. QED
    BY <2>2, <2>7
<1>9. ASSUME NEW r \in Requests, Call(c, r) PROVE Promise!Call(c, r)
  <2>1. /\ CallOfClient(c)' = Promise!CallOf(r, "pending", None)
        /\ \A d \in Clients : d # c => CallOfClient(d)' = CallOfClient(d)
    BY <1>9 DEF Call, CallOfClient, Promise!CallOf, IInv, TypeOK, TypeClients
  <2>2. CallsOfClients' = [CallsOfClients EXCEPT ![c] = Promise!CallOf(r, "pending", None)]
    BY <2>1, CallsFollow
  <2>3. ~Promise!Pending(c)
    BY <1>2, <1>9 DEF Call, IInv, CallsInOrder, Promise!Pending, CallsOfClients, CallOfClient
  <2>4. QED
    BY <1>1, <2>2, <2>3 DEF Promise!Call, CallsOfClients, CallOfClient, AcceptedPairs,
       AnsweredTriples
<1>10. \/ UNCHANGED <<request, outcome, answer>>
       \/ phase[c] # "idle" /\ (End(c, "failed", None) \/ End(c, "timeout", None))
       \/ ReturnConflict(c) \/ ReturnAnswer(c) \/ \E r \in Requests : Call(c, r)
  BY DEF ClientMoves, ClientStep, DeadlinePasses, QueryFirst, QueryAgain, Query, SendSignal,
     RpcFails, ReturnTimeout, PollLater
<1>11. QED
  BY <1>5, <1>6, <1>7, <1>8, <1>9, <1>10 DEF Promise!Next

\* A fiber's step is an Answer of UpdateSpec or a stutter.
LEMMA FiberRefines ==
  ASSUME IInv, NEW f \in Takers, FiberMoves(f)
  PROVE  Promise!Next \/ UNCHANGED Abstract
<1>1. run' = run /\ AcceptedPairs' = AcceptedPairs /\ CallsOfClients' = CallsOfClients
  BY FiberLeavesLogs DEF AcceptedPairs, CallsOfClients, CallOfClient
<1>2. CASE UNCHANGED updateResults
  BY <1>1, <1>2 DEF Abstract, AnsweredTriples
<1>3. ASSUME NEW a \in Answers, Respond(f, a), ~UNCHANGED updateResults
      PROVE  Promise!Answer(held[f], a) /\ held[f] \in Requests
  <2>1. /\ held[f] \in updateRequests[run] /\ held[f] \in Requests /\ held[f].id \in Ids
        /\ run \in Runs
    BY <1>3, HeldAccepted, RequestsAssumption DEF Respond, Serving, IInv, TypeOK, TypeRuns
  <2>2. /\ updateResults' = [updateResults EXCEPT ![run] = @ \cup {<<held[f].id, a>>}]
        /\ \A b \in Answers : <<held[f].id, b>> \notin updateResults[run]
    BY <1>3 DEF Respond, Record
  <2>3. <<run, held[f]>> \in AcceptedPairs
    BY <2>1 DEF AcceptedPairs
  <2>4. \A b \in Answers : <<run, held[f].id, b>> \notin AnsweredTriples
    BY <2>2 DEF AnsweredTriples
  <2>5. AnsweredTriples' = AnsweredTriples \cup {<<run, held[f].id, a>>}
    BY <2>1, <2>2 DEF AnsweredTriples, IInv, TypeOK, TypeRuns
  <2>6. QED
    BY <1>1, <2>1, <2>3, <2>4, <2>5 DEF Promise!Answer, AcceptedPairs, AnsweredTriples,
       CallsOfClients, CallOfClient
<1>4. UNCHANGED updateResults \/ \E a \in Answers : Respond(f, a)
  BY DEF FiberMoves, Serve, Take, Block, Unblock, TakeNext
<1>5. QED
  BY <1>2, <1>3, <1>4 DEF Promise!Next

\* Handling a signal is an Accept of UpdateSpec or a stutter.
LEMMA SignalRefines ==
  ASSUME IInv, HandleSignal
  PROVE  Promise!Next \/ UNCHANGED Abstract
<1>0. Head(buffered) \in Requests /\ run \in Runs
  BY HeadTailProperties DEF HandleSignal, IInv, TypeOK, TypeRuns
<1>1. PICK r \in Requests : r = Head(buffered) /\ run \in Runs
  BY <1>0
<1>2. run' = run /\ AnsweredTriples' = AnsweredTriples /\ CallsOfClients' = CallsOfClients
  BY DEF HandleSignal, AnsweredTriples, CallsOfClients, CallOfClient
<1>3. CASE ~Acceptable(r)
  BY <1>1, <1>2, <1>3 DEF HandleSignal, Abstract, AcceptedPairs
<1>4. CASE Acceptable(r)
  <2>1. updateRequests' = [updateRequests EXCEPT ![run] = @ \cup {r}]
    BY <1>1, <1>4 DEF HandleSignal
  <2>2. AcceptedPairs' = AcceptedPairs \cup {<<run, r>>}
    BY <1>1, <2>1 DEF AcceptedPairs, IInv, TypeOK, TypeRuns
  <2>3. \A s \in Requests : <<run, s>> \in AcceptedPairs => s.id # r.id
    BY <1>4 DEF Acceptable, AcceptedPairs
  <2>4. Promise!Accept(r)
    BY <1>2, <2>2, <2>3 DEF Promise!Accept, AcceptedPairs, AnsweredTriples, CallsOfClients,
       CallOfClient
  <2>5. QED
    BY <2>4 DEF Promise!Next
<1>5. QED
  BY <1>3, <1>4

\* A new pass or the end of a run is a stutter, a continue-as-new is a NewRun.
LEMMA BodyRefines ==
  ASSUME IInv, RestartPass \/ CloseRun \/ ContinueAsNew
  PROVE  Promise!Next \/ UNCHANGED Abstract
<1>1. /\ AcceptedPairs' = AcceptedPairs /\ AnsweredTriples' = AnsweredTriples
      /\ CallsOfClients' = CallsOfClients
  BY DEF RestartPass, CloseRun, ContinueAsNew, AcceptedPairs, AnsweredTriples,
     CallsOfClients, CallOfClient
<1>2. CASE RestartPass \/ CloseRun
  BY <1>1, <1>2 DEF RestartPass, CloseRun, Abstract
<1>3. CASE ContinueAsNew
  <2>1. Promise!NewRun
    BY <1>1, <1>3 DEF ContinueAsNew, Promise!NewRun, AcceptedPairs, AnsweredTriples,
       CallsOfClients, CallOfClient
  <2>2. QED
    BY <2>1 DEF Promise!Next
<1>4. QED
  BY <1>2, <1>3

\* Every step is a step of UpdateSpec or a stutter.
LEMMA StepRefines == IInv /\ [Next]_vars => [Promise!Next]_(Promise!avars)
<1> SUFFICES ASSUME IInv, [Next]_vars PROVE Promise!Next \/ UNCHANGED Abstract
  BY DEF Promise!avars, Abstract, AcceptedPairs, AnsweredTriples, CallsOfClients, CallOfClient
<1>1. CASE UNCHANGED vars
  BY <1>1 DEF Abstract, AcceptedPairs, AnsweredTriples, CallsOfClients, CallOfClient
<1>2. ASSUME NEW c \in Clients, ClientMoves(c) PROVE Promise!Next \/ UNCHANGED Abstract
  BY <1>2, ClientRefines
<1>3. ASSUME NEW f \in Takers, FiberMoves(f) PROVE Promise!Next \/ UNCHANGED Abstract
  BY <1>3, FiberRefines
<1>4. QED
  BY <1>1, <1>2, <1>3, SignalRefines, BodyRefines DEF Next, ClientMoves, FiberMoves

\* executeUpdate, the handlers and the fibers keep the promise of UpdateSpec:
\* per run one request and one answer for each id, and each call returns the
\* answer of its own request or a true conflict.
THEOREM UpdatesKeepPromise == Spec => KeepsPromise
<1>1. IInv /\ [Next]_vars => [Promise!Next]_(Promise!avars)
  BY StepRefines
<1>2. QED
  BY <1>1, InitRefines, Inductive, PTL DEF Spec, KeepsPromise, Promise!Spec
=============================================================================
