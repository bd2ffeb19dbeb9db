------------------------------ MODULE UpdateSpec ------------------------------
(***************************************************************************)
(* What a durable update promises its callers, whatever the workflow does: *)
(* within one run a request id is accepted for at most one request and     *)
(* gets at most one answer; a call returns an answer only to its own       *)
(* request, and is told of a conflict only when its id was accepted for    *)
(* another one.  A call may always fail, by a timeout or an RPC error; the *)
(* workflow may continue as a new run, which knows no request.             *)
(***************************************************************************)
EXTENDS Naturals

CONSTANTS Clients, Requests, Answers, None

VARIABLES
  run,        \* the number of the latest run
  accepted,   \* pairs of a run and a request it accepted
  answers,    \* triples of a run, a request id and its answer
  calls       \* client -> its latest call

avars == <<run, accepted, answers, calls>>

\* The record of a call of r that stands at outcome, with answer a if any.
CallOf(r, outcome, a) == [request |-> r, outcome |-> outcome, answer |-> a]

Init ==
  /\ run = 1
  /\ accepted = {} /\ answers = {}
  /\ calls = [c \in Clients |-> CallOf(None, "none", None)]

Pending(c) == calls[c].outcome = "pending"
Becomes(c, outcome, a) ==
  calls' = [calls EXCEPT ![c] = CallOf(@.request, outcome, a)]

Call(c, r) ==
  /\ ~Pending(c)
  /\ calls' = [calls EXCEPT ![c] = CallOf(r, "pending", None)]
  /\ UNCHANGED <<run, accepted, answers>>

Accept(r) ==
  /\ \A s \in Requests : <<run, s>> \in accepted => s.id # r.id
  /\ accepted' = accepted \cup {<<run, r>>}
  /\ UNCHANGED <<run, answers, calls>>

Answer(r, a) ==
  /\ <<run, r>> \in accepted
  /\ \A b \in Answers : <<run, r.id, b>> \notin answers
  /\ answers' = answers \cup {<<run, r.id, a>>}
  /\ UNCHANGED <<run, accepted, calls>>

Return(c, k, a) ==
  /\ Pending(c)
  /\ <<k, calls[c].request>> \in accepted
  /\ <<k, calls[c].request.id, a>> \in answers
  /\ Becomes(c, "answer", a)
  /\ UNCHANGED <<run, accepted, answers>>

Conflict(c, k, r) ==
  /\ Pending(c)
  /\ <<k, r>> \in accepted /\ r.id = calls[c].request.id /\ r # calls[c].request
  /\ Becomes(c, "conflict", None)
  /\ UNCHANGED <<run, accepted, answers>>

Fail(c) ==
  /\ Pending(c)
  /\ Becomes(c, "failed", None) \/ Becomes(c, "timeout", None)
  /\ UNCHANGED <<run, accepted, answers>>

NewRun ==
  /\ run' = run + 1
  /\ UNCHANGED <<accepted, answers, calls>>

Next ==
  \/ \E c \in Clients, r \in Requests : Call(c, r)
  \/ \E r \in Requests : Accept(r)
  \/ \E r \in Requests, a \in Answers : Answer(r, a)
  \/ \E c \in Clients, k \in 1..run, a \in Answers : Return(c, k, a)
  \/ \E c \in Clients, k \in 1..run, r \in Requests : Conflict(c, k, r)
  \/ \E c \in Clients : Fail(c)
  \/ NewRun

Spec == Init /\ [][Next]_avars
=============================================================================
