---------------------------- MODULE ExecutionSpec ----------------------------
(***************************************************************************)
(* What the workflow engine promises about one execution id, whoever calls *)
(* it.  The execution is a sequence of chains of runs, each with one       *)
(* outcome, and the engine only ever opens the first.  A call learns only  *)
(* what is true at some moment while it runs: that the execution is        *)
(* unfinished, that it exists, or the outcome of a chain that was not      *)
(* superseded when the call was made.  It may always fail.                 *)
(***************************************************************************)
EXTENDS Naturals, Sequences

CONSTANTS Callers, Outcomes, None

VARIABLES
  chains,     \* sequence of [by, outcome]; outcome is None while it is open
  calls       \* caller -> its latest call

avars == <<chains, calls>>

Init ==
  /\ chains = <<>>
  /\ calls = [c \in Callers |-> [state |-> "idle", since |-> 0, answer |-> None]]

Finished(ch) == ch # <<>> /\ ch[Len(ch)].outcome # None

Recorded(ch, k) == {i \in DOMAIN ch : i >= k /\ ch[i].outcome # None}

\* What is true of the execution ch, for a call made at chain k: its recorded
\* outcomes, that it is unfinished, that it exists, that a signal reaches it.
\* A signal may always be ignored.
Truths(ch, k) ==
  {ch[i].outcome : i \in Recorded(ch, k)}
    \cup (IF Finished(ch) THEN {} ELSE {"unfinished"})
    \cup (IF ch = <<>> THEN {} ELSE {"exists"})
    \cup (IF ch = <<>> \/ Finished(ch) THEN {} ELSE {"delivered"})
    \cup {"ignored"}

\* The call of c has decided on an answer, or has ended with one or without.
Decides(c, a) ==
  calls' = [calls EXCEPT ![c] = [state |-> "decided", since |-> @.since, answer |-> a]]

Ends(c, state, a) ==
  calls' = [calls EXCEPT ![c] = [state |-> state, since |-> 0, answer |-> a]]

Begin(c) ==
  /\ calls[c].state \notin {"pending", "decided"}
  /\ calls' = [calls EXCEPT ![c] = [state |-> "pending", since |-> Len(chains), answer |-> None]]
  /\ UNCHANGED chains

\* A chain is opened when none is open, by the engine only the first.
Open(by) ==
  /\ chains = <<>> \/ Finished(chains)
  /\ by = "engine" => chains = <<>>
  /\ chains' = Append(chains, [by |-> by, outcome |-> None])

Record(o) ==
  /\ chains # <<>> /\ ~Finished(chains)
  /\ chains' = [chains EXCEPT ![Len(chains)].outcome = o]
  /\ UNCHANGED calls

\* A pending call learns a truth, and returns it at once or later.
Learn(c) ==
  /\ calls[c].state = "pending"
  /\ \E a \in Truths(chains', calls[c].since) : Decides(c, a) \/ Ends(c, "returned", a)

Return(c) ==
  /\ calls[c].state = "decided"
  /\ Ends(c, "returned", calls[c].answer)

Fail(c) ==
  /\ calls[c].state \in {"pending", "decided"}
  /\ Ends(c, "failed", None)

\* A call may open a chain by the same step, whatever becomes of it.
Proceed ==
  /\ UNCHANGED chains \/ \E by \in {"engine", "other"} : Open(by)
  /\ \/ UNCHANGED calls
     \/ \E c \in Callers : Learn(c) \/ Return(c) \/ Fail(c)

Next ==
  \/ \E c \in Callers : Begin(c)
  \/ \E o \in Outcomes : Record(o)
  \/ Proceed

Spec == Init /\ [][Next]_avars
=============================================================================
