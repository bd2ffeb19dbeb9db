--------------------------- MODULE MCTargetRouting ---------------------------
(***************************************************************************)
(* Three executions: two of one workflow, and one of another workflow that *)
(* shares the execution id of the first.                                   *)
(***************************************************************************)
EXTENDS TargetRouting

CONSTANTS d1, d2, c1

order1  == [workflow |-> "order", id |-> 1]
order2  == [workflow |-> "order", id |-> 2]
payment == [workflow |-> "payment", id |-> 1]
Three == {order1, order2, payment}

Complete(to, n) == [kind |-> "complete", to |-> to, name |-> n]
Clock(to) == [kind |-> "clock", to |-> to, name |-> c1]
InterruptOf(to) == [kind |-> "interrupt", to |-> to, name |-> d1]
ResumeOf(to) == [kind |-> "resume", to |-> to, name |-> d1]
Await(x, n) == [kind |-> "await", to |-> x, name |-> n]

Bodies(p, q, r) ==
  [x \in Three |-> CASE x = order1 -> p [] x = order2 -> q [] x = payment -> r]

\* One asks another and waits for its answer.
requestReply ==
  Bodies(<<Complete(order2, d1), Await(order1, d2)>>,
         <<Await(order2, d1), Complete(order1, d2)>>, <<>>)
\* Two set the same clock of a third; one of them waits for its answer.
\* The first also tells itself something.
clockwork ==
  Bodies(<<Clock(order1), Complete(order1, d2), ResumeOf(order1), Clock(payment)>>,
         <<Clock(payment), Await(order2, d1)>>,
         <<Await(payment, c1), Complete(order2, d1)>>)
\* Interrupts and resumes around a wait, also of the sender itself.
control ==
  Bodies(<<InterruptOf(order2), Complete(order2, d1)>>,
         <<Await(order2, d1), InterruptOf(order2)>>, <<ResumeOf(order2)>>)
\* Two that wake each other without ever answering.
wakeful ==
  Bodies(<<Complete(order2, d1), Await(order1, d2)>>,
         <<Complete(order1, d1), Await(order2, d2)>>, <<Complete(order1, d2)>>)

All == {requestReply, clockwork, control, wakeful}
=============================================================================
