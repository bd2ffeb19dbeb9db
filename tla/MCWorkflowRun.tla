---------------------------- MODULE MCWorkflowRun ----------------------------
(***************************************************************************)
(* Small instances of WorkflowRun: bodies that between them use every      *)
(* operation, and a few external jobs of each kind.                        *)
(***************************************************************************)
EXTENDS WorkflowRun

CONSTANTS d1, d2, c1, a1, a2, m1

await(d)    == [kind |-> "await", name |-> d]
sleep(c)    == [kind |-> "sleep", name |-> c]
activity(a) == [kind |-> "activity", name |-> a]
take(m)     == [kind |-> "take", name |-> m]
complete(d) == [kind |-> "complete", name |-> d]
control(k)  == [kind |-> k, name |-> d1]

\* A saga, a consumer, a timer, a body that steers itself, an entity.
saga   == <<activity(a1), await(d1), activity(a2), await(d2)>>
queue  == <<take(m1), await(d1), activity(a1), take(m1)>>
timer  == <<activity(a1), sleep(c1), await(d1)>>
steers == <<complete(d1), await(d1), activity(a1), control("interrupt"),
            control("resume"), await(d2), control("interrupt")>>
entity == <<activity(a1), take(m1), control("continueAsNew")>>

AllBodies   == {saga, queue, timer, steers, entity}
ConsumerOnly == {<<await(d1), take(m1)>>}
SagaOnly    == {<<activity(a1), take(m1)>>}
EntityOnly  == {<<await(d1), control("continueAsNew")>>}

Jobs(i, r, c, o, k, x) ==
  [interrupt |-> i, resume |-> r, complete |-> c, offer |-> o, clock |-> k,
   cancel |-> x]
\* What no operation of a body can tell apart does not occur: messages for a
\* body without takes, and clocks but for the one that sleeps, where the timer
\* of a clock signal also wakes the awaits in vain.
FewJobs ==
  [b \in AllBodies |->
     CASE b = timer             -> Jobs(1, 1, 2, 0, 1, 1)
       [] b \in {queue, entity} -> Jobs(1, 1, 2, 2, 0, 1)
       [] OTHER                 -> Jobs(2, 2, 2, 0, 0, 1)]
CancelOnly   == [b \in ConsumerOnly |-> Jobs(0, 0, 1, 1, 0, 1)]
CancelSaga   == [b \in SagaOnly |-> Jobs(0, 0, 0, 0, 0, 1)]
CancelResume == [b \in EntityOnly |-> Jobs(0, 1, 1, 0, 0, 1)]
=============================================================================
