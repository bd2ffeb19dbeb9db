----------------------------- MODULE MCPassReplay -----------------------------
(***************************************************************************)
(* Small instances of PassReplay: bodies of one and of two fibers that     *)
(* between them make every kind of call.                                   *)
(***************************************************************************)
EXTENDS PassReplay

CONSTANTS d1, d2, a1, t1, t2, x1, o1, m1

await(d) == <<"await", d>>
call(n) == <<"call", n>>
outbound(n) == <<"outbound", n>>
take(m) == <<"take", m>>
poll(m) == <<"poll", m>>

\* One fiber that repeats its names; two that share none; two that take from
\* one mailbox; one that polls; two that share a typed activity; a Nexus
\* operation beside a suspension.
sequential == << <<call(t1), outbound(o1), await(d1), call(t1), outbound(o1), await(d2)>>, <<>> >>
apart      == << <<call(t1), await(d1), take(m1), outbound(x1), call(t1)>>,
                 <<outbound(o1), call(a1), await(d2), outbound(o1)>> >>
takers     == << <<take(m1), call(a1), await(d1), take(m1)>>, <<take(m1), call(t1), call(t2)>> >>
polling    == << <<poll(m1), await(d1), take(m1)>>, <<>> >>
shared     == << <<call(a1), call(t1)>>, <<call(t1), await(d1)>> >>
operation  == << <<outbound(x1), await(d2)>>, <<await(d1)>> >>

AllBodies == {sequential, apart, takers, polling, shared, operation}
SharedOnly == {shared}
OperationOnly == {operation}
=============================================================================
