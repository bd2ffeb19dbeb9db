---------------------------- MODULE MCDurableUpdate ----------------------------
(***************************************************************************)
(* A small instance of DurableUpdate: two callers, two ids, a conflict on  *)
(* the channel of one of them, and two fibers that serve one channel while *)
(* nobody serves the other.                                                *)
(***************************************************************************)
EXTENDS DurableUpdate, TLC

CONSTANTS c1, c2, n1, n2, x, y, a, b, f1, f2

MCRequests == {[id |-> x, name |-> n1], [id |-> x, name |-> n2], [id |-> y, name |-> n1]}
Symmetry == Permutations({c1, c2}) \cup Permutations({f1, f2}) \cup Permutations({a, b})
MCChannelOf == [f \in Takers |-> n1]
=============================================================================
