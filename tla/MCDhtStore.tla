----------------------------- MODULE MCDhtStore -----------------------------
(***************************************************************************)
(* A small instance of DhtStore for TLC: three nodes, of which one starts  *)
(* later, and two values of a key.  The far node stores for a client too.  *)
(***************************************************************************)
EXTENDS DhtStore

CONSTANTS n1, n2, n3, c, v1, v2

ByDistance == <<n1, n2, n3>>
TwoValues == {v1, v2}
P(n, v, ttl, unique, src) ==
    [node |-> n, value |-> v, ttl |-> ttl, is_unique |-> unique, src |-> src]
SomePuts == {P(n2, v1, 4, FALSE, n2), P(n2, v1, 4, TRUE, n2), P(n2, v2, 4, TRUE, n2),
             P(n2, v1, 0, FALSE, n2), P(n3, v1, 4, FALSE, c)}
Closest1 == {n1}
=============================================================================
