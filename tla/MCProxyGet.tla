----------------------------- MODULE MCProxyGet -----------------------------
(***************************************************************************)
(* A small instance of ProxyGet for TLC: a client, its proxy and three     *)
(* peers, which know each other as a chain towards Dst.  Two of them have  *)
(* values of keys of Dst, the nearest of the key that is asked for, one of *)
(* them longer than a segment.                                             *)
(***************************************************************************)
EXTENDS ProxyGet

CONSTANTS v1, v2, cut

Me == {2}
P1 == {0}
P2 == {1}
P3 == {0, 1}

MCPeers == {P1, P2, P3}
Target == {0}
FarOrNone == {{P3, P2}, {}}
ChainTable == [p \in MCPeers |-> IF p = P2 THEN {P1, P3} ELSE {P2}]
OfKey == [p \in MCPeers |-> IF p = P1 THEN {v1, v2} ELSE {}]
OfId == {P1, P3}
LongValues == {v2}
AllKinds == {"boot", "node", "value"}
OneNonce == {1}
=============================================================================
