---------------------------- MODULE MCDtunQuery ----------------------------
(***************************************************************************)
(* A small instance of DtunQuery for TLC: a node and five peers, which     *)
(* know each other as a chain towards Dst.                                 *)
(***************************************************************************)
EXTENDS DtunQuery

Me == {2}
P1 == {0}
P2 == {1}
P3 == {0, 1}
P4 == {1, 2}
P5 == {0, 1, 2}

MCPeers == {P1, P2, P3, P4, P5}
Target == {0}
FarOrNone == {{P4, P3, P5}, {}}
ChainTable == [p \in MCPeers |-> CASE p = P5 -> {P4, P3} [] p = P4 -> {P3, P5}
                                   [] p = P3 -> {P2, P4} [] p = P2 -> {P1, P3}
                                   [] OTHER -> {P2}]
Nearest == {P1}
AllKinds == {"boot", "node", "value"}
OneNonce == {1}
=============================================================================
