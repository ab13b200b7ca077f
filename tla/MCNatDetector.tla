--------------------------- MODULE MCNatDetector ---------------------------
(* Small instances of NatDetector for TLC. *)
EXTENDS NatDetector, TLC

CONSTANTS p, q

MCPeers == {p, q}
MCPortOf == p :> 1 @@ q :> 2
AnyStray == {"length", "type"}
=============================================================================
