------------------------------- MODULE MCProxy -------------------------------
(* A small instance of Proxy for TLC. *)
EXTENDS Proxy

CONSTANTS a1, a2

MCAddrs == {a1, a2}
=============================================================================
