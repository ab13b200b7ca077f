------------------------------ MODULE MCDgram ------------------------------
(* A small instance of Dgram for TLC. *)
EXTENDS Dgram

CONSTANTS d1, a1, a2

OneNode == {d1}
TwoAddrs == {a1, a2}
=============================================================================
