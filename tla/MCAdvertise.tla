----------------------------- MODULE MCAdvertise -----------------------------
(* A small instance of Advertise for TLC. *)
EXTENDS Advertise

CONSTANTS n1, n2, a1, a2, a3, b1

MCNodes == {n1, n2}
MCInet == {a1, a2, a3}
MCInet6 == {b1}
MCSessions == {0, 1, 2}
=============================================================================
