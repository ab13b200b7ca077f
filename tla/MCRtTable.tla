----------------------------- MODULE MCRtTable -----------------------------
(* A small instance of RtTable for TLC: identifiers of three bits. *)
EXTENDS RtTable

MyId == {0, 2}
=============================================================================
