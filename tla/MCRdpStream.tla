---------------------------- MODULE MCRdpStream ----------------------------
(* A small instance of RdpStream for TLC. *)
EXTENDS RdpStream

\* The payload of a segment is its number, so that any mix-up shows.
MCPayload == 1..MaxMsgs
MCInput == [i \in 1..MaxMsgs |-> i]
=============================================================================
