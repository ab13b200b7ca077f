----------------------------- MODULE MCRdpConn -----------------------------
(* Small instances of RdpConn for TLC. *)
EXTENDS RdpConn, TLC

CONSTANTS a, b

\* The two instances are of the kind the proofs are about.
ASSUME InstanceAssumption == ClientServer /\ IssApart

MCNode == {a, b}
OneClient == {a}
OneServer == {b}

\* a connects once; b may make two records, the second for an old SYN.
ClientServerIss == a :> <<20>> @@ b :> <<300, 400>>
\* a connects twice with the same ports, while b may still have the first
\* connection: the number of the second SYN falls into the window of the first.
\* b may make two records too.
HalfOpenIss == a :> <<20, 24>> @@ b :> <<300, 400>>

NoData == a :> 0 @@ b :> 0
\* b sends two segments, so that they may come in the other order.
BothData == a :> 1 @@ b :> 2

\* A bound on the datagrams where any of them may be repeated at any time.
FewDatagrams == Cardinality(net) <= 8
=============================================================================
