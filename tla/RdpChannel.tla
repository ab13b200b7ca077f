------------------------------ MODULE RdpChannel ------------------------------
(***************************************************************************)
(* What one direction of an rdp connection promises the two applications:  *)
(* the segments that send() accepts come out of receive() once each and in *)
(* the order they went in, and as long as some have not come out either    *)
(* more do or the sender is told that the connection is broken.            *)
(***************************************************************************)
EXTENDS Integers

CONSTANTS Payload, NoData, Input, MaxMsgs

VARIABLES accepted, delivered, nread, broken

chanVars == <<accepted, delivered, nread, broken>>

ChanInit ==
    /\ accepted = 0
    /\ delivered = [i \in 1..0 |-> NoData]
    /\ nread = 0
    /\ broken = FALSE

\* send() takes the next segments, unless the connection is broken.
Accept ==
    /\ ~ broken
    /\ accepted' \in (accepted + 1)..MaxMsgs
    /\ UNCHANGED <<delivered, nread, broken>>

\* The next accepted segments reach the queue of the receiving application.
Deliver ==
    /\ \E n \in 0..accepted :
         /\ DOMAIN delivered # 1..n
         /\ \A i \in DOMAIN delivered : i \in 1..n
         /\ delivered' = [i \in 1..n |-> Input[i]]
    /\ UNCHANGED <<accepted, nread, broken>>

\* receive() takes some of what is in the queue.
Read ==
    /\ \E n \in DOMAIN delivered : n > nread /\ nread' = n
    /\ UNCHANGED <<accepted, delivered, broken>>

\* The sender gives up and says so.
Break ==
    /\ ~ broken
    /\ broken' = TRUE
    /\ UNCHANGED <<accepted, delivered, nread>>

ChanNext == Accept \/ Deliver \/ Read \/ Break

ChanSpec == ChanInit /\ [][ChanNext]_chanVars

Pending == \E i \in 1..accepted : i \notin DOMAIN delivered

Progress == Pending /\ ~ broken /\ (Deliver \/ Break)

FairChanSpec == ChanSpec /\ WF_chanVars(Progress)
=============================================================================
