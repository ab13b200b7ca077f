------------------------------ MODULE RdpStream ------------------------------
(***************************************************************************)
(* One direction of an OPEN rdp connection of libcage (libcage/rdp.cpp):   *)
(* the sending window of one rdp_con, the receiving window of its peer,    *)
(* and the datagrams between them, which may be lost, duplicated and       *)
(* reordered.                                                              *)
(*                                                                         *)
(* Both windows are the ring buffers of the code, with the code's cursors. *)
(* Sequence numbers are unsigned words: they wrap at SeqMod (2^32 in the   *)
(* code) and every comparison is the code's wrapped subtraction.  A while  *)
(* loop over a ring is written in closed form: the number k of turns it    *)
(* takes is bound by a quantifier and a predicate says when it stops.      *)
(*                                                                         *)
(* The reverse direction shows up in two places: a data segment of the     *)
(* peer carries an acknowledgement (Piggyback), and a segment may be       *)
(* dropped by the peer's window test, which here is one more way to lose   *)
(* it.                                                                     *)
(***************************************************************************)
EXTENDS Integers, FiniteSets

CONSTANTS
    Payload,     \* the contents a segment may have
    NoData,      \* a pbuf that was reset
    Input,       \* Input[i] is the i-th segment the application hands to send()
    MaxMsgs,     \* how many segments the application sends on this connection
    RcvMax,      \* rcv_max of the receiver, which the sender learns as snd_max
    MaxEack,     \* MAX_EACK: the extended acks one segment may carry
    MaxRetrans,  \* m_max_retrans, in seconds
    SeqMod,      \* sequence numbers are computed modulo SeqMod
    Iss          \* snd_iss, the random initial sequence number

ASSUME StreamAssumption ==
    /\ MaxMsgs \in Nat \ {0}
    /\ Input \in [1..MaxMsgs -> Payload]
    /\ NoData \notin Payload
    /\ RcvMax \in Nat \ {0, 1}
    /\ MaxEack \in Nat \ {0}
    /\ MaxRetrans \in Nat \ {0}
    /\ SeqMod \in Nat
    /\ Iss \in 0..(SeqMod - 1)
    \* No sequence number is used twice within the life of a datagram.
    /\ MaxMsgs + 4 * RcvMax + 1 < SeqMod

VARIABLES
    snd,        \* the sending half of the sender's rdp_con
    rcv,        \* the receiving half of the receiver's rdp_con
    accepted,   \* how many segments of Input enqueue_swnd() has accepted
    delivered,  \* every payload ever pushed on rqueue, oldest first
    nread,      \* how many of them receive() has popped
    dataNet,    \* the data segments ever output (never removed: a datagram
    ackNet      \* may arrive late, twice or not at all), and the same of acks

vars == <<snd, rcv, accepted, delivered, nread, dataNet, ackNet>>
-----------------------------------------------------------------------------
(* Unsigned words and rings. *)

Word == 0..(SeqMod - 1)

\* a - b and a + k in unsigned arithmetic, for words a, b and k < SeqMod.
Sub(a, b) == IF b <= a THEN a - b ELSE a - b + SeqMod
Add(a, k) == IF a + k < SeqMod THEN a + k ELSE a + k - SeqMod

\* How many numbers after snd_iss the word a lies.
Pos(a) == Sub(a, Iss)

RLen == 2 * RcvMax      \* m_rwnd_len
SLen == 4 * RcvMax      \* m_swnd_len
RIdx == 0..(RLen - 1)
SIdx == 0..(SLen - 1)

\* The index i places after h on a ring of len slots, and its inverse.
Ring(h, i, len) == IF h + i < len THEN h + i ELSE h + i - len
Dist(h, j, len) == IF h <= j THEN j - h ELSE j - h + len

Least(a, b) == IF a <= b THEN a ELSE b

\* P(i) holds for exactly the first k of the indices 0..n-1: what a loop that
\* runs while P holds leaves behind.
IsRun(k, n, P(_)) ==
    /\ \A i \in 0..(k - 1) : P(i)
    /\ k < n => ~ P(k)
-----------------------------------------------------------------------------
(* The sending half. *)

SwndSlot == [data: Payload \cup {NoData}, seqnum: Word, is_sent: BOOLEAN,
             is_acked: BOOLEAN, rt_sec: Nat]

SendState == [state: {"OPEN", "CLOSED"}, swnd: [SIdx -> SwndSlot],
              head: SIdx, ostand: SIdx, used: 0..SLen,
              una: Word, nxt: Word]

init_swnd ==
    [state |-> "OPEN",
     swnd |-> [i \in SIdx |-> [data |-> NoData, seqnum |-> 0, is_sent |-> FALSE,
                               is_acked |-> FALSE, rt_sec |-> 0]],
     head |-> 0, ostand |-> 0, used |-> 0, una |-> Iss, nxt |-> Add(Iss, 1)]

DataSegment == [seq: Word, data: Payload]
AckSegment  == [ack: Word, eacks: SUBSET Word]

\* enqueue_swnd(), before it calls send_ostand_swnd().
enqueue_swnd(s, d) ==
    [s EXCEPT !.used = @ + 1,
              !.swnd[Ring(s.head, s.used, SLen)] =
                 [@ EXCEPT !.data = d, !.is_acked = FALSE, !.is_sent = FALSE,
                           !.rt_sec = 1]]

\* send_ostand_swnd(): how many segments its loop outputs ...
OstandCount(s) ==
    Least(Dist(s.ostand, Ring(s.head, s.used, SLen), SLen),
          IF Sub(s.nxt, s.una) < RcvMax THEN RcvMax - Sub(s.nxt, s.una) ELSE 0)

\* ... the window after it ...
send_ostand_swnd(s) ==
    LET m == OstandCount(s)
    IN  [s EXCEPT
           !.ostand = Ring(@, m, SLen),
           !.nxt = Add(@, m),
           !.swnd = [i \in SIdx |->
               IF Dist(s.ostand, i, SLen) < m
               THEN [@[i] EXCEPT !.is_sent = TRUE,
                                 !.seqnum = Add(s.nxt, Dist(s.ostand, i, SLen))]
               ELSE @[i]]]

\* ... and the segments themselves.
OstandSegments(s) ==
    {[seq |-> Add(s.nxt, i), data |-> s.swnd[Ring(s.ostand, i, SLen)].data] :
        i \in 0..(OstandCount(s) - 1)}

\* The segments between m_swnd_head and m_swnd_ostand.
Outstanding(s) == Dist(s.head, s.ostand, SLen)

\* Mutant: every number sent so far passes, the ones acked before too.
AckInWindow_AnyOld(s, acknum) == Pos(acknum) < Pos(s.nxt)

\* The test of recv_ack() on the acknowledgement number.
AckInWindow(s, acknum) == Sub(acknum, s.una) < Sub(s.nxt, s.una)

\* recv_ack() flushes the first k outstanding segments.  (The rt_sec of a free
\* slot is dead, enqueue_swnd() sets it anew: it is cleared here.)
AckFlushes(s, acknum, k) ==
    IF AckInWindow(s, acknum)
    THEN IsRun(k, Outstanding(s),
               LAMBDA i : Sub(s.swnd[Ring(s.head, i, SLen)].seqnum, s.una)
                            <= Sub(acknum, s.una))
    ELSE k = 0

recv_ack(s, acknum, k) ==
    IF AckInWindow(s, acknum)
    THEN [s EXCEPT !.head = Ring(@, k, SLen), !.used = @ - k, !.una = acknum,
                   !.swnd = [i \in SIdx |-> IF Dist(s.head, i, SLen) < k
                                THEN [@[i] EXCEPT !.data = NoData, !.rt_sec = 0]
                                ELSE @[i]]]
    ELSE s

\* recv_eack() of every number of eacks, before the head of the window moves:
\* the slot a number names is the one that far from the head, and it counts
\* only if it was sent with that number.
MarkEacked(s, eacks) ==
    LET hit(i) == LET e == Add(s.swnd[s.head].seqnum, Dist(s.head, i, SLen))
                  IN  e \in eacks /\ s.swnd[i].seqnum = e /\ s.swnd[i].is_sent
    IN  IF s.used = 0
        THEN s
        ELSE [s EXCEPT !.swnd = [i \in SIdx |-> IF hit(i)
                                    THEN [@[i] EXCEPT !.data = NoData, !.is_acked = TRUE]
                                    ELSE @[i]]]

\* The loop that ends recv_eack() moves the head over k acked segments; it
\* leaves m_swnd_used alone.
EackRemoves(s, eacks, k) ==
    IF s.used = 0 \/ eacks = {}
    THEN k = 0
    ELSE IsRun(k, Outstanding(s),
               LAMBDA i : /\ s.swnd[Ring(s.head, i, SLen)].is_sent
                          /\ s.swnd[Ring(s.head, i, SLen)].is_acked)

RemoveHead(s, k) == [s EXCEPT !.head = Ring(@, k, SLen)]
-----------------------------------------------------------------------------
(* The receiving half. *)

RwndSlot == [data: Payload \cup {NoData}, seqnum: Word,
             is_used: BOOLEAN, is_eacked: BOOLEAN]

RecvState == [rwnd: [RIdx -> RwndSlot], head: RIdx, used: Int,
              cur: Word, ack: Word]

init_rwnd ==
    [rwnd |-> [i \in RIdx |-> [data |-> NoData, seqnum |-> 0,
                               is_used |-> FALSE, is_eacked |-> FALSE]],
     head |-> 0, used |-> 0, cur |-> Iss, ack |-> Iss]

\* in_state_open(): the segment is outside RCV.CUR+1 .. RCV.CUR+2*RCV.MAX.
OutOfWindow(r, seq) == Sub(Sub(seq, r.cur), 1) >= 2 * RcvMax

\* Mutant: a segment that is there already is counted again.
InsertData_CountAgain(r, m) ==
    LET idx == Ring(r.head, Sub(m.seq, r.cur) - 1, RLen)
    IN  [r EXCEPT !.rwnd[idx] = [data |-> m.data, seqnum |-> m.seq,
                                 is_used |-> TRUE, is_eacked |-> FALSE],
                  !.used = @ + 1]

\* rwnd_recv_data(): put the segment in its slot unless the slot is taken.
InsertData(r, m) ==
    LET idx == Ring(r.head, Sub(m.seq, r.cur) - 1, RLen)
    IN  IF r.rwnd[idx].is_used
        THEN r
        ELSE [r EXCEPT !.rwnd[idx] = [data |-> m.data, seqnum |-> m.seq,
                                      is_used |-> TRUE, is_eacked |-> FALSE],
                       !.used = @ + 1]

\* ... then take the first k slots, which are used, off the window.
HeadRun(r, k) ==
    IsRun(k, RLen, LAMBDA i : r.rwnd[Ring(r.head, i, RLen)].is_used)

TakeHead(r, k) ==
    [r EXCEPT !.rwnd = [i \in RIdx |->
                 IF Dist(r.head, i, RLen) < k
                 THEN [@[i] EXCEPT !.data = NoData, !.is_used = FALSE,
                                   !.is_eacked = FALSE]
                 ELSE @[i]],
              !.head = Ring(@, k, RLen),
              !.used = @ - k,
              !.cur = Add(@, k)]

\* What the k slots hold, appended to the delivered payloads.
PushRun(q, r, k) ==
    LET n == Sub(r.cur, Iss)
    IN  [i \in 1..(n + k) |->
            IF i <= n THEN q[i] ELSE r.rwnd[Ring(r.head, i - n - 1, RLen)].data]

\* delayed_ack(): the used slots its scan reaches before it has seen
\* m_rwnd_used of them, and of those the first MAX_EACK not yet acked.
UsedBefore(r, i) ==
    {j \in RIdx : Dist(r.head, j, RLen) < Dist(r.head, i, RLen) /\ r.rwnd[j].is_used}
FreshEacks(r) ==
    {i \in RIdx : /\ r.rwnd[i].is_used
                  /\ Cardinality(UsedBefore(r, i)) < r.used
                  /\ ~ r.rwnd[i].is_eacked
                  /\ Cardinality({j \in UsedBefore(r, i) : ~ r.rwnd[j].is_eacked})
                       < MaxEack}

\* Mutant: the acknowledgement names the next segment, not the last.
DelayedAckSegment_Next(r) ==
    [ack |-> Add(r.cur, 1), eacks |-> {r.rwnd[i].seqnum : i \in FreshEacks(r)}]

AckIsDue(r) == r.cur # r.ack \/ FreshEacks(r) # {}

DelayedAckSegment(r) ==
    [ack |-> r.cur, eacks |-> {r.rwnd[i].seqnum : i \in FreshEacks(r)}]

delayed_ack(r) ==
    [r EXCEPT !.rwnd = [i \in RIdx |-> IF i \in FreshEacks(r)
                           THEN [@[i] EXCEPT !.is_eacked = TRUE] ELSE @[i]],
              !.ack = r.cur]
-----------------------------------------------------------------------------
(* Actions of the sending side. *)

\* send() of the next segment.  A longer buffer is split into segments that go
\* through enqueue_swnd() one by one until the ring is full; each is a step.
Send ==
    /\ snd.state = "OPEN"
    /\ snd.used < SLen
    /\ accepted < MaxMsgs
    /\ LET s == enqueue_swnd(snd, Input[accepted + 1])
       IN  /\ snd' = send_ostand_swnd(s)
           /\ dataNet' = dataNet \cup OstandSegments(s)
    /\ accepted' = accepted + 1
    /\ UNCHANGED <<rcv, delivered, nread, ackNet>>

\* in_state_open() for a segment that carries an acknowledgement: recv_ack(),
\* which ends in send_ostand_swnd(), and then recv_eack() for each number.
RecvAck ==
    /\ snd.state = "OPEN"
    /\ \E m \in ackNet : \E k \in 0..Outstanding(snd) :
         /\ AckFlushes(snd, m.ack, k)
         /\ LET s1 == recv_ack(snd, m.ack, k)
                s2 == MarkEacked(send_ostand_swnd(s1), m.eacks)
            IN  \E j \in 0..Outstanding(s2) :
                  /\ EackRemoves(s2, m.eacks, j)
                  /\ snd' = RemoveHead(s2, j)
                  /\ dataNet' = dataNet \cup OstandSegments(s1)
    /\ UNCHANGED <<rcv, accepted, delivered, nread, ackNet>>

\* The slots retransmit() looks at, by their distance from the head: it stops
\* at the first that was not sent and skips those that were acked.
Unacked(s) ==
    {i \in 0..(s.used - 1) :
        /\ \A j \in 0..i : s.swnd[Ring(s.head, j, SLen)].is_sent
        /\ ~ s.swnd[Ring(s.head, i, SLen)].is_acked}
Exhausted(s) ==
    {i \in Unacked(s) : s.swnd[Ring(s.head, i, SLen)].rt_sec > MaxRetrans}

\* Mutant: a segment retried for too long is given up without a word.
Retransmit_Silent(late) ==
    LET again == {i \in late : \A j \in Exhausted(snd) : i < j}
        slots == {Ring(snd.head, i, SLen) : i \in again}
    IN  /\ snd' = [snd EXCEPT
              !.swnd = [i \in SIdx |-> IF i \in slots
                           THEN [snd.swnd[i] EXCEPT !.rt_sec = 2 * snd.swnd[i].rt_sec]
                           ELSE snd.swnd[i]]]
        /\ dataNet' = dataNet \cup
              {[seq |-> snd.swnd[i].seqnum, data |-> snd.swnd[i].data] : i \in slots}
        /\ UNCHANGED <<rcv, accepted, delivered, nread, ackNet>>

\* timer_rdp: retransmit().  late are the slots whose timer has run out.  The
\* loop ends at the first slot that has been retried for too long, which
\* breaks the connection (BROKEN); the ones before it are output again.
Retransmit(late) ==
    LET again == {i \in late : \A j \in Exhausted(snd) : i < j}
        slots == {Ring(snd.head, i, SLen) : i \in again}
    IN  /\ snd' = [snd EXCEPT
              !.swnd = [i \in SIdx |-> IF i \in slots
                           THEN [snd.swnd[i] EXCEPT !.rt_sec = 2 * snd.swnd[i].rt_sec]
                           ELSE snd.swnd[i]],
              !.state = IF Exhausted(snd) = {} THEN @ ELSE "CLOSED"]
        /\ dataNet' = dataNet \cup
              {[seq |-> snd.swnd[i].seqnum, data |-> snd.swnd[i].data] : i \in slots}
        /\ UNCHANGED <<rcv, accepted, delivered, nread, ackNet>>

SenderTimer ==
    /\ snd.state = "OPEN"
    /\ \E late \in SUBSET Unacked(snd) : Retransmit(late)
-----------------------------------------------------------------------------
(* Actions of the receiving side. *)

\* in_state_open() for a data segment outside the window: it is answered by
\* an acknowledgement and discarded.
RejectData(m) ==
    /\ OutOfWindow(rcv, m.seq)
    /\ rcv' = [rcv EXCEPT !.ack = rcv.cur]
    /\ ackNet' = ackNet \cup {[ack |-> rcv.cur, eacks |-> {}]}
    /\ UNCHANGED delivered

\* in_state_open() for a data segment in the window: rwnd_recv_data(), with
\* the acknowledgement it ends in when enough was received since the last.
AcceptData(m) ==
    /\ ~ OutOfWindow(rcv, m.seq)
    /\ \E k \in 0..RLen :
         LET r1 == InsertData(rcv, m)
             r2 == TakeHead(r1, k)
         IN  /\ HeadRun(r1, k)
             /\ delivered' = PushRun(delivered, r1, k)
             /\ IF Sub(r2.cur, r2.ack) > RcvMax \div 4
                THEN /\ rcv' = delayed_ack(r2)
                     /\ ackNet' = ackNet \cup {DelayedAckSegment(r2)}
                ELSE /\ rcv' = r2
                     /\ UNCHANGED ackNet

RecvData ==
    /\ \E m \in dataNet : RejectData(m) \/ AcceptData(m)
    /\ UNCHANGED <<snd, accepted, nread, dataNet>>

\* timer_rdp: the acknowledgement that is due after ack_interval.
ReceiverTimer ==
    /\ AckIsDue(rcv)
    /\ rcv' = delayed_ack(rcv)
    /\ ackNet' = ackNet \cup {DelayedAckSegment(rcv)}
    /\ UNCHANGED <<snd, accepted, delivered, nread, dataNet>>

\* send_ostand_swnd() or retransmit() of the reverse direction: the segment
\* acknowledges rcv_cur but leaves rcv_ack alone.
Piggyback ==
    /\ ackNet' = ackNet \cup {[ack |-> rcv.cur, eacks |-> {}]}
    /\ UNCHANGED <<snd, rcv, accepted, delivered, nread, dataNet>>

\* receive(): pops as many payloads as fit the caller's buffer.
Receive ==
    /\ \E n \in (nread + 1)..Sub(rcv.cur, Iss) : nread' = n
    /\ UNCHANGED <<snd, rcv, accepted, delivered, dataNet, ackNet>>
-----------------------------------------------------------------------------
(* The specification. *)

Init ==
    /\ snd = init_swnd
    /\ rcv = init_rwnd
    /\ accepted = 0
    /\ delivered = [i \in 1..0 |-> NoData]
    /\ nread = 0
    /\ dataNet = {}
    /\ ackNet = {}

Next ==
    \/ Send
    \/ RecvAck
    \/ SenderTimer
    \/ RecvData
    \/ ReceiverTimer
    \/ Piggyback
    \/ Receive

Spec == Init /\ [][Next]_vars
-----------------------------------------------------------------------------
(* Properties. *)

TypeOK ==
    /\ snd \in SendState
    /\ rcv \in RecvState
    /\ accepted \in 0..MaxMsgs
    /\ delivered \in [1..Sub(rcv.cur, Iss) -> Payload]
    /\ nread \in 0..Sub(rcv.cur, Iss)
    /\ dataNet \subseteq DataSegment
    /\ ackNet \subseteq AckSegment

Acked(s) == {s.swnd[i].seqnum : i \in {j \in SIdx :
                /\ Dist(s.head, j, SLen) < s.used
                /\ s.swnd[j].is_sent
                /\ s.swnd[j].is_acked}}
Held(r) == {r.rwnd[i].seqnum : i \in {j \in RIdx : r.rwnd[j].is_used}}

\* Whatever is lost, duplicated or reordered on the way, the payloads that
\* rwnd_recv_data() has pushed on rqueue are the first ones send() accepted, in
\* their order and without a gap.
InOrder == \A i \in DOMAIN delivered : i <= accepted /\ delivered[i] = Input[i]

\* recv_ack() and recv_eack() drop the only copy the sender has of a segment
\* (pbuf.reset()): the receiver then has delivered it, or holds it in its window.
NothingAckedIsLost ==
    /\ Pos(snd.una) <= Pos(rcv.cur)
    /\ \A a \in Acked(snd) : Pos(a) <= Pos(rcv.cur) \/ a \in Held(rcv)

\* The three cursors and the counter of the sending ring agree with the
\* sequence numbers: what recv_ack() flushes, what send_ostand_swnd() may send
\* and what enqueue_swnd() accounts for are the same segments.  In particular
\* the oldest outstanding segment is never marked by recv_eack(), whose last
\* loop would move m_swnd_head without lowering m_swnd_used.
SwndExact ==
    /\ Outstanding(snd) = Sub(snd.nxt, snd.una) - 1
    /\ snd.used = accepted - Pos(snd.una)
    /\ Outstanding(snd) <= snd.used
    /\ \A i \in 0..(Outstanding(snd) - 1) :
         LET p == snd.swnd[Ring(snd.head, i, SLen)]
         IN  p.is_sent /\ p.seqnum = Add(snd.una, i + 1) /\ (i = 0 => ~ p.is_acked)

\* A segment waits in the ring only while the peer's window is full, so the
\* head of a ring that is not empty has been sent: recv_eack() reads its
\* sequence number and retransmit() stops at the first segment not sent.
WindowKeptFull ==
    snd.used > Outstanding(snd) => Outstanding(snd) = RcvMax - 1

\* m_rwnd_used counts the used slots: the scan of delayed_ack() ends when it
\* has seen that many.  The slot at m_rwnd_head is always free.
RwndExact ==
    /\ rcv.used = Cardinality({i \in RIdx : rcv.rwnd[i].is_used})
    /\ ~ rcv.rwnd[rcv.head].is_used

\* The counts and cursors of both rings are exact where their loops rely on them.
RingsExact == WindowKeptFull /\ RwndExact

\* The sender never outruns the receiver: in_state_open() finds every segment
\* the receiver still lacks inside its window, so it is never discarded there.
NeededFitsWindow ==
    \A m \in dataNet : Pos(m.seq) > Pos(rcv.cur) => ~ OutOfWindow(rcv, m.seq)

\* Late and duplicated acknowledgements never move SND.UNA back, nor late data
\* RCV.CUR, and no slot that the receiver acked is sent again.
NoRegress ==
    [][/\ Pos(snd'.una) >= Pos(snd.una)
       /\ Pos(rcv'.cur) >= Pos(rcv.cur)
       /\ \A a \in Acked(snd) : Pos(a) > Pos(snd'.una) => a \in Acked(snd')]_vars
-----------------------------------------------------------------------------
(* The inductive invariant.  It is stated in positions: Pos(w) numbers the   *)
(* segments of the connection from 1, so that it speaks of Input directly.   *)

\* The n accepted segments: Pos(s.una) of them flushed, the rest in the ring in
\* order, the first Outstanding(s) of these sent.
SndInv(s, n) ==
    /\ Pos(s.una) < Pos(s.nxt)
    /\ Pos(s.nxt) <= Pos(s.una) + RcvMax
    /\ Outstanding(s) = Pos(s.nxt) - Pos(s.una) - 1
    /\ s.used = n - Pos(s.una)
    /\ Outstanding(s) <= s.used
    /\ \A i \in 0..(s.used - 1) :
         LET p == s.swnd[Ring(s.head, i, SLen)]
         IN  /\ p.is_sent <=> i < Outstanding(s)
             /\ p.is_sent => p.seqnum = Add(s.una, i + 1)
             /\ p.is_acked => p.is_sent
             /\ ~ p.is_acked => p.data = Input[Pos(s.una) + 1 + i]

\* The receiver has delivered the first Pos(r.cur) segments and holds some of
\* those that were sent after the gap at Pos(r.cur) + 1.
RcvInv(r, q, last) ==
    /\ Pos(r.cur) <= last
    /\ q = [i \in 1..Pos(r.cur) |-> Input[i]]
    /\ \A i \in RIdx :
         LET p == r.rwnd[Ring(r.head, i, RLen)]
         IN  p.is_used => /\ i > 0
                          /\ Pos(r.cur) + 1 + i <= last
                          /\ p.seqnum = Add(r.cur, i + 1)
                          /\ p.data = Input[Pos(r.cur) + 1 + i]

\* The receiver has the segment e.
Got(r, e) ==
    \/ Pos(e) <= Pos(r.cur)
    \/ \E i \in RIdx : /\ r.rwnd[Ring(r.head, i, RLen)].is_used
                       /\ Pos(e) = Pos(r.cur) + 1 + i

Eacked == Acked(snd) \cup UNION {m.eacks : m \in ackNet}

StreamInv ==
    /\ SndInv(snd, accepted)
    /\ RcvInv(rcv, delivered, Pos(snd.nxt) - 1)
    /\ \A m \in dataNet : /\ Pos(m.seq) \in 1..(Pos(snd.nxt) - 1)
                          /\ m.data = Input[Pos(m.seq)]
    /\ Pos(snd.una) <= Pos(rcv.cur)
    /\ \A m \in ackNet : Pos(m.ack) <= Pos(rcv.cur)
    \* An extended ack names a segment beyond a gap: the receiver has it, and
    \* no acknowledgement ever stopped just before it.
    /\ \A e \in Eacked : /\ Got(rcv, e)
                         /\ Pos(e) # Pos(snd.una) + 1
                         /\ \A m \in ackNet : Pos(e) # Pos(m.ack) + 1
-----------------------------------------------------------------------------
(* Fairness and the abstract specification. *)

\* timer_rdp runs every 300 ms and time passes, so the timer of the segment at
\* the head of the window runs out again and again until it is acknowledged.
HeadTimer ==
    /\ snd.state = "OPEN"
    /\ \E late \in SUBSET Unacked(snd) : 0 \in late /\ Retransmit(late)

FairSpec == Spec /\ WF_vars(HeadTimer)

Channel == INSTANCE RdpChannel WITH broken <- (snd.state = "CLOSED")

\* The windows implement the channel: Channel!ChanSpec is its safety part, the
\* fair one adds that accepted segments do not stay behind in silence.
ImplementsChannel == Channel!FairChanSpec
=============================================================================
