----------------------------- MODULE RdpProofs -----------------------------
(***************************************************************************)
(* Proofs about rdp.  The first half is about RdpStream, for every window  *)
(* size, word size, initial sequence number and input; the second about    *)
(* RdpConn, for every number of records and segments, while datagrams are  *)
(* lost, repeated and reordered.                                           *)
(***************************************************************************)
EXTENDS RdpStream, RdpConn, FiniteSetTheorems, WellFoundedInduction, TLAPS

-----------------------------------------------------------------------------
(* Words and rings. *)

\* Unsigned subtraction and addition of sequence numbers, seen from snd_iss:
\* the code's wrapped comparisons order segments as their positions do.
LEMMA WordFacts ==
    ASSUME NEW a \in Word, NEW b \in Word
    PROVE  /\ Pos(a) \in Word
           /\ Pos(a) \in Nat
           /\ Pos(a) < SeqMod
           /\ Sub(a, b) \in Word
           /\ Pos(a) = Pos(b) => a = b
           /\ Sub(a, b) = IF Pos(b) <= Pos(a) THEN Pos(a) - Pos(b)
                                              ELSE Pos(a) - Pos(b) + SeqMod
BY StreamAssumption DEF Word, Pos, Sub

\* Adding less than a whole turn moves a sequence number on by that many positions.
LEMMA AddFacts ==
    ASSUME NEW a \in Word, NEW k \in Nat, k < SeqMod
    PROVE  /\ Add(a, k) \in Word
           /\ Pos(a) + k < SeqMod => Pos(Add(a, k)) = Pos(a) + k
BY StreamAssumption DEF Word, Pos, Sub, Add

\* Two additions to a sequence number are one.
LEMMA AddAdd ==
    ASSUME NEW a \in Word, NEW k \in Nat, NEW j \in Nat, k + j < SeqMod
    PROVE  Add(Add(a, k), j) = Add(a, k + j)
BY StreamAssumption DEF Word, Add

\* The numbers a connection starts with: snd_iss is position 0, the first segment 1.
LEMMA StreamIssFacts ==
    /\ Iss \in Word
    /\ Pos(Iss) = 0
    /\ Pos(Add(Iss, 1)) = 1
    /\ Add(Iss, 1) \in Word
BY StreamAssumption DEF Word, Pos, Sub, Add

\* Ring and Dist are inverse to each other on a ring of len slots.
LEMMA RingFacts ==
    ASSUME NEW len \in Nat \ {0}, NEW h \in 0..(len - 1), NEW i \in 0..len
    PROVE  /\ Ring(h, i, len) \in 0..(len - 1)
           /\ i < len => Dist(h, Ring(h, i, len), len) = i
BY DEF Ring, Dist

\* Two moves along a ring, together no longer than a turn, are one.
LEMMA RingAdd ==
    ASSUME NEW len \in Nat \ {0}, NEW h \in 0..(len - 1),
           NEW i \in 0..len, NEW j \in 0..len, i + j <= len
    PROVE  Ring(Ring(h, i, len), j, len) = Ring(h, i + j, len)
BY DEF Ring

\* How far two moves lead, when they may be longer than a turn.
LEMMA RingTurn ==
    ASSUME NEW len \in Nat \ {0}, NEW h \in 0..(len - 1),
           NEW i \in 0..len, NEW j \in 0..(len - 1)
    PROVE  Dist(h, Ring(Ring(h, i, len), j, len), len) =
                IF i + j < len THEN i + j ELSE i + j - len
BY DEF Ring, Dist

\* Distances seen from a head that has moved by i.
LEMMA DistShift ==
    ASSUME NEW len \in Nat \ {0}, NEW h \in 0..(len - 1),
           NEW i \in 0..len, NEW j \in 0..(len - 1)
    PROVE  Dist(Ring(h, i, len), j, len) =
                IF i <= Dist(h, j, len) THEN Dist(h, j, len) - i
                                        ELSE Dist(h, j, len) - i + len
BY DEF Ring, Dist

\* The distance of a slot from the head leads from the head to the slot.
LEMMA DistFacts ==
    ASSUME NEW len \in Nat \ {0}, NEW h \in 0..(len - 1), NEW j \in 0..(len - 1)
    PROVE  /\ Dist(h, j, len) \in 0..(len - 1)
           /\ Ring(h, Dist(h, j, len), len) = j
BY DEF Ring, Dist

\* Both rings have slots, fewer than there are sequence numbers.
LEMMA Lengths ==
    /\ RLen \in Nat \ {0}
    /\ SLen \in Nat \ {0}
    /\ RLen < SeqMod
    /\ SLen < SeqMod
    /\ RcvMax < SLen
    /\ RIdx = 0..(RLen - 1)
    /\ SIdx = 0..(SLen - 1)
BY StreamAssumption DEF RLen, SLen, RIdx, SIdx
-----------------------------------------------------------------------------
(* The sending half: each operator keeps SndInv. *)

\* The segments an operator on the sending window may mark as acked.
LEMMA OutstandingFacts ==
    ASSUME NEW s \in SendState
    PROVE  /\ Outstanding(s) \in 0..(SLen - 1)
           /\ Ring(s.head, Outstanding(s), SLen) = s.ostand
BY Lengths, DistFacts DEF SendState, Outstanding

\* enqueue_swnd() puts the next segment of the input behind the others.
LEMMA EnqueueSafe ==
    ASSUME NEW s \in SendState, NEW n \in 0..(MaxMsgs - 1),
           SndInv(s, n), s.used < SLen
    PROVE  LET t == enqueue_swnd(s, Input[n + 1])
           IN  /\ t \in SendState
               /\ SndInv(t, n + 1)
               /\ t.una = s.una /\ t.nxt = s.nxt
               /\ t.used = s.used + 1 /\ Outstanding(t) = Outstanding(s)
               /\ Acked(t) = Acked(s)
<1> DEFINE e == Ring(s.head, s.used, SLen)
           t == enqueue_swnd(s, Input[n + 1])
<1>1. e \in SIdx /\ Input[n + 1] \in Payload
  <2>1. s.head \in 0..(SLen - 1) /\ s.used \in 0..SLen
    BY Lengths DEF SendState
  <2>2. e \in 0..(SLen - 1)
    BY <2>1, Lengths, RingFacts
  <2>3. n + 1 \in 1..MaxMsgs
    BY StreamAssumption
  <2> QED
    BY <2>2, <2>3, Lengths, StreamAssumption
<1> DEFINE p == [s.swnd[e] EXCEPT !.data = Input[n + 1], !.is_acked = FALSE,
                                  !.is_sent = FALSE, !.rt_sec = 1]
<1> DEFINE u == s.used + 1
           w == [s.swnd EXCEPT ![e] = p]
<1>u. u \in 0..SLen
  BY Lengths DEF SendState
<1>p. s.swnd[e] \in SwndSlot /\ p \in SwndSlot /\ w \in [SIdx -> SwndSlot]
  <2>1. s.swnd[e] \in SwndSlot
    BY <1>1 DEF SendState
  <2>2. p \in SwndSlot
    BY <1>1, <2>1 DEF SwndSlot
  <2> HIDE DEF p
  <2> QED
    BY <1>1, <2>1, <2>2 DEF SendState
<1>t. t = [s EXCEPT !.used = u, !.swnd = w]
  BY DEF enqueue_swnd
<1>2. /\ t \in SendState
      /\ t.una = s.una /\ t.nxt = s.nxt /\ t.head = s.head
      /\ t.ostand = s.ostand /\ t.used = u /\ t.swnd = w
  <2> HIDE DEF w, u, t
  <2> QED
    BY <1>u, <1>p, <1>t DEF SendState
<1>3. \A i \in SIdx : t.swnd[i] =
         IF i = e THEN p ELSE s.swnd[i]
  BY <1>1, <1>2 DEF SendState
<1>4. /\ t.swnd[e].data = Input[n + 1]
      /\ t.swnd[e].is_acked = FALSE
      /\ t.swnd[e].is_sent = FALSE
  BY <1>1, <1>3, <1>p DEF SwndSlot
<1>5. \A i \in 0..(s.used - 1) : Ring(s.head, i, SLen) \in SIdx \ {e}
  <2>1. s.head \in 0..(SLen - 1) /\ s.used \in 0..SLen
    BY Lengths DEF SendState
  <2> SUFFICES ASSUME NEW i \in 0..(s.used - 1)
               PROVE  Ring(s.head, i, SLen) \in SIdx \ {e}
    OBVIOUS
  <2>2. i \in 0..SLen /\ i < SLen /\ i # s.used
    BY <2>1, Lengths
  <2>3. /\ Ring(s.head, i, SLen) \in 0..(SLen - 1)
        /\ Dist(s.head, Ring(s.head, i, SLen), SLen) = i
    BY <2>1, <2>2, Lengths, RingFacts
  <2>4. Dist(s.head, e, SLen) = s.used
    BY <2>1, Lengths, RingFacts
  <2> HIDE DEF e
  <2> QED
    BY <2>2, <2>3, <2>4, Lengths
<1> HIDE DEF p, w, t
<1>6. SndInv(t, n + 1)
  <2>1. Outstanding(t) = Outstanding(s) /\ Outstanding(s) \in Nat
    BY <1>2, OutstandingFacts DEF Outstanding
  <2>2. Pos(s.una) \in Nat /\ Pos(s.nxt) \in Nat /\ s.used \in Nat
    BY WordFacts, StreamAssumption DEF SendState, Word
  <2>3. ASSUME NEW i \in 0..(t.used - 1)
        PROVE  LET q == t.swnd[Ring(t.head, i, SLen)]
               IN  /\ q.is_sent <=> i < Outstanding(t)
                   /\ q.is_sent => q.seqnum = Add(t.una, i + 1)
                   /\ q.is_acked => q.is_sent
                   /\ ~ q.is_acked => q.data = Input[Pos(t.una) + 1 + i]
    <3>1. CASE i = s.used
      BY <3>1, <1>1, <1>2, <1>4, <2>1, <2>2 DEF SndInv
    <3>2. CASE i # s.used
      <4>1. i \in 0..(s.used - 1)
        BY <3>2, <1>2, <2>2
      <4>2. t.swnd[Ring(t.head, i, SLen)] = s.swnd[Ring(s.head, i, SLen)]
        BY <4>1, <1>2, <1>3, <1>5
      <4> QED
        BY <4>1, <4>2, <1>2, <2>1 DEF SndInv
    <3> QED
      BY <3>1, <3>2
  <2> QED
    BY <1>2, <2>1, <2>2, <2>3 DEF SndInv
<1>7. Acked(t) \subseteq Acked(s)
  <2> SUFFICES ASSUME NEW j \in SIdx, Dist(t.head, j, SLen) < t.used,
                      t.swnd[j].is_sent, t.swnd[j].is_acked
               PROVE  t.swnd[j].seqnum \in Acked(s)
    BY DEF Acked
  <2>1. j # e
    BY <1>4
  <2>2. Dist(s.head, j, SLen) < s.used
    <3>1. /\ Dist(s.head, j, SLen) \in Nat /\ s.used \in Nat
          /\ Ring(s.head, Dist(s.head, j, SLen), SLen) = j
      BY Lengths, DistFacts DEF SendState
    <3> QED
      BY <1>2, <2>1, <3>1
  <2> QED
    BY <1>3, <2>1, <2>2 DEF Acked
<1>8. Acked(s) \subseteq Acked(t)
  <2> SUFFICES ASSUME NEW j \in SIdx, Dist(s.head, j, SLen) < s.used,
                      s.swnd[j].is_sent, s.swnd[j].is_acked
               PROVE  s.swnd[j].seqnum \in Acked(t)
    BY DEF Acked
  <2>1. s.head \in 0..(SLen - 1) /\ j \in 0..(SLen - 1) /\ s.used \in 0..SLen
    BY Lengths DEF SendState
  <2>2. Dist(s.head, e, SLen) = s.used
    BY <2>1, Lengths, RingFacts
  <2>3. Dist(s.head, j, SLen) \in Nat
    <3>1. SLen \in Nat \ {0}
      BY Lengths
    <3>2. Dist(s.head, j, SLen) \in 0..(SLen - 1)
      BY <2>1, <3>1, DistFacts
    <3> QED
      BY <3>2
  <2> HIDE DEF e
  <2>4. j # e /\ Dist(s.head, j, SLen) < t.used
    BY <1>2, <2>1, <2>2, <2>3, Lengths
  <2> QED
    BY <1>2, <1>3, <2>4 DEF Acked
<1>9. Outstanding(t) = Outstanding(s)
  BY <1>2 DEF Outstanding
<1> QED
  BY <1>2, <1>6, <1>7, <1>8, <1>9 DEF t

\* What SndInv says of the numbers involved.
LEMMA SndNumbers ==
    ASSUME NEW s \in SendState, NEW n \in 0..MaxMsgs, SndInv(s, n)
    PROVE  /\ Pos(s.una) \in Nat /\ Pos(s.nxt) \in Nat
           /\ s.used \in 0..SLen /\ Outstanding(s) \in 0..(SLen - 1)
           /\ Pos(s.una) + s.used = n
           /\ Pos(s.nxt) = Pos(s.una) + Outstanding(s) + 1
           /\ Pos(s.nxt) <= n + 1
           /\ Sub(s.nxt, s.una) = Outstanding(s) + 1
           /\ s.nxt = Add(s.una, Outstanding(s) + 1)
<1>1. /\ Pos(s.una) \in Nat /\ Pos(s.nxt) \in Nat /\ s.used \in 0..SLen
      /\ s.una \in Word /\ s.nxt \in Word /\ Outstanding(s) \in 0..(SLen - 1)
  <2>1. s.una \in Word /\ s.nxt \in Word /\ s.used \in 0..SLen
    BY DEF SendState
  <2>2. Pos(s.una) \in Word /\ Pos(s.nxt) \in Word
    BY <2>1, WordFacts
  <2> QED
    BY <2>1, <2>2, OutstandingFacts, StreamAssumption DEF Word
<1>2. /\ Pos(s.una) + s.used = n
      /\ Pos(s.nxt) = Pos(s.una) + Outstanding(s) + 1
      /\ Pos(s.nxt) <= n + 1
  <2>1. n \in Nat /\ SLen \in Nat
    BY StreamAssumption, Lengths
  <2>2. /\ Outstanding(s) = Pos(s.nxt) - Pos(s.una) - 1
        /\ s.used = n - Pos(s.una)
        /\ Outstanding(s) <= s.used
    BY DEF SndInv
  <2> QED
    BY <1>1, <2>1, <2>2
<1>3. Sub(s.nxt, s.una) = Outstanding(s) + 1
  BY <1>1, <1>2, WordFacts
<1>4. s.nxt = Add(s.una, Outstanding(s) + 1)
  <2>1. Outstanding(s) + 1 < SeqMod /\ Pos(s.una) + (Outstanding(s) + 1) < SeqMod
    BY <1>1, <1>2, StreamAssumption, Lengths, SMTT(60)
  <2>2. /\ Add(s.una, Outstanding(s) + 1) \in Word
        /\ Pos(Add(s.una, Outstanding(s) + 1)) = Pos(s.nxt)
    BY <1>1, <1>2, <2>1, AddFacts
  <2> QED
    BY <1>1, <2>2, WordFacts
<1> QED
  BY <1>1, <1>2, <1>3, <1>4

\* The loop of send_ostand_swnd() stays behind the end of the ring and within
\* the window of the peer.
LEMMA OstandBound ==
    ASSUME NEW s \in SendState, NEW n \in 0..MaxMsgs, SndInv(s, n)
    PROVE  /\ OstandCount(s) \in Nat
           /\ OstandCount(s) <= s.used - Outstanding(s)
           /\ Outstanding(s) + 1 + OstandCount(s) <= RcvMax
<1> DEFINE d == Dist(s.ostand, Ring(s.head, s.used, SLen), SLen)
<1>0. /\ s.used \in 0..SLen /\ Outstanding(s) \in 0..(SLen - 1)
      /\ SLen \in Nat \ {0} /\ RcvMax \in Nat
      /\ s.head \in 0..(SLen - 1) /\ s.ostand \in 0..(SLen - 1)
      /\ Outstanding(s) <= s.used
  BY Lengths, SndNumbers, StreamAssumption DEF SendState, SndInv
<1>1. d \in Nat /\ d <= s.used - Outstanding(s)
  BY <1>0 DEF Outstanding, Ring, Dist
<1>2. Outstanding(s) + 1 <= RcvMax
  BY <1>0, SndNumbers DEF SndInv
<1>3. OstandCount(s) = Least(d, IF Outstanding(s) + 1 < RcvMax
                                THEN RcvMax - (Outstanding(s) + 1) ELSE 0)
  BY SndNumbers DEF OstandCount
<1> HIDE DEF d
<1> QED
  BY <1>0, <1>1, <1>2, <1>3 DEF Least

\* send_ostand_swnd() sends the next segments of the ring under the next numbers.
LEMMA OstandSafe ==
    ASSUME NEW s \in SendState, NEW n \in 0..MaxMsgs, SndInv(s, n)
    PROVE  LET t == send_ostand_swnd(s)
           IN  /\ t \in SendState
               /\ SndInv(t, n)
               /\ t.una = s.una /\ t.state = s.state
               /\ Pos(s.nxt) <= Pos(t.nxt)
               /\ t.used = s.used /\ Outstanding(t) = Outstanding(s) + OstandCount(s)
               /\ Acked(t) = Acked(s)
               /\ \A g \in OstandSegments(s) :
                    /\ g \in DataSegment
                    /\ Pos(g.seq) \in 1..(Pos(t.nxt) - 1)
                    /\ g.data = Input[Pos(g.seq)]
<1> DEFINE m == OstandCount(s)
           out == Outstanding(s)
           o == Ring(s.ostand, m, SLen)
           x == Add(s.nxt, m)
           w == [i \in SIdx |->
                   IF Dist(s.ostand, i, SLen) < m
                   THEN [s.swnd[i] EXCEPT !.is_sent = TRUE,
                           !.seqnum = Add(s.nxt, Dist(s.ostand, i, SLen))]
                   ELSE s.swnd[i]]
           t == send_ostand_swnd(s)
<1>0. /\ m \in Nat /\ out \in Nat /\ s.used \in Nat
      /\ out < SLen /\ s.used <= SLen
      /\ m <= s.used - out /\ out + 1 + m <= RcvMax
      /\ SLen \in Nat \ {0} /\ SLen < SeqMod /\ RcvMax < SLen
      /\ RcvMax \in Nat /\ SeqMod \in Nat /\ n \in Nat /\ MaxMsgs \in Nat
      /\ n + RcvMax + 1 < SeqMod /\ n <= MaxMsgs
  <2>1. /\ RcvMax \in Nat /\ SeqMod \in Nat /\ n \in Nat /\ MaxMsgs \in Nat
        /\ n + RcvMax + 1 < SeqMod /\ n <= MaxMsgs
    BY StreamAssumption
  <2>2. SLen \in Nat \ {0} /\ SLen < SeqMod /\ RcvMax < SLen
    BY Lengths
  <2>3. out \in 0..(SLen - 1) /\ s.used \in 0..SLen
    BY SndNumbers
  <2>4. m \in Nat /\ m <= s.used - out /\ out + 1 + m <= RcvMax
    BY OstandBound
  <2> HIDE DEF m, out
  <2> QED
    BY <2>1, <2>2, <2>3, <2>4
<1>r. /\ SLen \in Nat \ {0}
      /\ s.head \in 0..(SLen - 1) /\ s.ostand \in 0..(SLen - 1)
      /\ s.ostand = Ring(s.head, out, SLen)
  BY Lengths, OutstandingFacts DEF SendState
<1>w. /\ s.una \in Word /\ s.nxt \in Word
      /\ s.swnd \in [SIdx -> SwndSlot]
  BY DEF SendState
<1>s. \A i : i \in SIdx <=> i \in 0..(SLen - 1)
  BY Lengths
<1>1. /\ Pos(s.una) \in Nat /\ Pos(s.una) + s.used = n
      /\ Pos(s.nxt) = Pos(s.una) + out + 1
      /\ s.nxt = Add(s.una, out + 1)
  BY SndNumbers
<1> HIDE DEF m, out
<1>2. /\ x \in Word /\ Pos(x) = Pos(s.nxt) + m
      /\ \A d \in 0..m : /\ Add(s.nxt, d) \in Word
                         /\ Add(s.nxt, d) = Add(s.una, out + 1 + d)
                         /\ Pos(Add(s.nxt, d)) = Pos(s.nxt) + d
  <2>1. ASSUME NEW d \in 0..m
        PROVE  /\ Add(s.nxt, d) \in Word
               /\ Add(s.nxt, d) = Add(s.una, out + 1 + d)
               /\ Pos(Add(s.nxt, d)) = Pos(s.nxt) + d
    <3>1. d < SeqMod /\ Pos(s.nxt) + d < SeqMod /\ out + 1 < SeqMod /\ out + 1 + d < SeqMod
      BY <1>0, <1>1
    <3>2. d \in Nat /\ out + 1 \in Nat
      BY <1>0
    <3>3. Add(s.nxt, d) \in Word /\ Pos(Add(s.nxt, d)) = Pos(s.nxt) + d
      BY <1>w, <3>1, <3>2, AddFacts
    <3>4. Add(Add(s.una, out + 1), d) = Add(s.una, out + 1 + d)
      BY <1>w, <3>1, <3>2, AddAdd
    <3> QED
      BY <1>1, <3>3, <3>4
  <2> QED
    BY <1>0, <2>1
<1>3. o \in SIdx
  <2>1. m \in 0..SLen
    BY <1>0
  <2> QED
    BY <1>r, <1>s, <2>1, RingFacts
<1>4. w \in [SIdx -> SwndSlot]
  <2> SUFFICES ASSUME NEW i \in SIdx, Dist(s.ostand, i, SLen) < m
               PROVE  [s.swnd[i] EXCEPT !.is_sent = TRUE,
                         !.seqnum = Add(s.nxt, Dist(s.ostand, i, SLen))] \in SwndSlot
    BY <1>w
  <2>0. Dist(s.ostand, i, SLen) \in 0..m
    BY <1>0, <1>r, <1>s, DistFacts
  <2>1. Add(s.nxt, Dist(s.ostand, i, SLen)) \in Word
    BY <1>2, <2>0
  <2>2. s.swnd[i] \in SwndSlot
    BY <1>w
  <2> QED
    BY <2>1, <2>2 DEF SwndSlot
<1>5. t = [s EXCEPT !.ostand = o, !.nxt = x, !.swnd = w]
  BY DEF send_ostand_swnd, m
<1>6. /\ t \in SendState
      /\ t.una = s.una /\ t.state = s.state /\ t.head = s.head /\ t.used = s.used
      /\ t.ostand = o /\ t.nxt = x /\ t.swnd = w
  <2> HIDE DEF o, x, w, t
  <2> QED
    BY <1>2, <1>3, <1>4, <1>5 DEF SendState
<1>7. \A i \in SIdx : IF Dist(s.ostand, i, SLen) < m
         THEN /\ t.swnd[i].is_sent = TRUE
              /\ t.swnd[i].seqnum = Add(s.nxt, Dist(s.ostand, i, SLen))
              /\ t.swnd[i].is_acked = s.swnd[i].is_acked
              /\ t.swnd[i].data = s.swnd[i].data
         ELSE t.swnd[i] = s.swnd[i]
  BY <1>w, <1>6 DEF SwndSlot
<1> HIDE DEF o, x, w, t
<1>8. Outstanding(t) = out + m
  <2>1. out \in 0..SLen /\ m \in 0..SLen /\ out + m \in 0..SLen /\ out + m < SLen
    BY <1>0
  <2>2. o = Ring(s.head, out + m, SLen)
    BY <1>r, <2>1, RingAdd DEF o
  <2>3. Dist(s.head, Ring(s.head, out + m, SLen), SLen) = out + m
    BY <1>r, <2>1, RingFacts
  <2> QED
    BY <1>6, <2>2, <2>3 DEF Outstanding
\* The slot i places behind the head is less than m places behind the old
\* m_swnd_ostand exactly when i is between the old and the new value.
<1>9. ASSUME NEW i \in 0..(s.used - 1)
      PROVE  /\ Ring(s.head, i, SLen) \in SIdx
             /\ i < out => Dist(s.ostand, Ring(s.head, i, SLen), SLen) >= m
             /\ i >= out => Dist(s.ostand, Ring(s.head, i, SLen), SLen) = i - out
  <2>1. i \in 0..SLen /\ i < SLen /\ out \in 0..SLen
    BY <1>0
  <2>2. /\ Ring(s.head, i, SLen) \in 0..(SLen - 1)
        /\ Dist(s.head, Ring(s.head, i, SLen), SLen) = i
    BY <1>r, <2>1, RingFacts
  <2>3. Dist(Ring(s.head, out, SLen), Ring(s.head, i, SLen), SLen) =
          IF out <= i THEN i - out ELSE i - out + SLen
    BY <1>r, <2>1, <2>2, DistShift
  <2> QED
    BY <1>0, <1>r, <1>s, <2>1, <2>2, <2>3
<1>10. SndInv(t, n)
  <2>1. Pos(t.nxt) = Pos(s.nxt) + m
    BY <1>2, <1>6
  <2>2. ASSUME NEW i \in 0..(t.used - 1)
        PROVE  LET p == t.swnd[Ring(t.head, i, SLen)]
               IN  /\ p.is_sent <=> i < Outstanding(t)
                   /\ p.is_sent => p.seqnum = Add(t.una, i + 1)
                   /\ p.is_acked => p.is_sent
                   /\ ~ p.is_acked => p.data = Input[Pos(t.una) + 1 + i]
    <3> DEFINE j == Ring(s.head, i, SLen)
    <3>1. i \in 0..(s.used - 1) /\ i \in Nat
      BY <1>0, <1>6
    <3>2. /\ s.swnd[j].is_sent <=> i < out
          /\ s.swnd[j].is_sent => s.swnd[j].seqnum = Add(s.una, i + 1)
          /\ s.swnd[j].is_acked => s.swnd[j].is_sent
          /\ ~ s.swnd[j].is_acked => s.swnd[j].data = Input[Pos(s.una) + 1 + i]
      BY <3>1 DEF SndInv, out
    <3>3. j \in SIdx
      BY <3>1, <1>9
    <3> HIDE DEF j
    <3>4. CASE i < out \/ i >= out + m
      <4>1. ~ (Dist(s.ostand, j, SLen) < m)
        <5>0. Dist(s.ostand, j, SLen) \in Nat
          BY <1>r, <1>s, <3>3, DistFacts
        <5>1. CASE i < out
          BY <1>0, <1>9, <3>1, <5>0, <5>1 DEF j
        <5>2. CASE i >= out + m
          BY <1>0, <1>9, <3>1, <5>2 DEF j
        <5> QED
          BY <3>4, <5>1, <5>2
      <4>2. t.swnd[j] = s.swnd[j]
        BY <4>1, <3>3, <1>7
      <4> QED
        BY <1>0, <1>6, <1>8, <3>1, <3>2, <3>4, <4>2 DEF j
    <3>5. CASE i >= out /\ i < out + m
      <4>1. Dist(s.ostand, j, SLen) = i - out /\ i - out \in 0..m
        BY <1>0, <1>9, <3>1, <3>5 DEF j
      <4>2. /\ t.swnd[j].is_sent = TRUE
            /\ t.swnd[j].seqnum = Add(s.nxt, i - out)
            /\ t.swnd[j].is_acked = s.swnd[j].is_acked
            /\ t.swnd[j].data = s.swnd[j].data
        BY <1>0, <4>1, <3>1, <3>3, <3>5, <1>7
      <4>3. Add(s.nxt, i - out) = Add(s.una, i + 1)
        <5>1. out + 1 + (i - out) = i + 1
          BY <1>0, <3>1
        <5> QED
          BY <4>1, <1>2, <5>1
      <4>4. ~ s.swnd[j].is_acked
        BY <3>2, <3>5, <3>1, <1>0
      <4> QED
        BY <1>6, <1>8, <3>2, <3>5, <4>2, <4>3, <4>4 DEF j
    <3> QED
      BY <1>0, <3>1, <3>4, <3>5
  <2>3. /\ Pos(s.una) < Pos(s.nxt) /\ s.used = n - Pos(s.una)
    BY DEF SndInv
  <2>4. /\ Pos(t.una) < Pos(t.nxt)
        /\ Pos(t.nxt) <= Pos(t.una) + RcvMax
        /\ Outstanding(t) = Pos(t.nxt) - Pos(t.una) - 1
        /\ t.used = n - Pos(t.una)
        /\ Outstanding(t) <= t.used
    BY <1>0, <1>1, <1>6, <1>8, <2>1, <2>3
  <2> QED
    BY <2>2, <2>4 DEF SndInv
<1>11. Acked(t) \subseteq Acked(s)
  <2> SUFFICES ASSUME NEW j \in SIdx, Dist(t.head, j, SLen) < t.used,
                      t.swnd[j].is_sent, t.swnd[j].is_acked
               PROVE  t.swnd[j].seqnum \in Acked(s)
    BY DEF Acked
  <2>1. /\ Dist(s.head, j, SLen) \in 0..(s.used - 1)
        /\ Ring(s.head, Dist(s.head, j, SLen), SLen) = j
    <3>1. /\ Dist(s.head, j, SLen) \in 0..(SLen - 1)
          /\ Ring(s.head, Dist(s.head, j, SLen), SLen) = j
      BY <1>r, <1>s, DistFacts
    <3> QED
      BY <1>0, <1>6, <3>1
  <2>2. s.swnd[j].is_acked
    BY <1>7
  <2>3. s.swnd[j].is_sent /\ Dist(s.head, j, SLen) < out
    BY <2>1, <2>2 DEF SndInv, out
  <2>4. t.swnd[j] = s.swnd[j]
    <3>1. Dist(s.ostand, j, SLen) >= m
      BY <1>9, <2>1, <2>3
    <3>2. ~ (Dist(s.ostand, j, SLen) < m)
      BY <3>1, <1>0, <1>r, <1>s, DistFacts
    <3> QED
      BY <1>7, <3>2
  <2> QED
    BY <1>6, <2>2, <2>3, <2>4 DEF Acked
<1>12. ASSUME NEW g \in OstandSegments(s)
       PROVE  /\ g \in DataSegment
              /\ Pos(g.seq) \in 1..(Pos(t.nxt) - 1)
              /\ g.data = Input[Pos(g.seq)]
  <2>1. PICK i \in 0..(m - 1) :
          g = [seq |-> Add(s.nxt, i), data |-> s.swnd[Ring(s.ostand, i, SLen)].data]
    BY DEF OstandSegments, m
  <2>2. i + out \in 0..(s.used - 1) /\ i \in 0..m
    BY <1>0
  <2>3. Ring(s.ostand, i, SLen) = Ring(s.head, i + out, SLen)
    <3>1. out \in 0..SLen /\ i \in 0..SLen /\ out + i <= SLen /\ out + i = i + out
      BY <1>0, <2>2
    <3> QED
      BY <1>r, <3>1, RingAdd
  <2>4. s.swnd[Ring(s.head, i + out, SLen)].data = Input[Pos(s.una) + 1 + (i + out)]
    <3>1. ~ (i + out < out)
      BY <1>0, <2>2
    <3> QED
      BY <2>2, <3>1 DEF SndInv, out
  <2>5. Pos(g.seq) = Pos(s.una) + 1 + (i + out) /\ g.seq \in Word
    BY <1>0, <1>1, <1>2, <2>1, <2>2
  <2>6. Pos(g.seq) \in 1..MaxMsgs
    BY <1>0, <1>1, <2>2, <2>5
  <2>7. g.data = Input[Pos(g.seq)] /\ g.data \in Payload
    BY <2>1, <2>3, <2>4, <2>5, <2>6, StreamAssumption
  <2> QED
    <3>1. g \in DataSegment
      BY <2>1, <2>5, <2>7 DEF DataSegment
    <3>2. Pos(g.seq) \in 1..(Pos(t.nxt) - 1)
      BY <1>0, <1>1, <1>2, <1>6, <2>2, <2>5
    <3> QED
      BY <2>7, <3>1, <3>2
<1>13. Pos(s.nxt) <= Pos(t.nxt)
  BY <1>0, <1>1, <1>2, <1>6
<1>14. Acked(s) \subseteq Acked(t)
  <2> SUFFICES ASSUME NEW j \in SIdx, Dist(s.head, j, SLen) < s.used,
                      s.swnd[j].is_sent, s.swnd[j].is_acked
               PROVE  s.swnd[j].seqnum \in Acked(t)
    BY DEF Acked
  <2>1. /\ Dist(s.head, j, SLen) \in 0..(s.used - 1)
        /\ Ring(s.head, Dist(s.head, j, SLen), SLen) = j
    <3>1. /\ Dist(s.head, j, SLen) \in 0..(SLen - 1)
          /\ Ring(s.head, Dist(s.head, j, SLen), SLen) = j
      BY <1>r, <1>s, DistFacts
    <3> QED
      BY <1>0, <3>1
  <2>2. Dist(s.head, j, SLen) < out
    BY <2>1 DEF SndInv, out
  <2>3. t.swnd[j] = s.swnd[j]
    <3>1. Dist(s.ostand, j, SLen) >= m
      BY <1>9, <2>1, <2>2
    <3>2. ~ (Dist(s.ostand, j, SLen) < m)
      BY <3>1, <1>0, <1>r, <1>s, DistFacts
    <3> QED
      BY <1>7, <3>2
  <2> QED
    BY <1>6, <2>3 DEF Acked
<1>15. Acked(t) = Acked(s)
  BY <1>11, <1>14
<1> QED
  BY <1>6, <1>8, <1>10, <1>12, <1>13, <1>15 DEF t, m, out

\* How many slots lie between a mark and the end of the used ones; when all are used
\* the mark must not be at the head, which is the end too.
LEMMA RingGap ==
    ASSUME NEW len \in Nat \ {0}, NEW h \in 0..(len - 1), NEW o \in 0..(len - 1),
           NEW u \in 0..len, Dist(h, o, len) <= u, u < len \/ Dist(h, o, len) > 0
    PROVE  Dist(o, Ring(h, u, len), len) = u - Dist(h, o, len)
BY DEF Ring, Dist

\* What WindowKeptFull says of the sending half s.
Full(s) == s.used > Outstanding(s) => Outstanding(s) = RcvMax - 1

\* send_ostand_swnd() leaves no segment behind that the window of the peer has room
\* for; a full ring of which nothing is outstanding would look empty to it.
LEMMA OstandFills ==
    ASSUME NEW s \in SendState, NEW n \in 0..MaxMsgs, SndInv(s, n),
           s.used < SLen \/ Outstanding(s) > 0
    PROVE  Full(send_ostand_swnd(s))
<1> DEFINE d == Dist(s.ostand, Ring(s.head, s.used, SLen), SLen)
           t == send_ostand_swnd(s)
           out == Outstanding(s)
           m == OstandCount(s)
<1>0. /\ s.used \in 0..SLen /\ out \in 0..(SLen - 1)
      /\ SLen \in Nat \ {0} /\ RcvMax \in Nat
      /\ s.head \in 0..(SLen - 1) /\ s.ostand \in 0..(SLen - 1)
      /\ out <= s.used
  BY Lengths, SndNumbers, StreamAssumption DEF SendState, SndInv
<1>1. d = s.used - out
  <2>1. Dist(s.head, s.ostand, SLen) = out
    BY DEF Outstanding
  <2> HIDE DEF out
  <2>2. s.used < SLen \/ out > 0
    BY DEF out
  <2> QED
    BY <1>0, <2>1, <2>2, RingGap
<1>2. m = Least(d, IF out + 1 < RcvMax THEN RcvMax - (out + 1) ELSE 0)
  BY SndNumbers DEF OstandCount
<1>3. out + 1 <= RcvMax
  BY <1>0, SndNumbers DEF SndInv
<1>4. t.used = s.used /\ Outstanding(t) = out + m
  BY OstandSafe
<1> HIDE DEF d, t, out, m
<1>5. s.used > out + m => out + m = RcvMax - 1
  BY <1>0, <1>1, <1>2, <1>3 DEF Least
<1> QED
  BY <1>4, <1>5 DEF Full, t

\* recv_ack() flushes exactly the segments up to the acknowledged one, and only
\* when that one is outstanding.
LEMMA AckCount ==
    ASSUME NEW s \in SendState, NEW n \in 0..MaxMsgs, SndInv(s, n),
           NEW a \in Word, NEW k \in 0..Outstanding(s), AckFlushes(s, a, k),
           AckInWindow(s, a)
    PROVE  Pos(a) = Pos(s.una) + k
<1> DEFINE out == Outstanding(s)
<1>0. /\ out \in Nat /\ n \in Nat /\ SeqMod \in Nat /\ k \in Nat /\ k <= out
      /\ Pos(s.una) \in Nat /\ Pos(s.una) + out <= n /\ n + out + 1 < SeqMod
      /\ out <= s.used /\ s.used \in Nat
  <2>1. Outstanding(s) + 1 <= RcvMax /\ Outstanding(s) <= s.used
    BY SndNumbers, StreamAssumption, SMTT(60) DEF SndInv
  <2> QED
    BY <2>1, SndNumbers, StreamAssumption, SMTT(60)
<1>1. s.una \in Word /\ Sub(s.nxt, s.una) = out + 1
  BY SndNumbers DEF SendState
<1> HIDE DEF out
<1>2. /\ Pos(a) \in Nat
      /\ Sub(a, s.una) = IF Pos(s.una) <= Pos(a) THEN Pos(a) - Pos(s.una)
                                                 ELSE Pos(a) - Pos(s.una) + SeqMod
  BY <1>1, WordFacts
<1>3. Sub(a, s.una) < out + 1
  BY <1>1 DEF AckInWindow
<1>4. Sub(a, s.una) = Pos(a) - Pos(s.una) /\ Sub(a, s.una) \in Nat
  BY <1>0, <1>2, <1>3
<1>5. ASSUME NEW i \in 0..(out - 1)
      PROVE  Sub(s.swnd[Ring(s.head, i, SLen)].seqnum, s.una) = i + 1
  <2>1. i \in 0..(s.used - 1) /\ i < Outstanding(s) /\ i + 1 \in Nat
    BY <1>0 DEF out
  <2>2. s.swnd[Ring(s.head, i, SLen)].seqnum = Add(s.una, i + 1)
    BY <2>1 DEF SndInv
  <2>3. i + 1 < SeqMod /\ Pos(s.una) + (i + 1) < SeqMod
    BY <1>0
  <2>4. Add(s.una, i + 1) \in Word /\ Pos(Add(s.una, i + 1)) = Pos(s.una) + (i + 1)
    BY <1>1, <2>1, <2>3, AddFacts
  <2>5. Sub(Add(s.una, i + 1), s.una) = i + 1
    BY <1>0, <1>1, <2>1, <2>4, WordFacts
  <2> QED
    BY <2>2, <2>5
<1>6. /\ \A i \in 0..(k - 1) : i + 1 <= Sub(a, s.una)
      /\ k < out => ~ (k + 1 <= Sub(a, s.una))
  <2>1. /\ \A i \in 0..(k - 1) : Sub(s.swnd[Ring(s.head, i, SLen)].seqnum, s.una)
                                     <= Sub(a, s.una)
        /\ k < out => ~ (Sub(s.swnd[Ring(s.head, k, SLen)].seqnum, s.una)
                                     <= Sub(a, s.una))
    BY DEF AckFlushes, IsRun, out
  <2>2. \A i \in 0..(k - 1) : i \in 0..(out - 1)
    BY <1>0
  <2>3. k < out => k \in 0..(out - 1)
    BY <1>0
  <2> QED
    BY <2>1, <2>2, <2>3, <1>5
<1>7. k = Sub(a, s.una)
  <2>1. k > 0 => k <= Sub(a, s.una)
    <3>1. k > 0 => k - 1 \in 0..(k - 1) /\ (k - 1) + 1 = k
      BY <1>0
    <3> QED
      BY <1>6, <3>1
  <2> QED
    BY <1>0, <1>3, <1>4, <1>6, <2>1
<1> QED
  BY <1>0, <1>2, <1>4, <1>7

\* recv_ack() keeps the invariant and moves SND.UNA forward, to the segment
\* acknowledged.
LEMMA AckSafe ==
    ASSUME NEW s \in SendState, NEW n \in 0..MaxMsgs, SndInv(s, n),
           NEW a \in Word, NEW k \in 0..Outstanding(s), AckFlushes(s, a, k)
    PROVE  LET t == recv_ack(s, a, k)
           IN  /\ t \in SendState
               /\ SndInv(t, n)
               /\ t.nxt = s.nxt /\ t.una \in {s.una, a} /\ t.state = s.state
               /\ Pos(s.una) <= Pos(t.una)
               /\ Acked(t) \subseteq Acked(s)
               /\ \A e \in Acked(s) : Pos(e) > Pos(t.una) => e \in Acked(t)
               /\ \/ t = s
                  \/ t.used = s.used - k /\ Outstanding(t) = Outstanding(s) - k
<1> DEFINE t == recv_ack(s, a, k)
<1>1. CASE ~ AckInWindow(s, a)
  <2>1. t = s
    BY <1>1 DEF recv_ack
  <2> QED
    BY <2>1, SndNumbers
<1>2. CASE AckInWindow(s, a)
  <2> DEFINE out == Outstanding(s)
             h == Ring(s.head, k, SLen)
             u == s.used - k
             w == [i \in SIdx |-> IF Dist(s.head, i, SLen) < k
                                  THEN [s.swnd[i] EXCEPT !.data = NoData, !.rt_sec = 0]
                                  ELSE s.swnd[i]]
  <2>0. /\ out \in Nat /\ n \in Nat /\ SeqMod \in Nat /\ k \in Nat /\ k <= out
        /\ Pos(s.una) \in Nat /\ Pos(s.nxt) \in Nat
        /\ Pos(s.una) + s.used = n /\ Pos(s.nxt) = Pos(s.una) + out + 1
        /\ out <= s.used /\ s.used \in Nat /\ s.used <= SLen /\ out < SLen
        /\ n + SLen + 1 < SeqMod /\ SLen \in Nat \ {0}
        /\ RcvMax \in Nat /\ Pos(s.nxt) <= Pos(s.una) + RcvMax
    <3>1. out <= s.used /\ Pos(s.nxt) <= Pos(s.una) + RcvMax
      BY DEF SndInv
    <3>2. n + SLen + 1 < SeqMod /\ SLen \in Nat \ {0} /\ n \in Nat /\ SeqMod \in Nat
          /\ RcvMax \in Nat
      BY StreamAssumption DEF SLen
    <3>3. k \in Nat /\ k <= out /\ out \in Nat
      BY SndNumbers
    <3> QED
      BY <3>1, <3>2, <3>3, SndNumbers
  <2>r. /\ SLen \in Nat \ {0} /\ s.head \in 0..(SLen - 1) /\ s.ostand \in 0..(SLen - 1)
        /\ Dist(s.head, s.ostand, SLen) = out
        /\ k \in 0..SLen
    BY <2>0, Lengths DEF SendState, Outstanding
  <2>w. /\ s.una \in Word /\ s.nxt \in Word /\ s.swnd \in [SIdx -> SwndSlot]
    BY DEF SendState
  <2>s. \A i : i \in SIdx <=> i \in 0..(SLen - 1)
    BY Lengths
  <2>a. Pos(a) = Pos(s.una) + k
    BY <1>2, AckCount
  <2> HIDE DEF out
  <2>1. a = Add(s.una, k)
    <3>1. k < SeqMod /\ Pos(s.una) + k < SeqMod
      BY <2>0
    <3>2. Add(s.una, k) \in Word /\ Pos(Add(s.una, k)) = Pos(a)
      BY <2>0, <2>w, <2>a, <3>1, AddFacts
    <3> QED
      BY <3>2, WordFacts
  <2>2. h \in SIdx /\ u \in 0..SLen
    <3>1. h \in 0..(SLen - 1)
      BY <2>r, RingFacts
    <3>2. u \in 0..SLen
      BY <2>0
    <3> QED
      BY <2>s, <3>1, <3>2
  <2>3. w \in [SIdx -> SwndSlot]
    <3> SUFFICES ASSUME NEW i \in SIdx
                 PROVE  [s.swnd[i] EXCEPT !.data = NoData, !.rt_sec = 0] \in SwndSlot
      BY <2>w
    <3>1. s.swnd[i] \in SwndSlot
      BY <2>w
    <3> QED
      BY <3>1 DEF SwndSlot
  <2>4. t = [s EXCEPT !.head = h, !.used = u, !.una = a, !.swnd = w]
    BY <1>2 DEF recv_ack
  <2>5. /\ t \in SendState
        /\ t.nxt = s.nxt /\ t.una = a /\ t.state = s.state /\ t.ostand = s.ostand
        /\ t.head = h /\ t.used = u /\ t.swnd = w
    <3> HIDE DEF h, u, w, t
    <3> QED
      BY <2>2, <2>3, <2>4 DEF SendState
  <2>6. \A i \in SIdx : ~ (Dist(s.head, i, SLen) < k) => t.swnd[i] = s.swnd[i]
    BY <2>5
  <2>6a. \A i \in SIdx : /\ t.swnd[i].is_sent = s.swnd[i].is_sent
                         /\ t.swnd[i].is_acked = s.swnd[i].is_acked
                         /\ t.swnd[i].seqnum = s.swnd[i].seqnum
    <3> TAKE i \in SIdx
    <3>1. s.swnd[i] \in SwndSlot
      BY <2>w
    <3>2. t.swnd[i] = IF Dist(s.head, i, SLen) < k
                      THEN [s.swnd[i] EXCEPT !.data = NoData, !.rt_sec = 0]
                      ELSE s.swnd[i]
      BY <2>5
    <3> HIDE DEF t, w
    <3> QED
      BY <3>1, <3>2 DEF SwndSlot
  <2> HIDE DEF h, w, t
  <2>7. Outstanding(t) = out - k
    <3>1. Dist(h, s.ostand, SLen) = out - k
      BY <2>0, <2>r, DistShift DEF h
    <3> QED
      BY <2>5, <3>1 DEF Outstanding
  <2>8. ASSUME NEW i \in 0..(u - 1)
        PROVE  /\ Ring(t.head, i, SLen) = Ring(s.head, k + i, SLen)
               /\ t.swnd[Ring(t.head, i, SLen)] = s.swnd[Ring(s.head, k + i, SLen)]
               /\ k + i \in 0..(s.used - 1)
    <3>1. i \in 0..SLen /\ k + i <= SLen /\ k + i \in 0..SLen /\ k + i < SLen
          /\ k + i \in 0..(s.used - 1)
      BY <2>0
    <3>2. Ring(h, i, SLen) = Ring(s.head, k + i, SLen)
      BY <2>r, <3>1, RingAdd DEF h
    <3>3. /\ Ring(s.head, k + i, SLen) \in SIdx
          /\ Dist(s.head, Ring(s.head, k + i, SLen), SLen) = k + i
      BY <2>r, <2>s, <3>1, RingFacts
    <3>4. ~ (k + i < k)
      BY <2>0, <3>1
    <3> QED
      BY <2>5, <2>6, <3>1, <3>2, <3>3, <3>4
  <2>9. SndInv(t, n)
    <3>1. ASSUME NEW i \in 0..(t.used - 1)
          PROVE  LET p == t.swnd[Ring(t.head, i, SLen)]
                 IN  /\ p.is_sent <=> i < Outstanding(t)
                     /\ p.is_sent => p.seqnum = Add(t.una, i + 1)
                     /\ p.is_acked => p.is_sent
                     /\ ~ p.is_acked => p.data = Input[Pos(t.una) + 1 + i]
      <4> DEFINE q == s.swnd[Ring(s.head, k + i, SLen)]
      <4>1. i \in 0..(u - 1) /\ i \in Nat
        BY <2>0, <2>5
      <4>2. /\ t.swnd[Ring(t.head, i, SLen)] = q
            /\ k + i \in 0..(s.used - 1)
        BY <4>1, <2>8
      <4>3. /\ q.is_sent <=> k + i < out
            /\ q.is_sent => q.seqnum = Add(s.una, k + i + 1)
            /\ q.is_acked => q.is_sent
            /\ ~ q.is_acked => q.data = Input[Pos(s.una) + 1 + (k + i)]
        BY <4>2 DEF SndInv, out
      <4>4. /\ (k + i < out <=> i < out - k)
            /\ Pos(s.una) + 1 + (k + i) = Pos(a) + 1 + i
        BY <2>0, <2>a, <4>1
      <4>5. Add(s.una, k + i + 1) = Add(a, i + 1)
        <5>1. i + 1 \in Nat /\ k + (i + 1) < SeqMod /\ k + (i + 1) = k + i + 1
          BY <2>0, <4>1
        <5>2. Add(Add(s.una, k), i + 1) = Add(s.una, k + (i + 1))
          <6>1. k \in Nat
            BY <2>0
          <6> QED
            BY <2>w, <5>1, <6>1, AddAdd
        <5> QED
          BY <2>1, <5>1, <5>2
      <4> HIDE DEF q
      <4> QED
        BY <2>5, <2>7, <4>2, <4>3, <4>4, <4>5
    <3>2. /\ Pos(t.una) < Pos(t.nxt)
          /\ Pos(t.nxt) <= Pos(t.una) + RcvMax
          /\ Outstanding(t) = Pos(t.nxt) - Pos(t.una) - 1
          /\ t.used = n - Pos(t.una)
          /\ Outstanding(t) <= t.used
      BY <2>0, <2>a, <2>5, <2>7
    <3> QED
      BY <3>1, <3>2 DEF SndInv
  <2>10. Acked(t) \subseteq Acked(s)
    <3> SUFFICES ASSUME NEW j \in SIdx, Dist(t.head, j, SLen) < t.used,
                        t.swnd[j].is_sent, t.swnd[j].is_acked
                 PROVE  t.swnd[j].seqnum \in Acked(s)
      BY DEF Acked
    <3>0. j \in 0..(SLen - 1)
      BY <2>s
    <3>1. Dist(h, j, SLen) = IF k <= Dist(s.head, j, SLen)
                             THEN Dist(s.head, j, SLen) - k
                             ELSE Dist(s.head, j, SLen) - k + SLen
      BY <2>r, <3>0, DistShift DEF h
    <3>2. Dist(s.head, j, SLen) \in 0..(SLen - 1)
      BY <2>r, <3>0, DistFacts
    <3>3. Dist(s.head, j, SLen) < s.used
      BY <2>0, <2>5, <3>1, <3>2
    <3> QED
      BY <2>6a, <3>3 DEF Acked
  <2>11. Pos(s.una) <= Pos(t.una)
    BY <2>0, <2>a, <2>5
  <2>12. ASSUME NEW e \in Acked(s), Pos(e) > Pos(t.una) PROVE e \in Acked(t)
    <3>1. PICK j \in SIdx : /\ Dist(s.head, j, SLen) < s.used
                            /\ s.swnd[j].is_sent /\ s.swnd[j].is_acked
                            /\ e = s.swnd[j].seqnum
      BY DEF Acked
    <3> DEFINE i == Dist(s.head, j, SLen)
    <3>2. j \in 0..(SLen - 1) /\ i \in 0..(SLen - 1) /\ Ring(s.head, i, SLen) = j
      BY <2>r, <2>s, DistFacts
    <3>3. Dist(h, j, SLen) = IF k <= i THEN i - k ELSE i - k + SLen
      BY <2>r, <3>2, DistShift DEF h
    <3> HIDE DEF i
    <3>4. i \in 0..(s.used - 1) /\ i \in Nat
      BY <2>0, <3>1, <3>2 DEF i
    <3>5. e = Add(s.una, i + 1)
      BY <3>1, <3>2, <3>4 DEF SndInv
    <3>6. i + 1 \in Nat /\ i + 1 < SeqMod /\ Pos(s.una) + (i + 1) < SeqMod
      BY <2>0, <3>4
    <3>7. Pos(e) = Pos(s.una) + (i + 1)
      BY <2>w, <3>5, <3>6, AddFacts
    <3>8. k <= i
      BY <2>0, <2>5, <2>a, <2>12, <3>4, <3>7
    <3>9. Dist(t.head, j, SLen) < t.used
      BY <2>0, <2>5, <3>3, <3>4, <3>8
    <3> QED
      BY <2>6a, <3>1, <3>9 DEF Acked
  <2> QED
    BY <2>5, <2>7, <2>9, <2>10, <2>11, <2>12 DEF t, u, out
<1> QED
  BY <1>1, <1>2

\* recv_eack() marks only segments that were sent and that the list names.
LEMMA EackSafe ==
    ASSUME NEW s \in SendState, NEW n \in 0..MaxMsgs, SndInv(s, n), NEW E
    PROVE  LET t == MarkEacked(s, E)
           IN  /\ t \in SendState
               /\ SndInv(t, n)
               /\ t.nxt = s.nxt /\ t.una = s.una /\ t.state = s.state
               /\ Acked(t) \subseteq Acked(s) \cup E
               /\ t.used = s.used /\ Outstanding(t) = Outstanding(s)
               /\ Acked(s) \subseteq Acked(t)
<1> DEFINE t == MarkEacked(s, E)
           hit(i) == LET e == Add(s.swnd[s.head].seqnum, Dist(s.head, i, SLen))
                     IN  e \in E /\ s.swnd[i].seqnum = e /\ s.swnd[i].is_sent
           w == [i \in SIdx |-> IF hit(i)
                    THEN [s.swnd[i] EXCEPT !.data = NoData, !.is_acked = TRUE]
                    ELSE s.swnd[i]]
<1>1. CASE s.used = 0
  <2>1. t = s
    BY <1>1 DEF MarkEacked
  <2> QED
    BY <2>1
<1>2. CASE s.used # 0
  <2>w. s.swnd \in [SIdx -> SwndSlot]
    BY DEF SendState
  <2>1. t = [s EXCEPT !.swnd = w]
    BY <1>2 DEF MarkEacked
  <2>2. w \in [SIdx -> SwndSlot]
    <3> SUFFICES ASSUME NEW i \in SIdx
                 PROVE  [s.swnd[i] EXCEPT !.data = NoData, !.is_acked = TRUE] \in SwndSlot
      BY <2>w
    <3>1. s.swnd[i] \in SwndSlot
      BY <2>w
    <3> QED
      BY <3>1 DEF SwndSlot
  <2>3. /\ t \in SendState
        /\ t.nxt = s.nxt /\ t.una = s.una /\ t.state = s.state /\ t.ostand = s.ostand
        /\ t.head = s.head /\ t.used = s.used /\ t.swnd = w
    <3> HIDE DEF w, t
    <3> QED
      BY <2>1, <2>2 DEF SendState
  <2>4. ASSUME NEW i \in SIdx
        PROVE  \/ t.swnd[i] = s.swnd[i]
               \/ /\ s.swnd[i].is_sent /\ s.swnd[i].seqnum \in E
                  /\ t.swnd[i].is_sent = s.swnd[i].is_sent
                  /\ t.swnd[i].seqnum = s.swnd[i].seqnum
                  /\ t.swnd[i].is_acked = TRUE
    <3>1. s.swnd[i] \in SwndSlot
      BY <2>w
    <3>2. CASE hit(i)
      <4>1. t.swnd[i] = [s.swnd[i] EXCEPT !.data = NoData, !.is_acked = TRUE]
        BY <2>3, <3>2
      <4>2. s.swnd[i].is_sent /\ s.swnd[i].seqnum \in E
        BY <3>2
      <4> HIDE DEF t, w, hit
      <4> QED
        BY <3>1, <4>1, <4>2 DEF SwndSlot
    <3>3. CASE ~ hit(i)
      BY <2>3, <3>3
    <3> QED
      BY <3>2, <3>3
  <2> HIDE DEF t, w, hit
  <2>5. Outstanding(t) = Outstanding(s)
    BY <2>3 DEF Outstanding
  <2>6. SndInv(t, n)
    <3>1. ASSUME NEW i \in 0..(t.used - 1)
          PROVE  LET p == t.swnd[Ring(t.head, i, SLen)]
                 IN  /\ p.is_sent <=> i < Outstanding(t)
                     /\ p.is_sent => p.seqnum = Add(t.una, i + 1)
                     /\ p.is_acked => p.is_sent
                     /\ ~ p.is_acked => p.data = Input[Pos(t.una) + 1 + i]
      <4> DEFINE j == Ring(s.head, i, SLen)
      <4>1. j \in SIdx
        <5>1. s.head \in 0..(SLen - 1) /\ i \in 0..SLen
          BY <2>3, Lengths DEF SendState
        <5>2. j \in 0..(SLen - 1)
          BY <5>1, Lengths, RingFacts
        <5> QED
          BY <5>2, Lengths
      <4>2. /\ s.swnd[j].is_sent <=> i < Outstanding(s)
            /\ s.swnd[j].is_sent => s.swnd[j].seqnum = Add(s.una, i + 1)
            /\ s.swnd[j].is_acked => s.swnd[j].is_sent
            /\ ~ s.swnd[j].is_acked => s.swnd[j].data = Input[Pos(s.una) + 1 + i]
        BY <2>3 DEF SndInv
      <4> HIDE DEF j
      <4>3. /\ t.swnd[j].is_sent <=> i < Outstanding(s)
            /\ t.swnd[j].is_sent => t.swnd[j].seqnum = Add(s.una, i + 1)
            /\ t.swnd[j].is_acked => t.swnd[j].is_sent
            /\ ~ t.swnd[j].is_acked => t.swnd[j].data = Input[Pos(s.una) + 1 + i]
        BY <2>4, <4>1, <4>2
      <4> QED
        BY <2>3, <2>5, <4>3 DEF j
    <3> QED
      BY <2>3, <2>5, <3>1 DEF SndInv
  <2>7. Acked(t) \subseteq Acked(s) \cup E
    <3> SUFFICES ASSUME NEW j \in SIdx, Dist(t.head, j, SLen) < t.used,
                        t.swnd[j].is_sent, t.swnd[j].is_acked
                 PROVE  t.swnd[j].seqnum \in Acked(s) \cup E
      BY DEF Acked
    <3>1. CASE t.swnd[j] = s.swnd[j]
      BY <2>3, <3>1 DEF Acked
    <3> QED
      BY <2>4, <3>1
  <2>8. Acked(s) \subseteq Acked(t)
    <3> SUFFICES ASSUME NEW j \in SIdx, Dist(s.head, j, SLen) < s.used,
                        s.swnd[j].is_sent, s.swnd[j].is_acked
                 PROVE  s.swnd[j].seqnum \in Acked(t)
      BY DEF Acked
    <3>1. /\ t.swnd[j].is_sent /\ t.swnd[j].is_acked
          /\ t.swnd[j].seqnum = s.swnd[j].seqnum
      BY <2>4
    <3> QED
      BY <2>3, <3>1 DEF Acked
  <2> QED
    BY <2>3, <2>5, <2>6, <2>7, <2>8 DEF t
<1> QED
  BY <1>1, <1>2

\* When the oldest outstanding segment is not marked, the loop that ends
\* recv_eack() does nothing.
LEMMA RemoveNone ==
    ASSUME NEW s \in SendState, NEW n \in 0..MaxMsgs, SndInv(s, n), NEW E,
           NEW k \in 0..Outstanding(s), EackRemoves(s, E, k),
           Add(s.una, 1) \notin Acked(s)
    PROVE  RemoveHead(s, k) = s
<1>1. k = 0
  <2> SUFFICES ASSUME k > 0 PROVE FALSE
    BY SndNumbers
  <2>1. 0 \in 0..(k - 1)
    BY SndNumbers
  <2>2. /\ s.swnd[Ring(s.head, 0, SLen)].is_sent
        /\ s.swnd[Ring(s.head, 0, SLen)].is_acked
    BY <2>1 DEF EackRemoves, IsRun
  <2>3. 0 \in 0..(s.used - 1) /\ 0 < s.used
    BY SndNumbers DEF SndInv
  <2>4. s.swnd[Ring(s.head, 0, SLen)].seqnum = Add(s.una, 1)
    BY <2>2, <2>3 DEF SndInv
  <2>5. Ring(s.head, 0, SLen) \in SIdx /\ Dist(s.head, Ring(s.head, 0, SLen), SLen) = 0
    BY Lengths, RingFacts DEF SendState
  <2> QED
    BY <2>2, <2>3, <2>4, <2>5 DEF Acked
<1>2. Ring(s.head, 0, SLen) = s.head
  BY Lengths DEF SendState, Ring
<1> QED
  BY <1>1, <1>2 DEF RemoveHead, SendState
-----------------------------------------------------------------------------
(* The receiving half.  Between the two halves of rwnd_recv_data() the slot   *)
(* at the head may be used: WndInv is RcvInv without that.                    *)

WndInv(r, last) ==
    \A i \in RIdx :
      LET p == r.rwnd[Ring(r.head, i, RLen)]
      IN  p.is_used => /\ Pos(r.cur) + 1 + i <= last
                       /\ p.seqnum = Add(r.cur, i + 1)
                       /\ p.data = Input[Pos(r.cur) + 1 + i]

\* m_rwnd_used is the number of used slots.
UsedSlots(r) == {i \in RIdx : r.rwnd[i].is_used}
Counted(r) == r.used = Cardinality(UsedSlots(r))

\* The used slots are finitely many.
LEMMA UsedFinite ==
    ASSUME NEW r
    PROVE  IsFiniteSet(UsedSlots(r)) /\ Cardinality(UsedSlots(r)) \in Nat
<1>1. IsFiniteSet(RIdx)
  <2>1. 0 \in Int /\ RLen - 1 \in Int
    BY Lengths
  <2> QED
    BY <2>1, FS_Interval, Lengths
<1>2. UsedSlots(r) \in SUBSET RIdx
  BY DEF UsedSlots
<1>3. IsFiniteSet(UsedSlots(r))
  BY <1>1, <1>2, FS_Subset
<1> QED
  BY <1>3, FS_CardinalityType

\* The first k slots from the head on are k.
LEMMA RunLength ==
    ASSUME NEW h \in RIdx, NEW k \in 0..RLen
    PROVE  Cardinality({i \in RIdx : Dist(h, i, RLen) < k}) = k
<1> DEFINE K == {i \in RIdx : Dist(h, i, RLen) < k}
           S == 0..(k - 1)
           f == [i \in S |-> Ring(h, i, RLen)]
<1>1. /\ RLen \in Nat \ {0} /\ h \in 0..(RLen - 1) /\ k \in Nat
      /\ \A i : i \in RIdx <=> i \in 0..(RLen - 1)
  BY Lengths
<1>2. ASSUME NEW i \in S
      PROVE  /\ Ring(h, i, RLen) \in K
             /\ Dist(h, Ring(h, i, RLen), RLen) = i
  <2>1. i \in 0..RLen /\ i < RLen /\ i < k
    BY <1>1
  <2>2. Ring(h, i, RLen) \in 0..(RLen - 1) /\ Dist(h, Ring(h, i, RLen), RLen) = i
    BY <1>1, <2>1, RingFacts
  <2> QED
    BY <1>1, <2>1, <2>2
<1>3. ASSUME NEW j \in K
      PROVE  Dist(h, j, RLen) \in S /\ Ring(h, Dist(h, j, RLen), RLen) = j
  <2>1. j \in 0..(RLen - 1)
    BY <1>1
  <2>2. Dist(h, j, RLen) \in 0..(RLen - 1) /\ Ring(h, Dist(h, j, RLen), RLen) = j
    BY <1>1, <2>1, DistFacts
  <2> QED
    BY <1>1, <2>2
<1> HIDE DEF K, S
<1>4. f \in Bijection(S, K)
  <2>1. f \in [S -> K]
    BY <1>2
  <2>2. \A i, j \in S : f[i] = f[j] => i = j
    BY <1>2
  <2>3. \A j \in K : \E i \in S : f[i] = j
    BY <1>3
  <2> QED
    BY <2>1, <2>2, <2>3 DEF Bijection, Injection, Surjection, IsInjective
<1>5. IsFiniteSet(S) /\ Cardinality(S) = k
  <2>1. 0 \in Int /\ k - 1 \in Int
    BY <1>1
  <2>2. IsFiniteSet(0..(k - 1)) /\ Cardinality(0..(k - 1)) = IF 0 > k - 1 THEN 0 ELSE k - 1 - 0 + 1
    BY <2>1, FS_Interval
  <2> QED
    BY <1>1, <2>2 DEF S
<1> QED
  BY <1>4, <1>5, FS_Bijection DEF ExistsBijection, K

\* A segment that passes the window test of in_state_open() lies after RCV.CUR,
\* by no more than the ring has slots.
LEMMA StreamInWindow ==
    ASSUME NEW c \in Word, NEW q \in Word, Pos(c) <= MaxMsgs,
           Pos(q) \in 1..MaxMsgs, ~ (Sub(Sub(q, c), 1) >= 2 * RcvMax)
    PROVE  /\ Sub(q, c) = Pos(q) - Pos(c)
           /\ Sub(q, c) - 1 \in 0..(RLen - 1)
           /\ Pos(c) < Pos(q)
<1>1. /\ Pos(c) \in Nat /\ Pos(q) \in Nat /\ Pos(c) < SeqMod /\ Pos(q) < SeqMod
      /\ Sub(q, c) \in Word
      /\ Sub(q, c) = IF Pos(c) <= Pos(q) THEN Pos(q) - Pos(c)
                                         ELSE Pos(q) - Pos(c) + SeqMod
  BY WordFacts
<1>2. /\ RcvMax \in Nat /\ SeqMod \in Nat /\ MaxMsgs \in Nat
      /\ MaxMsgs + 4 * RcvMax + 1 < SeqMod /\ RLen = 2 * RcvMax
  BY StreamAssumption DEF RLen
<1> DEFINE d == Sub(q, c)
<1>3. d \in 0..(SeqMod - 1)
  BY <1>1 DEF Word
<1>4. Sub(d, 1) = IF 1 <= d THEN d - 1 ELSE d - 1 + SeqMod
  BY DEF Sub
<1>5. ~ (Sub(d, 1) >= 2 * RcvMax)
  OBVIOUS
<1>6. d = IF Pos(c) <= Pos(q) THEN Pos(q) - Pos(c) ELSE Pos(q) - Pos(c) + SeqMod
  BY <1>1
<1> HIDE DEF d
<1>7. d >= 1 /\ d - 1 < 2 * RcvMax
  BY <1>2, <1>3, <1>4, <1>5
<1>8. Pos(c) < Pos(q)
  BY <1>1, <1>2, <1>3, <1>6, <1>7
<1> QED
  BY <1>1, <1>2, <1>3, <1>6, <1>7, <1>8 DEF d

\* The first half of rwnd_recv_data().
LEMMA InsertSafe ==
    ASSUME NEW r \in RecvState, NEW last \in 0..MaxMsgs, WndInv(r, last),
           Pos(r.cur) <= last,
           NEW m \in DataSegment, Pos(m.seq) \in 1..last, m.data = Input[Pos(m.seq)],
           ~ OutOfWindow(r, m.seq)
    PROVE  LET t == InsertData(r, m)
           IN  /\ t \in RecvState
               /\ WndInv(t, last)
               /\ t.cur = r.cur /\ t.head = r.head /\ t.ack = r.ack
               /\ \A i \in RIdx : r.rwnd[i].is_used => t.rwnd[i].is_used
               /\ Counted(r) => Counted(t)
<1> DEFINE d == Sub(m.seq, r.cur) - 1
           idx == Ring(r.head, d, RLen)
           t == InsertData(r, m)
<1>1. /\ m.seq \in Word /\ m.data \in Payload /\ r.cur \in Word
      /\ r.head \in RIdx /\ r.rwnd \in [RIdx -> RwndSlot] /\ r.used \in Int
  BY DEF DataSegment, RecvState
<1>2. /\ RLen \in Nat \ {0} /\ RLen < SeqMod /\ SeqMod \in Nat /\ last \in Nat /\ last <= MaxMsgs
      /\ MaxMsgs \in Nat /\ MaxMsgs + RLen < SeqMod
  BY Lengths, StreamAssumption DEF RLen
<1>3. /\ Sub(m.seq, r.cur) = Pos(m.seq) - Pos(r.cur)
      /\ d \in 0..(RLen - 1)
      /\ Pos(r.cur) < Pos(m.seq)
      /\ Pos(r.cur) \in Nat
  <2>1. Pos(r.cur) \in Nat
    BY <1>1, WordFacts
  <2>2. Pos(r.cur) <= MaxMsgs /\ Pos(m.seq) \in 1..MaxMsgs
    BY <1>2, <2>1
  <2> QED
    BY <1>1, <2>1, <2>2, StreamInWindow DEF OutOfWindow
<1> HIDE DEF d
<1>4. idx \in RIdx /\ r.head \in 0..(RLen - 1)
  <2>1. r.head \in 0..(RLen - 1) /\ d \in 0..RLen
    BY <1>1, <1>2, <1>3, Lengths
  <2>2. idx \in 0..(RLen - 1)
    BY <1>2, <2>1, RingFacts
  <2> QED
    BY <2>1, <2>2, Lengths
<1>5. CASE r.rwnd[idx].is_used
  <2>1. t = r
    BY <1>5 DEF InsertData, d
  <2> QED
    BY <2>1
<1>6. CASE ~ r.rwnd[idx].is_used
  <2> DEFINE p == [data |-> m.data, seqnum |-> m.seq, is_used |-> TRUE, is_eacked |-> FALSE]
             u == r.used + 1
             w == [r.rwnd EXCEPT ![idx] = p]
  <2>1. p \in RwndSlot /\ u \in Int
    BY <1>1 DEF RwndSlot
  <2>2. w \in [RIdx -> RwndSlot]
    BY <1>1, <2>1
  <2>3. t = [r EXCEPT !.rwnd = w, !.used = u]
    BY <1>6 DEF InsertData, d
  <2>4. /\ t \in RecvState /\ t.rwnd = w /\ t.used = u
        /\ t.cur = r.cur /\ t.head = r.head /\ t.ack = r.ack
    <3> HIDE DEF w, u, t
    <3> QED
      BY <2>1, <2>2, <2>3 DEF RecvState
  <2>5. /\ t.rwnd[idx] = p
        /\ \A i \in RIdx \ {idx} : t.rwnd[i] = r.rwnd[i]
    BY <1>1, <1>4, <2>4
  <2>6. /\ t.rwnd[idx].is_used = TRUE /\ t.rwnd[idx].seqnum = m.seq
        /\ t.rwnd[idx].data = m.data
    BY <2>5
  <2> HIDE DEF p, w, u, t, idx
  <2>7. WndInv(t, last)
    <3> SUFFICES ASSUME NEW i \in RIdx, t.rwnd[Ring(r.head, i, RLen)].is_used
                 PROVE  /\ Pos(r.cur) + 1 + i <= last
                        /\ t.rwnd[Ring(r.head, i, RLen)].seqnum = Add(r.cur, i + 1)
                        /\ t.rwnd[Ring(r.head, i, RLen)].data = Input[Pos(r.cur) + 1 + i]
      BY <2>4 DEF WndInv
    <3>0. i \in 0..(RLen - 1) /\ Ring(r.head, i, RLen) \in RIdx
      <4>1. i \in 0..(RLen - 1) /\ i \in 0..RLen
        BY <1>2, Lengths
      <4>2. Ring(r.head, i, RLen) \in 0..(RLen - 1)
        BY <1>2, <1>4, <4>1, RingFacts
      <4> QED
        BY <4>1, <4>2, Lengths
    <3>1. CASE i = d
      <4>1. Pos(r.cur) + 1 + i = Pos(m.seq)
        BY <1>1, <1>2, <1>3, <3>1 DEF d
      <4>2. m.seq = Add(r.cur, i + 1)
        <5>1. i + 1 \in Nat /\ i + 1 < SeqMod /\ Pos(r.cur) + (i + 1) = Pos(m.seq)
              /\ Pos(m.seq) < SeqMod
          BY <1>2, <1>3, <3>0, <4>1
        <5>2. Add(r.cur, i + 1) \in Word /\ Pos(Add(r.cur, i + 1)) = Pos(m.seq)
          BY <1>1, <5>1, AddFacts
        <5> QED
          BY <1>1, <5>2, WordFacts
      <4>3. Pos(m.seq) <= last
        BY <1>2
      <4> QED
        BY <2>6, <3>1, <4>1, <4>2, <4>3 DEF idx
    <3>2. CASE i # d
      <4>1. Ring(r.head, i, RLen) # idx
        BY <1>2, <1>3, <1>4, <3>0, <3>2 DEF idx, Ring
      <4>2. t.rwnd[Ring(r.head, i, RLen)] = r.rwnd[Ring(r.head, i, RLen)]
        BY <2>5, <3>0, <4>1
      <4> QED
        BY <4>2 DEF WndInv
    <3> QED
      BY <3>1, <3>2
  <2>8. \A i \in RIdx : r.rwnd[i].is_used => t.rwnd[i].is_used
    BY <2>5, <2>6
  <2>9. Counted(r) => Counted(t)
    <3>1. UsedSlots(t) = UsedSlots(r) \cup {idx} /\ idx \notin UsedSlots(r)
      BY <1>4, <1>6, <2>5, <2>6 DEF UsedSlots
    <3>2. Cardinality(UsedSlots(t)) = Cardinality(UsedSlots(r)) + 1
      BY <3>1, UsedFinite, FS_AddElement
    <3> QED
      BY <2>4, <3>2 DEF Counted, u
  <2> QED
    BY <2>4, <2>7, <2>8, <2>9 DEF t
<1> QED
  BY <1>5, <1>6

\* The second half of rwnd_recv_data(): the payloads pushed on rqueue are the
\* next ones of the input, and the new head of the window is free.
LEMMA TakeSafe ==
    ASSUME NEW r \in RecvState, NEW last \in 0..MaxMsgs, WndInv(r, last),
           Pos(r.cur) <= last,
           NEW k \in 0..RLen, HeadRun(r, k),
           NEW q, q = [i \in 1..Pos(r.cur) |-> Input[i]]
    PROVE  LET t == TakeHead(r, k)
           IN  /\ t \in RecvState
               /\ RcvInv(t, PushRun(q, r, k), last)
               /\ Pos(t.cur) = Pos(r.cur) + k
               /\ t.ack = r.ack
               /\ \A e \in Word : Got(r, e) => Got(t, e)
               /\ Counted(r) => Counted(t)
<1> DEFINE w == [i \in RIdx |-> IF Dist(r.head, i, RLen) < k
                    THEN [r.rwnd[i] EXCEPT !.data = NoData, !.is_used = FALSE,
                                           !.is_eacked = FALSE]
                    ELSE r.rwnd[i]]
           h == Ring(r.head, k, RLen)
           u == r.used - k
           c == Add(r.cur, k)
           t == TakeHead(r, k)
<1>1. /\ r.cur \in Word /\ r.head \in RIdx /\ r.rwnd \in [RIdx -> RwndSlot] /\ r.used \in Int
  BY DEF RecvState
<1>2. /\ RLen \in Nat \ {0} /\ RLen < SeqMod /\ SeqMod \in Nat /\ last \in Nat
      /\ MaxMsgs \in Nat /\ last <= MaxMsgs /\ MaxMsgs + RLen < SeqMod /\ k \in Nat /\ k <= RLen
  BY Lengths, StreamAssumption DEF RLen
<1>i. \A i : i \in RIdx <=> i \in 0..(RLen - 1)
  BY Lengths
<1>r. r.head \in 0..(RLen - 1) /\ k \in 0..RLen
  BY <1>1, <1>i
<1>p. Pos(r.cur) \in Nat
  BY <1>1, WordFacts
<1>3. h \in RIdx /\ u \in Int
  <2>1. h \in 0..(RLen - 1)
    BY <1>2, <1>r, RingFacts
  <2> QED
    BY <1>1, <1>2, <1>i, <2>1
<1>4. c \in Word /\ Pos(c) = Pos(r.cur) + k
  <2>1. k < SeqMod /\ Pos(r.cur) + k < SeqMod
    BY <1>2, <1>p
  <2> QED
    BY <1>1, <1>2, <2>1, AddFacts
<1>5. w \in [RIdx -> RwndSlot]
  <2> SUFFICES ASSUME NEW i \in RIdx
               PROVE  [r.rwnd[i] EXCEPT !.data = NoData, !.is_used = FALSE,
                                        !.is_eacked = FALSE] \in RwndSlot
    BY <1>1
  <2>1. r.rwnd[i] \in RwndSlot
    BY <1>1
  <2> QED
    BY <2>1 DEF RwndSlot
<1>6. t = [r EXCEPT !.rwnd = w, !.head = h, !.used = u, !.cur = c]
  BY DEF TakeHead
<1>7. /\ t \in RecvState /\ t.rwnd = w /\ t.head = h /\ t.cur = c /\ t.ack = r.ack
      /\ t.used = u
  <2> HIDE DEF w, h, u, c, t
  <2> QED
    BY <1>3, <1>4, <1>5, <1>6 DEF RecvState
<1>8. ASSUME NEW i \in RIdx
      PROVE  /\ Dist(r.head, i, RLen) < k => ~ t.rwnd[i].is_used
             /\ ~ (Dist(r.head, i, RLen) < k) => t.rwnd[i] = r.rwnd[i]
  <2>1. r.rwnd[i] \in RwndSlot
    BY <1>1
  <2>2. [r.rwnd[i] EXCEPT !.data = NoData, !.is_used = FALSE, !.is_eacked = FALSE].is_used = FALSE
    BY <2>1 DEF RwndSlot
  <2> QED
    BY <1>7, <2>2
<1> HIDE DEF t, w, u, c
\* Where the slots of t are in r.
<1>9. ASSUME NEW i \in 0..(RLen - 1)
      PROVE  /\ Ring(h, i, RLen) \in RIdx
             /\ k + i < RLen =>
                  /\ Ring(h, i, RLen) = Ring(r.head, k + i, RLen)
                  /\ t.rwnd[Ring(h, i, RLen)] = r.rwnd[Ring(r.head, k + i, RLen)]
             /\ ~ (k + i < RLen) => ~ t.rwnd[Ring(h, i, RLen)].is_used
  <2> DEFINE j == Ring(h, i, RLen)
  <2>1. j \in 0..(RLen - 1)
    <3>1. h \in 0..(RLen - 1) /\ i \in 0..RLen
      BY <1>2, <1>3, <1>i
    <3> HIDE DEF h
    <3> QED
      BY <1>2, <3>1, RingFacts
  <2>2. k + i < RLen => j = Ring(r.head, k + i, RLen)
    <3> SUFFICES ASSUME k + i < RLen
                 PROVE  j = Ring(r.head, k + i, RLen)
      OBVIOUS
    <3>1. i \in 0..RLen /\ k + i <= RLen
      BY <1>2
    <3> QED
      BY <3>1, <1>2, <1>r, RingAdd DEF h
  <2>3. Dist(r.head, j, RLen) = IF k + i < RLen THEN k + i ELSE k + i - RLen
    BY <1>2, <1>r, RingTurn DEF h
  <2> HIDE DEF j
  <2>4. (k + i < RLen) <=> ~ (Dist(r.head, j, RLen) < k)
    BY <1>2, <2>3
  <2>5. j \in RIdx
    BY <1>i, <2>1
  <2>6. /\ k + i < RLen => t.rwnd[j] = r.rwnd[j]
        /\ ~ (k + i < RLen) => ~ t.rwnd[j].is_used
    BY <1>8, <2>4, <2>5
  <2> QED
    BY <2>2, <2>5, <2>6 DEF j
<1>10. k < RLen => ~ r.rwnd[Ring(r.head, k, RLen)].is_used
  BY DEF HeadRun, IsRun
<1>11. \A i \in 0..(k - 1) : r.rwnd[Ring(r.head, i, RLen)].is_used
  BY DEF HeadRun, IsRun
<1>w. \A i \in 0..(RLen - 1) : r.rwnd[Ring(r.head, i, RLen)].is_used =>
         /\ Pos(r.cur) + 1 + i <= last
         /\ r.rwnd[Ring(r.head, i, RLen)].seqnum = Add(r.cur, i + 1)
         /\ r.rwnd[Ring(r.head, i, RLen)].data = Input[Pos(r.cur) + 1 + i]
  BY <1>i DEF WndInv
<1>12. Pos(r.cur) + k <= last
  <2>1. CASE k = 0
    BY <1>2, <1>p, <2>1
  <2>2. CASE k # 0
    <3>1. k - 1 \in 0..(k - 1) /\ k - 1 \in 0..(RLen - 1)
      BY <1>2, <2>2
    <3>2. Pos(r.cur) + 1 + (k - 1) <= last
      BY <1>11, <1>w, <3>1
    <3> QED
      BY <1>2, <1>p, <3>2
  <2> QED
    BY <2>1, <2>2
<1>13. PushRun(q, r, k) = [i \in 1..Pos(t.cur) |-> Input[i]]
  <2>1. PushRun(q, r, k) = [i \in 1..(Pos(r.cur) + k) |->
            IF i <= Pos(r.cur) THEN q[i]
            ELSE r.rwnd[Ring(r.head, i - Pos(r.cur) - 1, RLen)].data]
    BY DEF PushRun, Pos
  <2>2. ASSUME NEW i \in 1..(Pos(r.cur) + k)
        PROVE  (IF i <= Pos(r.cur) THEN q[i]
                ELSE r.rwnd[Ring(r.head, i - Pos(r.cur) - 1, RLen)].data) = Input[i]
    <3>1. CASE i <= Pos(r.cur)
      <4>1. i \in 1..Pos(r.cur)
        BY <1>2, <1>p, <3>1
      <4> QED
        BY <3>1, <4>1
    <3>2. CASE ~ (i <= Pos(r.cur))
      <4> DEFINE j == i - Pos(r.cur) - 1
      <4>1. j \in 0..(k - 1) /\ j \in 0..(RLen - 1) /\ Pos(r.cur) + 1 + j = i
        BY <1>2, <1>p, <3>2
      <4> HIDE DEF j
      <4>2. r.rwnd[Ring(r.head, j, RLen)].data = Input[i]
        BY <1>11, <1>w, <4>1
      <4> QED
        BY <3>2, <4>2 DEF j
    <3> QED
      BY <3>1, <3>2
  <2> QED
    BY <1>4, <1>7, <2>1, <2>2
<1>14. RcvInv(t, PushRun(q, r, k), last)
  <2> SUFFICES ASSUME NEW i \in RIdx, t.rwnd[Ring(h, i, RLen)].is_used
               PROVE  /\ i > 0
                      /\ Pos(t.cur) + 1 + i <= last
                      /\ t.rwnd[Ring(h, i, RLen)].seqnum = Add(t.cur, i + 1)
                      /\ t.rwnd[Ring(h, i, RLen)].data = Input[Pos(t.cur) + 1 + i]
    BY <1>4, <1>7, <1>12, <1>13 DEF RcvInv
  <2>0. i \in 0..(RLen - 1)
    BY <1>i
  <2>1. k + i < RLen /\ t.rwnd[Ring(h, i, RLen)] = r.rwnd[Ring(r.head, k + i, RLen)]
    BY <1>9, <2>0
  <2>2. i > 0
    <3> SUFFICES ASSUME i = 0 PROVE FALSE
      BY <1>2, <2>0
    <3>1. k + i = k
      BY <1>2
    <3> QED
      BY <1>10, <2>1, <3>1
  <2>3. k + i \in 0..(RLen - 1)
    BY <1>2, <2>0, <2>1
  <2>4. /\ Pos(r.cur) + 1 + (k + i) <= last
        /\ r.rwnd[Ring(r.head, k + i, RLen)].seqnum = Add(r.cur, k + i + 1)
        /\ r.rwnd[Ring(r.head, k + i, RLen)].data = Input[Pos(r.cur) + 1 + (k + i)]
    BY <1>w, <2>1, <2>3
  <2>5. Pos(t.cur) + 1 + i = Pos(r.cur) + 1 + (k + i)
    BY <1>2, <1>4, <1>7, <1>p, <2>0
  <2>6. Add(r.cur, k + i + 1) = Add(t.cur, i + 1)
    <3>1. i + 1 \in Nat /\ k + (i + 1) < SeqMod /\ k + (i + 1) = k + i + 1
      BY <1>2, <2>0, <2>1
    <3>2. Add(Add(r.cur, k), i + 1) = Add(r.cur, k + (i + 1))
      BY <1>1, <1>2, <3>1, AddAdd
    <3> QED
      BY <1>7, <3>1, <3>2 DEF c
  <2> QED
    BY <2>1, <2>2, <2>4, <2>5, <2>6
<1>15. ASSUME NEW e \in Word, Got(r, e) PROVE Got(t, e)
  <2>0. Pos(e) \in Nat
    BY WordFacts
  <2>1. CASE Pos(e) <= Pos(r.cur)
    <3>1. Pos(e) <= Pos(t.cur)
      BY <1>2, <1>4, <1>7, <1>p, <2>0, <2>1
    <3> QED
      BY <3>1 DEF Got
  <2>2. CASE ~ (Pos(e) <= Pos(r.cur))
    <3>1. PICK i \in RIdx : /\ r.rwnd[Ring(r.head, i, RLen)].is_used
                            /\ Pos(e) = Pos(r.cur) + 1 + i
      BY <1>15, <2>2 DEF Got
    <3>2. i \in 0..(RLen - 1)
      BY <1>i
    <3>3. CASE i < k
      <4>1. Pos(e) <= Pos(t.cur)
        BY <1>2, <1>4, <1>7, <1>p, <2>0, <3>1, <3>2, <3>3
      <4> QED
        BY <4>1 DEF Got
    <3>4. CASE ~ (i < k)
      <4> DEFINE j == i - k
      <4>1. j \in 0..(RLen - 1) /\ k + j = i /\ Pos(e) = Pos(r.cur) + k + 1 + j /\ k + j < RLen
        BY <1>2, <1>p, <3>1, <3>2, <3>4
      <4> HIDE DEF j
      <4>2. t.rwnd[Ring(h, j, RLen)].is_used
        BY <1>9, <3>1, <4>1
      <4>3. j \in RIdx /\ t.rwnd[Ring(t.head, j, RLen)].is_used /\ Pos(e) = Pos(t.cur) + 1 + j
        BY <1>4, <1>7, <1>i, <4>1, <4>2
      <4> QED
        BY <4>3 DEF Got
    <3> QED
      BY <3>3, <3>4
  <2> QED
    BY <2>1, <2>2
<1>16. Counted(r) => Counted(t)
  <2> DEFINE K == {i \in RIdx : Dist(r.head, i, RLen) < k}
  <2>1. ASSUME NEW i \in K PROVE i \in UsedSlots(r)
    <3>1. i \in 0..(RLen - 1)
      BY <1>i
    <3>2. /\ Dist(r.head, i, RLen) \in 0..(RLen - 1)
          /\ Ring(r.head, Dist(r.head, i, RLen), RLen) = i
      BY <1>2, <1>r, <3>1, DistFacts
    <3>3. Dist(r.head, i, RLen) \in 0..(k - 1)
      BY <1>2, <3>2
    <3> QED
      BY <1>11, <3>2, <3>3 DEF UsedSlots
  <2>2. UsedSlots(t) = UsedSlots(r) \ K
    BY <1>8 DEF UsedSlots
  <2>3. Cardinality(K) = k
    BY <1>1, RunLength
  <2> HIDE DEF K
  <2>4. UsedSlots(r) \cap K = K
    BY <2>1
  <2>5. Cardinality(UsedSlots(t)) = Cardinality(UsedSlots(r)) - k
    BY <2>2, <2>3, <2>4, UsedFinite, FS_Difference, ZenonT(60)
  <2> QED
    BY <1>7, <2>5 DEF Counted, u
<1> QED
  BY <1>4, <1>7, <1>14, <1>15, <1>16 DEF t

\* A segment the receiver has is never the one just after RCV.CUR.
LEMMA GotGap ==
    ASSUME NEW r \in RecvState, NEW q, NEW last, RcvInv(r, q, last),
           NEW e \in Word, Got(r, e)
    PROVE  Pos(e) # Pos(r.cur) + 1
<1>1. Pos(r.cur) \in Nat /\ Pos(e) \in Nat
  BY WordFacts DEF RecvState
<1>2. \A i \in RIdx : r.rwnd[Ring(r.head, i, RLen)].is_used => i > 0
  BY DEF RcvInv
<1>3. \A i \in RIdx : i \in Nat
  BY Lengths
<1> QED
  BY <1>1, <1>2, <1>3 DEF Got

\* Ring(h, i, RLen) is a slot.
LEMMA RwndSlots ==
    ASSUME NEW h \in RIdx, NEW i \in RIdx
    PROVE  Ring(h, i, RLen) \in RIdx
<1>1. h \in 0..(RLen - 1) /\ i \in 0..RLen /\ RLen \in Nat \ {0}
  BY Lengths
<1>2. Ring(h, i, RLen) \in 0..(RLen - 1)
  BY <1>1, RingFacts
<1> QED
  BY <1>2, Lengths

\* The acknowledgement of delayed_ack(): the window keeps its contents, and
\* the extended acks name segments beyond the gap at RCV.CUR + 1.
LEMMA DelayedAckSafe ==
    ASSUME NEW r \in RecvState, NEW q, NEW last \in 0..MaxMsgs, RcvInv(r, q, last)
    PROVE  LET t == delayed_ack(r)
               m == DelayedAckSegment(r)
           IN  /\ t \in RecvState
               /\ RcvInv(t, q, last)
               /\ t.cur = r.cur
               /\ \A e \in Word : Got(r, e) => Got(t, e)
               /\ Counted(r) => Counted(t)
               /\ m \in AckSegment
               /\ m.ack = r.cur
               /\ \A e \in m.eacks : e \in Word /\ Got(t, e) /\ Pos(e) > Pos(r.cur) + 1
<1> DEFINE w == [i \in RIdx |-> IF i \in FreshEacks(r)
                    THEN [r.rwnd[i] EXCEPT !.is_eacked = TRUE] ELSE r.rwnd[i]]
           t == delayed_ack(r)
           m == DelayedAckSegment(r)
<1>1. /\ r.cur \in Word /\ r.head \in RIdx /\ r.rwnd \in [RIdx -> RwndSlot]
  BY DEF RecvState
<1>2. w \in [RIdx -> RwndSlot]
  <2> SUFFICES ASSUME NEW i \in RIdx
               PROVE  [r.rwnd[i] EXCEPT !.is_eacked = TRUE] \in RwndSlot
    BY <1>1
  <2>1. r.rwnd[i] \in RwndSlot
    BY <1>1
  <2> QED
    BY <2>1 DEF RwndSlot
<1>3. t = [r EXCEPT !.rwnd = w, !.ack = r.cur]
  BY DEF delayed_ack
<1>4. /\ t \in RecvState /\ t.rwnd = w /\ t.head = r.head /\ t.cur = r.cur
      /\ t.used = r.used
  <2> HIDE DEF w, t
  <2> QED
    BY <1>1, <1>2, <1>3 DEF RecvState
<1>5. ASSUME NEW i \in RIdx
      PROVE  /\ t.rwnd[i].is_used = r.rwnd[i].is_used
             /\ t.rwnd[i].seqnum = r.rwnd[i].seqnum
             /\ t.rwnd[i].data = r.rwnd[i].data
  <2>1. r.rwnd[i] \in RwndSlot
    BY <1>1
  <2>2. t.rwnd[i] = r.rwnd[i] \/ t.rwnd[i] = [r.rwnd[i] EXCEPT !.is_eacked = TRUE]
    BY <1>4
  <2> HIDE DEF t, w
  <2> QED
    BY <2>1, <2>2 DEF RwndSlot
<1> HIDE DEF t, w
<1>6. RcvInv(t, q, last)
  <2> SUFFICES ASSUME NEW i \in RIdx, t.rwnd[Ring(r.head, i, RLen)].is_used
               PROVE  /\ i > 0
                      /\ Pos(r.cur) + 1 + i <= last
                      /\ t.rwnd[Ring(r.head, i, RLen)].seqnum = Add(r.cur, i + 1)
                      /\ t.rwnd[Ring(r.head, i, RLen)].data = Input[Pos(r.cur) + 1 + i]
    BY <1>4 DEF RcvInv
  <2>1. Ring(r.head, i, RLen) \in RIdx
    BY <1>1, RwndSlots
  <2> QED
    BY <1>5, <2>1 DEF RcvInv
<1>7. ASSUME NEW e \in Word, Got(r, e) PROVE Got(t, e)
  <2>1. \A i \in RIdx : t.rwnd[Ring(r.head, i, RLen)].is_used
                          = r.rwnd[Ring(r.head, i, RLen)].is_used
    BY <1>1, <1>5, RwndSlots
  <2> QED
    BY <1>4, <1>7, <2>1 DEF Got
<1>8. m.ack = r.cur /\ m.eacks = {r.rwnd[i].seqnum : i \in FreshEacks(r)}
  BY DEF DelayedAckSegment
<1>9. m \in AckSegment
  <2>1. \A i \in FreshEacks(r) : r.rwnd[i].seqnum \in Word
    BY <1>1 DEF FreshEacks, RwndSlot
  <2> QED
    BY <1>1, <2>1 DEF DelayedAckSegment, AckSegment
<1>10. ASSUME NEW e \in m.eacks
       PROVE  e \in Word /\ Got(r, e) /\ Pos(e) > Pos(r.cur) + 1
  <2>1. PICK i \in RIdx : r.rwnd[i].is_used /\ e = r.rwnd[i].seqnum
    BY <1>8 DEF FreshEacks
  <2> DEFINE d == Dist(r.head, i, RLen)
  <2>2. d \in RIdx /\ Ring(r.head, d, RLen) = i
    <3>1. r.head \in 0..(RLen - 1) /\ i \in 0..(RLen - 1) /\ RLen \in Nat \ {0}
      BY <1>1, Lengths
    <3>2. d \in 0..(RLen - 1) /\ Ring(r.head, d, RLen) = i
      BY <3>1, DistFacts
    <3> QED
      BY <3>2, Lengths
  <2> HIDE DEF d
  <2>3. d > 0 /\ Pos(r.cur) + 1 + d <= last /\ e = Add(r.cur, d + 1)
    BY <2>1, <2>2 DEF RcvInv
  <2>4. d + 1 \in Nat /\ d + 1 < SeqMod /\ Pos(r.cur) + (d + 1) < SeqMod /\ Pos(r.cur) \in Nat
        /\ d \in Nat
    <3>1. d \in Nat /\ d < RLen /\ RLen < SeqMod /\ RLen \in Nat /\ SeqMod \in Nat
      BY <2>2, Lengths, StreamAssumption
    <3>2. last < SeqMod /\ last \in Nat
      BY StreamAssumption
    <3>3. Pos(r.cur) \in Nat
      BY <1>1, WordFacts
    <3> QED
      BY <2>3, <3>1, <3>2, <3>3
  <2>5. e \in Word /\ Pos(e) = Pos(r.cur) + (d + 1)
    BY <1>1, <2>3, <2>4, AddFacts
  <2>6. Pos(e) = Pos(r.cur) + 1 + d /\ Pos(e) > Pos(r.cur) + 1
    BY <2>3, <2>4, <2>5
  <2> QED
    BY <2>1, <2>2, <2>5, <2>6 DEF Got
<1>11. Counted(r) => Counted(t)
  <2>1. UsedSlots(t) = UsedSlots(r)
    BY <1>5 DEF UsedSlots
  <2> QED
    BY <1>4, <2>1 DEF Counted
<1> QED
  BY <1>4, <1>6, <1>7, <1>8, <1>9, <1>10, <1>11 DEF t
-----------------------------------------------------------------------------
(* Steps.  A step of the sender and a step of the receiver disturb different  *)
(* conjuncts of StreamInv; these two lemmas say what is left to show.         *)

\* What a step of the sender keeps, besides the invariant: the window as full as the
\* peer allows, and what was acknowledged.
SenderKeeps ==
    /\ Full(snd) => Full(snd')
    /\ Pos(snd.una) <= Pos(snd'.una)
    /\ \A e \in Acked(snd) : Pos(e) > Pos(snd'.una) => e \in Acked(snd')

\* What a sending ring marks as acknowledged are sequence numbers.
LEMMA AckedWords ==
    ASSUME NEW s \in SendState
    PROVE  Acked(s) \subseteq Word
BY DEF Acked, SendState, SwndSlot

\* What the invariant says of the numbers a step works with: nothing is sent that
\* send() did not accept.
LEMMA LastSent ==
    ASSUME TypeOK, StreamInv
    PROVE  /\ Pos(snd.nxt) - 1 \in 0..MaxMsgs
           /\ Pos(snd.nxt) - 1 <= accepted
           /\ Pos(snd.una) \in Nat /\ Pos(snd.nxt) \in Nat /\ Pos(rcv.cur) \in Nat
           /\ Eacked \subseteq Word
           /\ \A m \in ackNet : m.ack \in Word
<1>1. snd \in SendState /\ accepted \in 0..MaxMsgs /\ SndInv(snd, accepted)
  BY DEF TypeOK, StreamInv
<1>2. /\ Pos(snd.una) \in Nat /\ Pos(snd.nxt) \in Nat /\ Pos(snd.nxt) <= accepted + 1
  BY <1>1, SndNumbers
<1>3. Pos(snd.una) < Pos(snd.nxt)
  BY <1>1 DEF SndInv
<1>4. Pos(rcv.cur) \in Nat
  BY WordFacts DEF TypeOK, RecvState
<1>5. MaxMsgs \in Nat
  BY StreamAssumption
<1>6. Eacked \subseteq Word /\ \A m \in ackNet : m.ack \in Word
  <2>1. Acked(snd) \subseteq Word
    BY <1>1, AckedWords
  <2>2. \A m \in ackNet : m.eacks \subseteq Word /\ m.ack \in Word
    BY DEF TypeOK, AckSegment
  <2> QED
    BY <2>1, <2>2 DEF Eacked
<1> QED
  BY <1>1, <1>2, <1>3, <1>4, <1>5, <1>6

\* A step of the sender keeps the invariant if it keeps SndInv, sends only segments
\* of the input, and believes only acknowledgements that are under way.
LEMMA SenderStep ==
    ASSUME TypeOK, StreamInv,
           snd' \in SendState, accepted' \in 0..MaxMsgs, SndInv(snd', accepted'),
           Pos(snd.nxt) <= Pos(snd'.nxt),
           Pos(snd'.una) <= Pos(rcv.cur),
           Acked(snd') \subseteq Eacked,
           \A e \in Eacked : Pos(e) # Pos(snd'.una) + 1,
           \A g \in dataNet' : \/ g \in dataNet
                               \/ /\ g \in DataSegment
                                  /\ Pos(g.seq) \in 1..(Pos(snd'.nxt) - 1)
                                  /\ g.data = Input[Pos(g.seq)],
           UNCHANGED <<rcv, delivered, nread, ackNet>>
    PROVE  TypeOK' /\ StreamInv'
<1>0. /\ Pos(snd.nxt) \in Nat /\ Pos(rcv.cur) \in Nat /\ Pos(snd'.nxt) \in Nat
  <2>1. Pos(snd'.nxt) \in Nat
    BY WordFacts DEF SendState
  <2> QED
    BY <2>1, LastSent
<1>1. TypeOK'
  BY DEF TypeOK
<1>2. RcvInv(rcv, delivered, Pos(snd'.nxt) - 1)
  <2>0. \A i \in RIdx : i \in Nat
    BY Lengths
  <2>1. RcvInv(rcv, delivered, Pos(snd.nxt) - 1)
    BY DEF StreamInv
  <2>2. \A x \in Nat : x <= Pos(snd.nxt) - 1 => x <= Pos(snd'.nxt) - 1
    BY <1>0
  <2>3. \A i \in RIdx : Pos(rcv.cur) + 1 + i \in Nat
    BY <1>0, <2>0
  <2> QED
    BY <1>0, <2>1, <2>2, <2>3 DEF RcvInv
<1>3. \A m \in dataNet' : /\ Pos(m.seq) \in 1..(Pos(snd'.nxt) - 1)
                          /\ m.data = Input[Pos(m.seq)]
  <2> SUFFICES ASSUME NEW m \in dataNet, Pos(m.seq) \in 1..(Pos(snd.nxt) - 1)
               PROVE  Pos(m.seq) \in 1..(Pos(snd'.nxt) - 1)
    BY DEF StreamInv
  <2> QED
    BY <1>0
<1>4. Eacked' \subseteq Eacked
  BY DEF Eacked
<1>5. \A m \in ackNet' : Pos(m.ack) <= Pos(rcv.cur)
  BY DEF StreamInv
<1>6. \A e \in Eacked' : /\ Got(rcv, e)
                         /\ Pos(e) # Pos(snd'.una) + 1
                         /\ \A m \in ackNet : Pos(e) # Pos(m.ack) + 1
  BY <1>4 DEF StreamInv
<1>7. StreamInv'
  BY <1>2, <1>3, <1>5, <1>6 DEF StreamInv
<1> QED
  BY <1>1, <1>7

\* A step of the receiver keeps the invariant if it keeps RcvInv, loses nothing, and
\* acknowledges only what it has.
LEMMA ReceiverStep ==
    ASSUME TypeOK, StreamInv,
           rcv' \in RecvState, RcvInv(rcv', delivered', Pos(snd.nxt) - 1),
           Pos(rcv.cur) <= Pos(rcv'.cur),
           \A e \in Word : Got(rcv, e) => Got(rcv', e),
           \A m \in ackNet' : \/ m \in ackNet
                              \/ /\ m \in AckSegment
                                 /\ m.ack = rcv'.cur
                                 /\ \A e \in m.eacks : /\ Got(rcv', e)
                                                       /\ Pos(e) > Pos(rcv'.cur) + 1,
           UNCHANGED <<snd, accepted, nread, dataNet>>
    PROVE  TypeOK' /\ StreamInv'
<1>0. /\ Pos(snd.nxt) \in Nat /\ Pos(rcv.cur) \in Nat /\ Pos(snd.una) \in Nat
      /\ Pos(snd.nxt) - 1 \in 0..MaxMsgs
      /\ Eacked \subseteq Word
      /\ \A m \in ackNet : m.ack \in Word
  BY LastSent
<1>c. rcv'.cur \in Word /\ Pos(rcv'.cur) \in Nat
  BY WordFacts DEF RecvState
<1>m. ackNet' \subseteq AckSegment
  BY DEF TypeOK
<1>1. TypeOK'
  <2>1. delivered' = [i \in 1..Pos(rcv'.cur) |-> Input[i]] /\ Pos(rcv'.cur) <= Pos(snd.nxt) - 1
    BY DEF RcvInv
  <2>2. \A i \in 1..Pos(rcv'.cur) : Input[i] \in Payload
    <3>1. \A i \in 1..Pos(rcv'.cur) : i \in 1..MaxMsgs
      BY <1>0, <1>c, <2>1, StreamAssumption
    <3> QED
      BY <3>1, StreamAssumption
  <2>3. delivered' \in [1..Pos(rcv'.cur) -> Payload]
    BY <2>1, <2>2
  <2>4. nread' \in 0..Pos(rcv'.cur)
    <3>1. nread \in 0..Pos(rcv.cur)
      BY DEF TypeOK, Pos
    <3> QED
      BY <1>0, <1>c, <3>1
  <2> QED
    BY <1>m, <2>3, <2>4 DEF TypeOK, Pos
<1>2. \A m \in ackNet' : Pos(m.ack) <= Pos(rcv'.cur)
  <2> SUFFICES ASSUME NEW m \in ackNet PROVE Pos(m.ack) <= Pos(rcv'.cur)
    BY <1>c
  <2>1. Pos(m.ack) <= Pos(rcv.cur) /\ Pos(m.ack) \in Nat
    BY <1>0, WordFacts DEF StreamInv
  <2> QED
    BY <1>0, <1>c, <2>1
<1>3. ASSUME NEW e \in Eacked'
      PROVE  /\ Got(rcv', e)
             /\ Pos(e) # Pos(snd.una) + 1
             /\ \A m \in ackNet' : Pos(e) # Pos(m.ack) + 1
  <2>1. CASE e \in Eacked
    <3>1. e \in Word /\ Got(rcv', e)
      BY <1>0, <2>1 DEF StreamInv
    <3>2. Pos(e) # Pos(rcv'.cur) + 1
      BY <3>1, GotGap
    <3> QED
      BY <2>1, <3>1, <3>2 DEF StreamInv
  <2>2. CASE e \notin Eacked
    <3>1. PICK m \in ackNet' : e \in m.eacks
      BY <2>2 DEF Eacked
    <3>2. m \notin ackNet
      BY <2>2, <3>1 DEF Eacked
    <3>3. Got(rcv', e) /\ Pos(e) > Pos(rcv'.cur) + 1 /\ e \in Word
      BY <1>m, <3>1, <3>2 DEF AckSegment
    <3>4. Pos(e) \in Nat
      BY <3>3, WordFacts
    <3>5. Pos(snd.una) <= Pos(rcv.cur)
      BY DEF StreamInv
    <3>6. ASSUME NEW x \in ackNet' PROVE Pos(e) # Pos(x.ack) + 1
      <4>1. Pos(x.ack) <= Pos(rcv'.cur) /\ Pos(x.ack) \in Nat
        BY <1>2, <1>m, WordFacts DEF AckSegment
      <4> QED
        BY <1>c, <3>3, <3>4, <4>1
    <3> QED
      BY <1>0, <1>c, <3>3, <3>4, <3>5, <3>6
  <2> QED
    BY <2>1, <2>2
<1>4. Pos(snd.una) <= Pos(rcv'.cur)
  <2>1. Pos(snd.una) <= Pos(rcv.cur)
    BY DEF StreamInv
  <2> QED
    BY <1>0, <1>c, <2>1
<1>5. StreamInv'
  BY <1>2, <1>3, <1>4 DEF StreamInv
<1> QED
  BY <1>1, <1>5

\* A connection that has just become open satisfies the invariant.
LEMMA InitSafe == Init => TypeOK /\ StreamInv
<1> SUFFICES ASSUME Init PROVE TypeOK /\ StreamInv
  OBVIOUS
<1>0. /\ Iss \in Word /\ Pos(Iss) = 0 /\ Pos(Add(Iss, 1)) = 1 /\ Add(Iss, 1) \in Word
      /\ 0 \in Word
  BY StreamIssFacts, StreamAssumption DEF Word
<1>1. /\ RLen \in Nat \ {0} /\ SLen \in Nat \ {0} /\ 0 \in RIdx /\ 0 \in SIdx
      /\ \A i \in RIdx : i \in Nat
      /\ MaxMsgs \in Nat /\ RcvMax \in Nat \ {0, 1}
  BY Lengths, StreamAssumption
<1>2. snd \in SendState /\ snd.una = Iss /\ snd.nxt = Add(Iss, 1) /\ snd.used = 0
      /\ snd.head = 0 /\ snd.ostand = 0
  BY <1>0, <1>1 DEF Init, init_swnd, SendState, SwndSlot
<1>3. /\ rcv \in RecvState /\ rcv.cur = Iss /\ rcv.head = 0
      /\ \A i \in RIdx : ~ rcv.rwnd[i].is_used
  BY <1>0, <1>1 DEF Init, init_rwnd, RecvState, RwndSlot
<1>4. Outstanding(snd) = 0
  BY <1>1, <1>2 DEF Outstanding, Dist
<1>5. SndInv(snd, accepted)
  BY <1>0, <1>1, <1>2, <1>4 DEF SndInv, Init
<1>6. RcvInv(rcv, delivered, Pos(snd.nxt) - 1)
  <2>1. delivered = [i \in 1..Pos(rcv.cur) |-> Input[i]]
    BY <1>0, <1>3 DEF Init
  <2>2. \A i \in RIdx : ~ rcv.rwnd[Ring(rcv.head, i, RLen)].is_used
    BY <1>1, <1>3, RwndSlots
  <2> QED
    BY <1>0, <1>2, <1>3, <2>1, <2>2 DEF RcvInv
<1>7. Acked(snd) = {}
  <2> SUFFICES ASSUME NEW j \in SIdx, Dist(snd.head, j, SLen) < snd.used PROVE FALSE
    BY DEF Acked
  <2> QED
    BY <1>1, <1>2, Lengths DEF Dist
<1>8. Eacked = {}
  BY <1>7 DEF Eacked, Init
<1>9. TypeOK
  <2>1. accepted \in 0..MaxMsgs /\ dataNet \subseteq DataSegment /\ ackNet \subseteq AckSegment
    BY <1>1 DEF Init
  <2>2. delivered \in [1..Sub(rcv.cur, Iss) -> Payload] /\ nread \in 0..Sub(rcv.cur, Iss)
    BY <1>0, <1>3 DEF Init, Pos
  <2> QED
    BY <1>2, <1>3, <2>1, <2>2 DEF TypeOK
<1>10. StreamInv
  BY <1>0, <1>2, <1>3, <1>5, <1>6, <1>8 DEF StreamInv, Init
<1> QED
  BY <1>9, <1>10

\* send() keeps the invariant.
LEMMA SendSafe == TypeOK /\ StreamInv /\ Send => TypeOK' /\ StreamInv' /\ SenderKeeps
<1> SUFFICES ASSUME TypeOK, StreamInv, Send PROVE TypeOK' /\ StreamInv' /\ SenderKeeps
  OBVIOUS
<1> DEFINE s == enqueue_swnd(snd, Input[accepted + 1])
           t == send_ostand_swnd(s)
<1>1. /\ snd \in SendState /\ accepted \in 0..(MaxMsgs - 1) /\ SndInv(snd, accepted)
      /\ snd.used < SLen
  <2>1. accepted \in 0..MaxMsgs /\ accepted < MaxMsgs
    BY DEF Send, TypeOK
  <2>2. accepted \in 0..(MaxMsgs - 1)
    BY <2>1, StreamAssumption
  <2> QED
    BY <2>2 DEF Send, TypeOK, StreamInv
<1>2. accepted + 1 \in 0..MaxMsgs
  BY <1>1, StreamAssumption
<1>3. /\ s \in SendState /\ SndInv(s, accepted + 1)
      /\ s.una = snd.una /\ s.nxt = snd.nxt /\ Acked(s) = Acked(snd)
      /\ s.used = snd.used + 1 /\ Outstanding(s) = Outstanding(snd)
  BY <1>1, EnqueueSafe
<1> HIDE DEF s
<1>4. /\ t \in SendState /\ SndInv(t, accepted + 1) /\ t.una = s.una
      /\ Pos(s.nxt) <= Pos(t.nxt) /\ Acked(t) = Acked(s)
      /\ \A g \in OstandSegments(s) : /\ g \in DataSegment
                                      /\ Pos(g.seq) \in 1..(Pos(t.nxt) - 1)
                                      /\ g.data = Input[Pos(g.seq)]
  BY <1>2, <1>3, OstandSafe
<1>5. /\ snd' = t /\ accepted' = accepted + 1
      /\ dataNet' = dataNet \cup OstandSegments(s)
      /\ UNCHANGED <<rcv, delivered, nread, ackNet>>
  BY DEF Send, s
<1> HIDE DEF t
<1>6. /\ Pos(snd.una) <= Pos(rcv.cur)
      /\ \A e \in Eacked : Pos(e) # Pos(snd.una) + 1
      /\ Acked(snd) \subseteq Eacked
  BY DEF StreamInv, Eacked
<1>7. Full(snd) => Full(t)
  <2> SUFFICES ASSUME Full(snd) PROVE Full(t)
    OBVIOUS
  <2>1. /\ snd.used \in 0..SLen /\ Outstanding(snd) \in 0..(SLen - 1) /\ SLen \in Nat
        /\ Outstanding(snd) + 1 <= RcvMax /\ RcvMax \in Nat \ {0, 1} /\ RcvMax < SLen
    <3>1. snd.used \in 0..SLen /\ Outstanding(snd) \in 0..(SLen - 1)
      BY <1>1, SndNumbers, StreamAssumption
    <3>2. /\ Pos(snd.nxt) = Pos(snd.una) + Outstanding(snd) + 1
          /\ Pos(snd.nxt) <= Pos(snd.una) + RcvMax
          /\ Pos(snd.una) \in Nat
      BY <1>1, SndNumbers, StreamAssumption DEF SndInv
    <3>3. SLen \in Nat /\ RcvMax \in Nat \ {0, 1} /\ RcvMax < SLen
      BY Lengths, StreamAssumption
    <3> QED
      BY <3>1, <3>2, <3>3
  <2>2. s.used < SLen \/ Outstanding(s) > 0
    BY <1>1, <1>3, <2>1 DEF Full
  <2> QED
    BY <1>2, <1>3, <2>2, OstandFills DEF t
<1>8. SenderKeeps
  <2>1. Pos(snd.una) \in Nat
    BY LastSent
  <2> QED
    BY <1>3, <1>4, <1>5, <1>7, <2>1 DEF SenderKeeps
<1> QED
  BY <1>2, <1>3, <1>4, <1>5, <1>6, <1>8, SenderStep

\* So does a segment with an acknowledgement, extended or not, in in_state_open().
LEMMA RecvAckSafe == TypeOK /\ StreamInv /\ RecvAck =>
                        TypeOK' /\ StreamInv' /\ snd'.state = snd.state /\ SenderKeeps
<1> SUFFICES ASSUME TypeOK, StreamInv, RecvAck
             PROVE  TypeOK' /\ StreamInv' /\ snd'.state = snd.state /\ SenderKeeps
  OBVIOUS
<1>1. snd \in SendState /\ accepted \in 0..MaxMsgs /\ SndInv(snd, accepted)
  BY DEF TypeOK, StreamInv
<1>2. PICK m \in ackNet, k \in 0..Outstanding(snd) :
         /\ AckFlushes(snd, m.ack, k)
         /\ LET s1 == recv_ack(snd, m.ack, k)
                s2 == MarkEacked(send_ostand_swnd(s1), m.eacks)
            IN  \E j \in 0..Outstanding(s2) :
                  /\ EackRemoves(s2, m.eacks, j)
                  /\ snd' = RemoveHead(s2, j)
                  /\ dataNet' = dataNet \cup OstandSegments(s1)
  BY DEF RecvAck
<1> DEFINE s1 == recv_ack(snd, m.ack, k)
           s == send_ostand_swnd(s1)
           s2 == MarkEacked(s, m.eacks)
<1>3. PICK j \in 0..Outstanding(s2) : /\ EackRemoves(s2, m.eacks, j)
                                      /\ snd' = RemoveHead(s2, j)
                                      /\ dataNet' = dataNet \cup OstandSegments(s1)
  BY <1>2
<1>4. m.ack \in Word /\ m.eacks \subseteq Eacked
  BY LastSent DEF Eacked
<1>5. /\ s1 \in SendState /\ SndInv(s1, accepted) /\ s1.nxt = snd.nxt /\ s1.state = snd.state
      /\ s1.una \in {snd.una, m.ack} /\ Acked(s1) \subseteq Acked(snd)
      /\ Pos(snd.una) <= Pos(s1.una)
      /\ \A e \in Acked(snd) : Pos(e) > Pos(s1.una) => e \in Acked(s1)
      /\ \/ s1 = snd
         \/ s1.used = snd.used - k /\ Outstanding(s1) = Outstanding(snd) - k
  BY <1>1, <1>2, <1>4, AckSafe
<1> HIDE DEF s1
\* What is flushed makes room; a ring that stays full still has its window outstanding.
<1>f. Full(snd) => s1.used < SLen \/ Outstanding(s1) > 0
  <2>1. /\ snd.used \in 0..SLen /\ Outstanding(snd) \in 0..(SLen - 1) /\ SLen \in Nat
        /\ RcvMax \in Nat \ {0, 1} /\ k \in Nat
    <3>1. snd.used \in 0..SLen /\ Outstanding(snd) \in 0..(SLen - 1)
      BY <1>1, SndNumbers
    <3> QED
      BY <3>1, Lengths, StreamAssumption
  <2> QED
    BY <1>5, <2>1 DEF Full
<1>6. /\ s \in SendState /\ SndInv(s, accepted) /\ s.una = s1.una /\ s.state = s1.state
      /\ Pos(s1.nxt) <= Pos(s.nxt) /\ Acked(s) = Acked(s1)
      /\ \A g \in OstandSegments(s1) : /\ g \in DataSegment
                                       /\ Pos(g.seq) \in 1..(Pos(s.nxt) - 1)
                                       /\ g.data = Input[Pos(g.seq)]
  BY <1>1, <1>5, OstandSafe
<1>g. Full(snd) => Full(s)
  BY <1>1, <1>5, <1>f, OstandFills
<1> HIDE DEF s
<1>7. /\ s2 \in SendState /\ SndInv(s2, accepted) /\ s2.nxt = s.nxt /\ s2.una = s.una
      /\ Acked(s2) \subseteq Acked(s) \cup m.eacks /\ s2.state = s.state
      /\ s2.used = s.used /\ Outstanding(s2) = Outstanding(s) /\ Acked(s) \subseteq Acked(s2)
  BY <1>1, <1>6, EackSafe
<1> HIDE DEF s2
<1>8. /\ Acked(s2) \subseteq Eacked
      /\ \A e \in Eacked : Pos(e) # Pos(s2.una) + 1
      /\ Pos(s2.una) <= Pos(rcv.cur)
  <2>1. s2.una \in {snd.una, m.ack}
    BY <1>5, <1>6, <1>7
  <2> QED
    BY <1>4, <1>5, <1>6, <1>7, <2>1 DEF StreamInv, Eacked
\* The segment after SND.UNA was never marked: the head stays.
<1>9. snd' = s2
  <2>1. Add(s2.una, 1) \notin Acked(s2)
    <3>1. s2.una \in Word /\ Pos(s2.una) <= Pos(rcv.cur)
      BY <1>7, <1>8 DEF SendState
    <3>2. Pos(s2.una) \in Nat /\ Pos(s2.una) + 1 < SeqMod /\ 1 < SeqMod
      <4>1. Pos(s2.una) \in Nat
        BY <3>1, WordFacts
      <4>2. Pos(s2.una) < Pos(s2.nxt) /\ Pos(s2.nxt) <= accepted + 1 /\ Pos(s2.nxt) \in Nat
        BY <1>1, <1>7, SndNumbers DEF SndInv
      <4>3. accepted \in Nat /\ accepted + 2 < SeqMod /\ SeqMod \in Nat
        BY <1>1, StreamAssumption
      <4> QED
        BY <4>1, <4>2, <4>3
    <3>3. Pos(Add(s2.una, 1)) = Pos(s2.una) + 1
      BY <3>1, <3>2, AddFacts
    <3> QED
      BY <1>8, <3>3
  <2>2. RemoveHead(s2, j) = s2
    BY <1>1, <1>3, <1>7, <2>1, RemoveNone
  <2> QED
    BY <1>3, <2>2
<1>10. accepted' = accepted /\ UNCHANGED <<rcv, delivered, nread, ackNet>>
  BY DEF RecvAck
<1>11. SenderKeeps
  BY <1>5, <1>6, <1>7, <1>9, <1>g DEF SenderKeeps, Full
<1> QED
  BY <1>1, <1>3, <1>5, <1>6, <1>7, <1>8, <1>9, <1>10, <1>11, SenderStep

\* retransmit() repeats segments as they are and touches only their timers.
LEMMA SenderTimerSafe == TypeOK /\ StreamInv /\ SenderTimer =>
                            TypeOK' /\ StreamInv' /\ SenderKeeps
<1> SUFFICES ASSUME TypeOK, StreamInv, NEW late \in SUBSET Unacked(snd), Retransmit(late)
             PROVE  TypeOK' /\ StreamInv' /\ SenderKeeps
  BY DEF SenderTimer
<1> DEFINE again == {i \in late : \A j \in Exhausted(snd) : i < j}
           slots == {Ring(snd.head, i, SLen) : i \in again}
           w == [i \in SIdx |-> IF i \in slots
                    THEN [snd.swnd[i] EXCEPT !.rt_sec = 2 * snd.swnd[i].rt_sec]
                    ELSE snd.swnd[i]]
           x == IF Exhausted(snd) = {} THEN snd.state ELSE "CLOSED"
<1>1. /\ snd \in SendState /\ accepted \in 0..MaxMsgs /\ SndInv(snd, accepted)
      /\ snd.head \in SIdx /\ snd.una \in Word /\ snd.swnd \in [SIdx -> SwndSlot]
  BY DEF TypeOK, StreamInv, SendState
<1>2. /\ snd' = [snd EXCEPT !.swnd = w, !.state = x]
      /\ dataNet' = dataNet \cup
            {[seq |-> snd.swnd[i].seqnum, data |-> snd.swnd[i].data] : i \in slots}
      /\ UNCHANGED <<rcv, accepted, delivered, nread, ackNet>>
  <2>1. snd' = [snd EXCEPT !.swnd = w, !.state = x]
    BY Zenon DEF Retransmit
  <2>2. dataNet' = dataNet \cup
            {[seq |-> snd.swnd[i].seqnum, data |-> snd.swnd[i].data] : i \in slots}
    BY Zenon DEF Retransmit
  <2> QED
    BY <2>1, <2>2 DEF Retransmit
<1>3. w \in [SIdx -> SwndSlot] /\ x \in {"OPEN", "CLOSED"}
  <2>1. ASSUME NEW i \in SIdx
        PROVE  [snd.swnd[i] EXCEPT !.rt_sec = 2 * snd.swnd[i].rt_sec] \in SwndSlot
    <3> DEFINE y == 2 * snd.swnd[i].rt_sec
    <3>1. snd.swnd[i] \in SwndSlot
      BY <1>1
    <3>2. y \in Nat
      BY <3>1 DEF SwndSlot
    <3>3. [snd.swnd[i] EXCEPT !.rt_sec = y] \in SwndSlot
      <4> HIDE DEF y
      <4> QED
        BY <3>1, <3>2 DEF SwndSlot
    <3> QED
      BY <3>3
  <2>2. w \in [SIdx -> SwndSlot]
    BY <1>1, <2>1
  <2> QED
    BY <1>1, <2>2 DEF SendState
<1>4. /\ snd' \in SendState /\ snd'.swnd = w
      /\ snd'.una = snd.una /\ snd'.nxt = snd.nxt /\ snd'.used = snd.used
      /\ snd'.head = snd.head /\ snd'.ostand = snd.ostand
  <2> HIDE DEF w, x
  <2> QED
    BY <1>1, <1>2, <1>3 DEF SendState
<1>5. ASSUME NEW i \in SIdx
      PROVE  /\ snd'.swnd[i].is_sent = snd.swnd[i].is_sent
             /\ snd'.swnd[i].is_acked = snd.swnd[i].is_acked
             /\ snd'.swnd[i].seqnum = snd.swnd[i].seqnum
             /\ snd'.swnd[i].data = snd.swnd[i].data
  <2>1. snd.swnd[i] \in SwndSlot
    BY <1>1
  <2>2. w[i] = snd.swnd[i] \/ w[i] = [snd.swnd[i] EXCEPT !.rt_sec = 2 * snd.swnd[i].rt_sec]
    OBVIOUS
  <2> HIDE DEF w
  <2> QED
    BY <1>4, <2>1, <2>2 DEF SwndSlot
<1> HIDE DEF w, x
<1>i. \A i \in 0..(snd.used - 1) : Ring(snd.head, i, SLen) \in SIdx
  <2> SUFFICES ASSUME NEW i \in 0..(snd.used - 1) PROVE Ring(snd.head, i, SLen) \in SIdx
    OBVIOUS
  <2>1. snd.head \in 0..(SLen - 1) /\ i \in 0..SLen /\ SLen \in Nat \ {0}
    BY <1>1, Lengths DEF SendState
  <2>2. Ring(snd.head, i, SLen) \in 0..(SLen - 1)
    BY <2>1, RingFacts
  <2> QED
    BY <2>2, Lengths
<1>6. Outstanding(snd') = Outstanding(snd)
  BY <1>4 DEF Outstanding
<1>7. SndInv(snd', accepted')
  <2>1. ASSUME NEW i \in 0..(snd.used - 1)
        PROVE  LET p == snd'.swnd[Ring(snd.head, i, SLen)]
               IN  /\ p.is_sent <=> i < Outstanding(snd)
                   /\ p.is_sent => p.seqnum = Add(snd.una, i + 1)
                   /\ p.is_acked => p.is_sent
                   /\ ~ p.is_acked => p.data = Input[Pos(snd.una) + 1 + i]
    <3>1. Ring(snd.head, i, SLen) \in SIdx
      BY <1>i
    <3> QED
      BY <1>1, <1>5, <3>1 DEF SndInv
  <2> QED
    BY <1>1, <1>2, <1>4, <1>6, <2>1 DEF SndInv
<1>8. Acked(snd') \subseteq Acked(snd)
  BY <1>4, <1>5 DEF Acked
<1>9. ASSUME NEW g \in dataNet', g \notin dataNet
      PROVE  /\ g \in DataSegment
             /\ Pos(g.seq) \in 1..(Pos(snd.nxt) - 1)
             /\ g.data = Input[Pos(g.seq)]
  <2>1. PICK i \in Unacked(snd) :
          g = [seq |-> snd.swnd[Ring(snd.head, i, SLen)].seqnum,
               data |-> snd.swnd[Ring(snd.head, i, SLen)].data]
    BY <1>2, <1>9
  <2> DEFINE p == snd.swnd[Ring(snd.head, i, SLen)]
  <2>2. i \in 0..(snd.used - 1) /\ i \in 0..i /\ i \in Nat
    BY <1>1 DEF Unacked, SendState
  <2>3. p.is_sent /\ ~ p.is_acked
    BY <2>1, <2>2 DEF Unacked
  <2>4. i < Outstanding(snd) /\ p.seqnum = Add(snd.una, i + 1)
        /\ p.data = Input[Pos(snd.una) + 1 + i]
    BY <1>1, <2>2, <2>3 DEF SndInv
  <2>5. g.seq = p.seqnum /\ g.data = p.data
    BY <2>1
  <2> HIDE DEF p
  <2>6. /\ Pos(snd.una) \in Nat /\ Pos(snd.nxt) = Pos(snd.una) + Outstanding(snd) + 1
        /\ Pos(snd.nxt) <= accepted + 1 /\ Outstanding(snd) \in Nat
    BY <1>1, SndNumbers
  <2>7. /\ MaxMsgs \in Nat /\ MaxMsgs + 1 < SeqMod /\ SeqMod \in Nat
        /\ Input \in [1..MaxMsgs -> Payload]
    BY StreamAssumption
  <2>8. i + 1 \in Nat /\ i + 1 < SeqMod /\ Pos(snd.una) + (i + 1) < SeqMod
        /\ Pos(snd.una) + (i + 1) \in 1..(Pos(snd.nxt) - 1)
        /\ Pos(snd.una) + (i + 1) \in 1..MaxMsgs
        /\ Pos(snd.una) + 1 + i = Pos(snd.una) + (i + 1)
    BY <1>1, <2>2, <2>4, <2>6, <2>7, SMTT(60)
  <2>9. g.seq \in Word /\ Pos(g.seq) = Pos(snd.una) + (i + 1)
    BY <1>1, <2>4, <2>5, <2>8, AddFacts
  <2>10. g.data = Input[Pos(g.seq)] /\ g.data \in Payload
    BY <2>4, <2>5, <2>7, <2>8, <2>9
  <2>11. g \in DataSegment
    BY <2>1, <2>9, <2>10 DEF DataSegment
  <2> QED
    BY <2>8, <2>9, <2>10, <2>11
<1>10. /\ Pos(snd.una) <= Pos(rcv.cur)
       /\ \A e \in Eacked : Pos(e) # Pos(snd.una) + 1
       /\ Acked(snd) \subseteq Eacked
       /\ Pos(snd.nxt) <= Pos(snd'.nxt)
  BY <1>4, LastSent DEF StreamInv, Eacked
<1>11. SenderKeeps
  <2>1. Pos(snd.una) \in Nat
    BY LastSent
  <2>2. Acked(snd) \subseteq Acked(snd')
    BY <1>4, <1>5 DEF Acked
  <2> QED
    BY <1>4, <1>6, <2>1, <2>2 DEF SenderKeeps, Full
<1> QED
  BY <1>1, <1>2, <1>4, <1>7, <1>8, <1>9, <1>10, <1>11, SenderStep

\* What the window test, rwnd_recv_data() and delayed_ack() leave behind.
LEMMA RecvDataSafe == TypeOK /\ StreamInv /\ RecvData =>
                         TypeOK' /\ StreamInv' /\ (Counted(rcv) => Counted(rcv'))
<1> SUFFICES ASSUME TypeOK, StreamInv, RecvData
             PROVE  TypeOK' /\ StreamInv' /\ (Counted(rcv) => Counted(rcv'))
  OBVIOUS
<1> DEFINE last == Pos(snd.nxt) - 1
<1>1. /\ rcv \in RecvState /\ RcvInv(rcv, delivered, last) /\ rcv.cur \in Word
      /\ Pos(rcv.cur) <= last
      /\ delivered = [i \in 1..Pos(rcv.cur) |-> Input[i]]
  BY DEF TypeOK, StreamInv, RecvState, RcvInv
<1>2. last \in 0..MaxMsgs /\ Pos(rcv.cur) \in Nat
  BY LastSent
<1>3. PICK m \in dataNet : RejectData(m) \/ AcceptData(m)
  BY DEF RecvData
<1>4. m \in DataSegment /\ Pos(m.seq) \in 1..last /\ m.data = Input[Pos(m.seq)]
  BY DEF TypeOK, StreamInv
<1>5. UNCHANGED <<snd, accepted, nread, dataNet>>
  BY DEF RecvData
<1> HIDE DEF last
<1>6. CASE RejectData(m)
  <2>1. /\ rcv' = [rcv EXCEPT !.ack = rcv.cur] /\ delivered' = delivered
        /\ ackNet' = ackNet \cup {[ack |-> rcv.cur, eacks |-> {}]}
    BY <1>6 DEF RejectData
  <2>2. /\ rcv' \in RecvState /\ rcv'.rwnd = rcv.rwnd
        /\ rcv'.head = rcv.head /\ rcv'.cur = rcv.cur /\ rcv'.used = rcv.used
    BY <1>1, <2>1 DEF RecvState
  <2>3. RcvInv(rcv', delivered', last) /\ \A e \in Word : Got(rcv, e) => Got(rcv', e)
    BY <1>1, <2>1, <2>2 DEF RcvInv, Got
  <2> DEFINE a == [ack |-> rcv.cur, eacks |-> {}]
  <2>4. a \in AckSegment /\ a.ack = rcv'.cur /\ a.eacks = {} /\ ackNet' = ackNet \cup {a}
    BY <1>1, <2>1, <2>2 DEF AckSegment
  <2> HIDE DEF a
  <2>5. Pos(rcv.cur) <= Pos(rcv'.cur)
    BY <1>2, <2>2
  <2>6. Counted(rcv) => Counted(rcv')
    BY <2>2 DEF Counted, UsedSlots
  <2> QED
    BY <1>5, <2>2, <2>3, <2>4, <2>5, <2>6, ReceiverStep DEF last
<1>7. CASE AcceptData(m)
  <2>1. PICK k \in 0..RLen :
         LET r1 == InsertData(rcv, m)
             r2 == TakeHead(r1, k)
         IN  /\ HeadRun(r1, k)
             /\ delivered' = PushRun(delivered, r1, k)
             /\ \/ /\ rcv' = delayed_ack(r2)
                   /\ ackNet' = ackNet \cup {DelayedAckSegment(r2)}
                \/ /\ rcv' = r2
                   /\ UNCHANGED ackNet
    BY <1>7 DEF AcceptData
  <2> DEFINE r1 == InsertData(rcv, m)
             r2 == TakeHead(r1, k)
  <2>2. /\ HeadRun(r1, k)
        /\ delivered' = PushRun(delivered, r1, k)
        /\ \/ /\ rcv' = delayed_ack(r2)
              /\ ackNet' = ackNet \cup {DelayedAckSegment(r2)}
           \/ /\ rcv' = r2
              /\ UNCHANGED ackNet
    BY <2>1
  <2>3. WndInv(rcv, last) /\ ~ OutOfWindow(rcv, m.seq)
    BY <1>1, <1>7 DEF RcvInv, WndInv, AcceptData
  <2>4. /\ r1 \in RecvState /\ WndInv(r1, last) /\ r1.cur = rcv.cur /\ r1.head = rcv.head
        /\ \A i \in RIdx : rcv.rwnd[i].is_used => r1.rwnd[i].is_used
        /\ Counted(rcv) => Counted(r1)
    BY <1>1, <1>2, <1>4, <2>3, InsertSafe
  <2> HIDE DEF r1
  <2>5. \A e \in Word : Got(rcv, e) => Got(r1, e)
    <3>1. \A i \in RIdx : Ring(rcv.head, i, RLen) \in RIdx
      BY <1>1, RwndSlots DEF RecvState
    <3> QED
      BY <2>4, <3>1 DEF Got
  <2>6. /\ r2 \in RecvState /\ RcvInv(r2, delivered', last)
        /\ Pos(r2.cur) = Pos(rcv.cur) + k
        /\ \A e \in Word : Got(r1, e) => Got(r2, e)
        /\ Counted(rcv) => Counted(r2)
    <3>1. Pos(r1.cur) <= last /\ delivered = [i \in 1..Pos(r1.cur) |-> Input[i]]
      BY <1>1, <2>4
    <3>2. /\ r2 \in RecvState /\ RcvInv(r2, PushRun(delivered, r1, k), last)
          /\ Pos(r2.cur) = Pos(r1.cur) + k
          /\ \A e \in Word : Got(r1, e) => Got(r2, e)
          /\ Counted(r1) => Counted(r2)
      BY <1>2, <2>2, <2>4, <3>1, TakeSafe
    <3> HIDE DEF r2
    <3> QED
      BY <2>2, <2>4, <3>2
  <2> HIDE DEF r2
  <2>7. Pos(rcv.cur) <= Pos(r2.cur)
    BY <1>2, <2>6, Lengths
  <2>8. CASE rcv' = r2 /\ UNCHANGED ackNet
    BY <1>5, <2>5, <2>6, <2>7, <2>8, ReceiverStep DEF last
  <2>9. CASE rcv' = delayed_ack(r2) /\ ackNet' = ackNet \cup {DelayedAckSegment(r2)}
    <3> DEFINE t == delayed_ack(r2)
               a == DelayedAckSegment(r2)
    <3>1. /\ t \in RecvState /\ RcvInv(t, delivered', last) /\ t.cur = r2.cur
          /\ \A e \in Word : Got(r2, e) => Got(t, e)
          /\ Counted(r2) => Counted(t)
          /\ a \in AckSegment /\ a.ack = r2.cur
          /\ \A e \in a.eacks : e \in Word /\ Got(t, e) /\ Pos(e) > Pos(r2.cur) + 1
      BY <1>2, <2>6, DelayedAckSafe
    <3>2. rcv' = t /\ ackNet' = ackNet \cup {a}
      BY <2>9
    <3> HIDE DEF t, a
    <3> QED
      BY <1>5, <2>5, <2>6, <2>7, <3>1, <3>2, ReceiverStep DEF last
  <2> QED
    BY <2>2, <2>8, <2>9
<1> QED
  BY <1>3, <1>6, <1>7

\* So does the delayed acknowledgement of timer_rdp.
LEMMA ReceiverTimerSafe == TypeOK /\ StreamInv /\ ReceiverTimer =>
                              /\ TypeOK' /\ StreamInv'
                              /\ Pos(rcv.cur) <= Pos(rcv'.cur)
                              /\ Counted(rcv) => Counted(rcv')
<1> SUFFICES ASSUME TypeOK, StreamInv, ReceiverTimer
             PROVE  /\ TypeOK' /\ StreamInv'
                    /\ Pos(rcv.cur) <= Pos(rcv'.cur)
                    /\ Counted(rcv) => Counted(rcv')
  OBVIOUS
<1> DEFINE last == Pos(snd.nxt) - 1
           t == delayed_ack(rcv)
           a == DelayedAckSegment(rcv)
<1>1. rcv \in RecvState /\ RcvInv(rcv, delivered, last) /\ last \in 0..MaxMsgs
      /\ Pos(rcv.cur) \in Nat
  BY LastSent DEF TypeOK, StreamInv
<1>2. /\ t \in RecvState /\ RcvInv(t, delivered, last) /\ t.cur = rcv.cur
      /\ \A e \in Word : Got(rcv, e) => Got(t, e)
      /\ Counted(rcv) => Counted(t)
      /\ a \in AckSegment /\ a.ack = rcv.cur
      /\ \A e \in a.eacks : e \in Word /\ Got(t, e) /\ Pos(e) > Pos(rcv.cur) + 1
  BY <1>1, DelayedAckSafe
<1>3. /\ rcv' = t /\ ackNet' = ackNet \cup {a} /\ delivered' = delivered
      /\ UNCHANGED <<snd, accepted, nread, dataNet>>
  BY DEF ReceiverTimer
<1> HIDE DEF t, a
<1>4. Pos(rcv.cur) <= Pos(rcv'.cur)
  BY <1>1, <1>2, <1>3
<1> QED
  BY <1>2, <1>3, <1>4, ReceiverStep

\* So does an acknowledgement in a data segment of the other direction.
LEMMA PiggybackSafe == TypeOK /\ StreamInv /\ Piggyback => TypeOK' /\ StreamInv'
<1> SUFFICES ASSUME TypeOK, StreamInv, Piggyback PROVE TypeOK' /\ StreamInv'
  OBVIOUS
<1>1. /\ rcv \in RecvState /\ RcvInv(rcv, delivered, Pos(snd.nxt) - 1)
      /\ rcv' = rcv /\ delivered' = delivered
      /\ ackNet' = ackNet \cup {[ack |-> rcv.cur, eacks |-> {}]}
      /\ UNCHANGED <<snd, accepted, nread, dataNet>>
  BY DEF TypeOK, StreamInv, Piggyback
<1> DEFINE a == [ack |-> rcv.cur, eacks |-> {}]
<1>2. a \in AckSegment /\ a.ack = rcv'.cur /\ a.eacks = {} /\ ackNet' = ackNet \cup {a}
  BY <1>1 DEF AckSegment, RecvState
<1> HIDE DEF a
<1>3. /\ Pos(rcv.cur) <= Pos(rcv'.cur)
      /\ rcv' \in RecvState /\ RcvInv(rcv', delivered', Pos(snd.nxt) - 1)
      /\ \A e \in Word : Got(rcv, e) => Got(rcv', e)
  BY <1>1, LastSent
<1> QED
  BY <1>1, <1>2, <1>3, ReceiverStep

\* So does receive(), which takes what is queued.
LEMMA ReceiveSafe == TypeOK /\ StreamInv /\ Receive => TypeOK' /\ StreamInv'
<1> SUFFICES ASSUME TypeOK, StreamInv, Receive PROVE TypeOK' /\ StreamInv'
  OBVIOUS
<1>1. UNCHANGED <<snd, rcv, accepted, delivered, dataNet, ackNet>>
  BY DEF Receive
<1>2. nread' \in 0..Sub(rcv.cur, Iss)
  <2>1. nread \in 0..Pos(rcv.cur) /\ Pos(rcv.cur) \in Nat
    BY LastSent DEF TypeOK, Pos
  <2>2. nread' \in (nread + 1)..Pos(rcv.cur)
    BY DEF Receive, Pos
  <2>3. nread' \in 0..Pos(rcv.cur)
    BY <2>1, <2>2
  <2> QED
    BY <2>3 DEF Pos
<1>3. TypeOK'
  BY <1>1, <1>2 DEF TypeOK
<1>4. StreamInv'
  BY <1>1 DEF StreamInv, Eacked
<1> QED
  BY <1>3, <1>4

\* Every step keeps the invariant.
LEMMA StepSafe == TypeOK /\ StreamInv /\ [Next]_vars => TypeOK' /\ StreamInv'
<1> SUFFICES ASSUME TypeOK, StreamInv, [Next]_vars PROVE TypeOK' /\ StreamInv'
  OBVIOUS
<1>1. CASE Send
  BY <1>1, SendSafe
<1>2. CASE RecvAck
  BY <1>2, RecvAckSafe
<1>3. CASE SenderTimer
  BY <1>3, SenderTimerSafe
<1>4. CASE RecvData
  BY <1>4, RecvDataSafe
<1>5. CASE ReceiverTimer
  BY <1>5, ReceiverTimerSafe
<1>6. CASE Piggyback
  BY <1>6, PiggybackSafe
<1>7. CASE Receive
  BY <1>7, ReceiveSafe
<1>8. CASE UNCHANGED vars
  BY <1>8 DEF vars, TypeOK, StreamInv, Eacked
<1> QED
  BY <1>1, <1>2, <1>3, <1>4, <1>5, <1>6, <1>7, <1>8 DEF Next
-----------------------------------------------------------------------------
(* The theorems. *)

\* Every state of the two windows and of the network has its type: the indices
\* of the rings stay on them and the queue is as long as RCV.CUR says.
THEOREM TypeCorrect == Spec => []TypeOK
<1>1. TypeOK /\ StreamInv /\ [Next]_vars => (TypeOK /\ StreamInv)'
  BY StepSafe
<1> QED
  BY <1>1, InitSafe, PTL DEF Spec

\* The inductive invariant holds throughout.
THEOREM Invariance == Spec => [](TypeOK /\ StreamInv)
<1>1. TypeOK /\ StreamInv /\ [Next]_vars => (TypeOK /\ StreamInv)'
  BY StepSafe
<1> QED
  BY <1>1, InitSafe, PTL DEF Spec

\* Whatever the network does, rwnd_recv_data() delivers the accepted segments
\* once each, in their order and without a gap.
THEOREM DeliveryInOrder == Spec => []InOrder
<1>1. TypeOK /\ StreamInv => InOrder
  <2> SUFFICES ASSUME TypeOK, StreamInv, NEW i \in DOMAIN delivered
               PROVE  i <= accepted /\ delivered[i] = Input[i]
    BY DEF InOrder
  <2>1. /\ delivered = [j \in 1..Pos(rcv.cur) |-> Input[j]]
        /\ Pos(rcv.cur) <= Pos(snd.nxt) - 1
    BY DEF StreamInv, RcvInv
  <2>2. /\ Pos(rcv.cur) \in Nat /\ Pos(snd.nxt) \in Nat /\ Pos(snd.nxt) - 1 <= accepted
        /\ accepted \in Nat
    BY LastSent DEF TypeOK
  <2>3. i \in 1..Pos(rcv.cur)
    BY <2>1
  <2>4. i <= accepted
    BY <2>1, <2>2, <2>3
  <2> QED
    BY <2>1, <2>3, <2>4
<1> QED
  BY <1>1, Invariance, PTL

\* recv_ack() and recv_eack() never drop the last copy of a segment.
THEOREM NothingLost == Spec => []NothingAckedIsLost
<1>1. TypeOK /\ StreamInv => NothingAckedIsLost
  <2> SUFFICES ASSUME TypeOK, StreamInv, NEW a \in Acked(snd), ~ (Pos(a) <= Pos(rcv.cur))
               PROVE  a \in Held(rcv)
    BY DEF NothingAckedIsLost, StreamInv
  <2>1. /\ rcv \in RecvState /\ rcv.cur \in Word /\ rcv.head \in RIdx
        /\ RcvInv(rcv, delivered, Pos(snd.nxt) - 1)
    BY DEF TypeOK, StreamInv, RecvState
  <2>2. a \in Word /\ Got(rcv, a)
    BY LastSent DEF StreamInv, Eacked
  <2>3. PICK i \in RIdx : /\ rcv.rwnd[Ring(rcv.head, i, RLen)].is_used
                          /\ Pos(a) = Pos(rcv.cur) + 1 + i
    BY <2>2 DEF Got
  <2>4. rcv.rwnd[Ring(rcv.head, i, RLen)].seqnum = Add(rcv.cur, i + 1)
    BY <2>1, <2>3 DEF RcvInv
  <2>5. /\ Pos(rcv.cur) \in Nat /\ Pos(a) \in Nat /\ Pos(a) < SeqMod /\ SeqMod \in Nat
        /\ i \in Nat
    BY <2>1, <2>2, WordFacts, Lengths, StreamAssumption
  <2>6. i + 1 \in Nat /\ i + 1 < SeqMod /\ Pos(rcv.cur) + (i + 1) = Pos(a)
    BY <2>3, <2>5
  <2>7. Add(rcv.cur, i + 1) \in Word /\ Pos(Add(rcv.cur, i + 1)) = Pos(a)
    BY <2>1, <2>5, <2>6, AddFacts
  <2>8. Add(rcv.cur, i + 1) = a
    BY <2>2, <2>7, WordFacts
  <2>9. Ring(rcv.head, i, RLen) \in RIdx
    BY <2>1, RwndSlots
  <2> QED
    BY <2>3, <2>4, <2>8, <2>9 DEF Held
<1> QED
  BY <1>1, Invariance, PTL

\* The cursors and the counter of the sending ring always agree with SND.UNA
\* and SND.NXT, and its oldest outstanding segment is never marked as acked.
THEOREM SendingRingExact == Spec => []SwndExact
<1>1. TypeOK /\ StreamInv => SwndExact
  <2> SUFFICES ASSUME TypeOK, StreamInv PROVE SwndExact
    OBVIOUS
  <2>1. snd \in SendState /\ accepted \in 0..MaxMsgs /\ SndInv(snd, accepted)
    BY DEF TypeOK, StreamInv
  <2>2. /\ Pos(snd.una) \in Nat /\ snd.used \in 0..SLen /\ Outstanding(snd) \in 0..(SLen - 1)
        /\ Sub(snd.nxt, snd.una) = Outstanding(snd) + 1
        /\ Pos(snd.nxt) = Pos(snd.una) + Outstanding(snd) + 1
        /\ Pos(snd.nxt) <= accepted + 1
    BY <2>1, SndNumbers
  <2>3. SLen \in Nat
    BY Lengths
  <2>4. /\ Outstanding(snd) = Sub(snd.nxt, snd.una) - 1
        /\ snd.used = accepted - Pos(snd.una)
        /\ Outstanding(snd) <= snd.used
    BY <2>1, <2>2, <2>3 DEF SndInv
  <2>5. ASSUME NEW i \in 0..(Outstanding(snd) - 1)
        PROVE  LET p == snd.swnd[Ring(snd.head, i, SLen)]
               IN  p.is_sent /\ p.seqnum = Add(snd.una, i + 1)
    <3>1. i \in 0..(snd.used - 1) /\ i < Outstanding(snd)
      BY <2>2, <2>3, <2>4
    <3> QED
      BY <2>1, <3>1 DEF SndInv
  <2>6. ASSUME 0 < Outstanding(snd)
        PROVE  ~ snd.swnd[Ring(snd.head, 0, SLen)].is_acked
    <3> DEFINE j == Ring(snd.head, 0, SLen)
    <3>1. 0 \in 0..(Outstanding(snd) - 1) /\ 0 < snd.used /\ 0 + 1 = 1
      BY <2>2, <2>3, <2>4, <2>6
    <3>2. snd.swnd[j].is_sent /\ snd.swnd[j].seqnum = Add(snd.una, 1)
      BY <2>5, <3>1
    <3>3. j \in SIdx /\ Dist(snd.head, j, SLen) = 0
      <4>1. snd.head \in 0..(SLen - 1) /\ 0 \in 0..SLen /\ SLen \in Nat \ {0} /\ 0 < SLen
        BY <2>1, Lengths DEF SendState
      <4>2. j \in 0..(SLen - 1) /\ Dist(snd.head, j, SLen) = 0
        BY <4>1, RingFacts
      <4> QED
        BY <4>2, Lengths
    <3> HIDE DEF j
    <3>4. Pos(Add(snd.una, 1)) = Pos(snd.una) + 1
      <4>1. 1 < SeqMod /\ Pos(snd.una) + 1 < SeqMod /\ snd.una \in Word
        BY <2>1, <2>2, <2>3, StreamAssumption DEF SendState
      <4> QED
        BY <4>1, AddFacts
    <3>5. \A e \in Acked(snd) : Pos(e) # Pos(snd.una) + 1
      BY DEF StreamInv, Eacked
    <3>6. Add(snd.una, 1) \notin Acked(snd)
      BY <3>4, <3>5
    <3>7. ~ snd.swnd[j].is_acked
      BY <3>1, <3>2, <3>3, <3>6 DEF Acked
    <3> QED
      BY <3>7 DEF j
  <2>7. \A i \in 0..(Outstanding(snd) - 1) : i = 0 => 0 < Outstanding(snd)
    BY <2>2, <2>3
  <2> QED
    BY <2>4, <2>5, <2>6, <2>7 DEF SwndExact
<1> QED
  BY <1>1, Invariance, PTL

\* The sending ring is kept as full as the window of the peer allows, and m_rwnd_used
\* is what the scan of delayed_ack() takes it for, whatever comes twice or late.
THEOREM RingsAreExact == Spec => []RingsExact
<1> DEFINE Rings == Full(snd) /\ Counted(rcv)
<1>1. Init => Rings
  <2> SUFFICES ASSUME Init PROVE Full(snd) /\ Counted(rcv)
    OBVIOUS
  <2>1. Outstanding(snd) = 0 /\ snd.used = 0
    BY DEF Init, init_swnd, Outstanding, Dist
  <2>2. UsedSlots(rcv) = {} /\ rcv.used = 0
    BY DEF Init, init_rwnd, UsedSlots
  <2>3. Cardinality({}) = 0
    BY FS_EmptySet
  <2> QED
    BY <2>1, <2>2, <2>3 DEF Full, Counted
<1>2. TypeOK /\ StreamInv /\ Rings /\ [Next]_vars => Rings'
  <2> SUFFICES ASSUME TypeOK, StreamInv, Full(snd), Counted(rcv), [Next]_vars
               PROVE  Full(snd') /\ Counted(rcv')
    BY DEF Full, Counted, UsedSlots, Outstanding
  <2>1. CASE Send
    BY <2>1, SendSafe DEF SenderKeeps, Send
  <2>2. CASE RecvAck
    BY <2>2, RecvAckSafe DEF SenderKeeps, RecvAck
  <2>3. CASE SenderTimer
    BY <2>3, SenderTimerSafe DEF SenderKeeps, SenderTimer, Retransmit
  <2>4. CASE RecvData
    BY <2>4, RecvDataSafe DEF RecvData
  <2>5. CASE ReceiverTimer
    BY <2>5, ReceiverTimerSafe DEF ReceiverTimer
  <2>6. CASE Piggyback
    BY <2>6 DEF Piggyback
  <2>7. CASE Receive
    BY <2>7 DEF Receive
  <2>8. CASE UNCHANGED vars
    BY <2>8 DEF vars
  <2> QED
    BY <2>1, <2>2, <2>3, <2>4, <2>5, <2>6, <2>7, <2>8 DEF Next
<1>3. TypeOK /\ StreamInv /\ Rings => RingsExact
  <2> SUFFICES ASSUME TypeOK, StreamInv, Full(snd), Counted(rcv) PROVE RingsExact
    OBVIOUS
  <2>1. WindowKeptFull
    BY DEF Full, WindowKeptFull
  <2>2. rcv.head \in RIdx /\ 0 \in RIdx /\ Ring(rcv.head, 0, RLen) = rcv.head
    <3>1. rcv.head \in RIdx
      BY DEF TypeOK, RecvState
    <3> QED
      BY <3>1, Lengths DEF Ring
  <2>3. ~ rcv.rwnd[rcv.head].is_used
    BY <2>2 DEF StreamInv, RcvInv
  <2> QED
    BY <2>1, <2>3 DEF Counted, UsedSlots, RwndExact, RingsExact
<1> HIDE DEF Rings
<1> QED
  BY <1>1, <1>2, <1>3, Invariance, PTL DEF Spec

\* in_state_open() never discards a segment the receiver still lacks.
THEOREM SenderFitsWindow == Spec => []NeededFitsWindow
<1>1. TypeOK /\ StreamInv => NeededFitsWindow
  <2> SUFFICES ASSUME TypeOK, StreamInv, NEW m \in dataNet, Pos(m.seq) > Pos(rcv.cur)
               PROVE  ~ OutOfWindow(rcv, m.seq)
    BY DEF NeededFitsWindow
  <2>1. m.seq \in Word /\ rcv.cur \in Word
    BY DEF TypeOK, DataSegment, RecvState
  <2>2. /\ Pos(m.seq) \in Nat /\ Pos(rcv.cur) \in Nat /\ Pos(m.seq) < SeqMod
        /\ Sub(m.seq, rcv.cur) = IF Pos(rcv.cur) <= Pos(m.seq)
                                 THEN Pos(m.seq) - Pos(rcv.cur)
                                 ELSE Pos(m.seq) - Pos(rcv.cur) + SeqMod
    BY <2>1, WordFacts
  <2>3. /\ Pos(m.seq) <= Pos(snd.nxt) - 1
        /\ Pos(snd.nxt) <= Pos(snd.una) + RcvMax
        /\ Pos(snd.una) <= Pos(rcv.cur)
    BY LastSent DEF StreamInv, SndInv
  <2>4. Pos(snd.nxt) \in Nat /\ Pos(snd.una) \in Nat /\ RcvMax \in Nat /\ SeqMod \in Nat
    BY LastSent, StreamAssumption
  <2> DEFINE d == Sub(m.seq, rcv.cur)
  <2>5. d \in Nat /\ 1 <= d /\ d < RcvMax
    BY <2>2, <2>3, <2>4
  <2> HIDE DEF d
  <2>6. Sub(d, 1) = d - 1
    BY <2>5 DEF Sub
  <2>7. ~ (Sub(d, 1) >= 2 * RcvMax)
    BY <2>4, <2>5, <2>6
  <2> QED
    BY <2>7 DEF OutOfWindow, d
<1> QED
  BY <1>1, Invariance, PTL

\* RCV.CUR never moves back.
LEMMA RecvDataForward ==
    ASSUME TypeOK, StreamInv, RecvData
    PROVE  Pos(rcv.cur) <= Pos(rcv'.cur)
<1> DEFINE last == Pos(snd.nxt) - 1
<1>1. /\ rcv \in RecvState /\ RcvInv(rcv, delivered, last)
      /\ Pos(rcv.cur) <= last
      /\ delivered = [i \in 1..Pos(rcv.cur) |-> Input[i]]
  BY DEF TypeOK, StreamInv, RcvInv
<1>2. last \in 0..MaxMsgs /\ Pos(rcv.cur) \in Nat
  BY LastSent
<1>3. PICK m \in dataNet : RejectData(m) \/ AcceptData(m)
  BY DEF RecvData
<1>4. m \in DataSegment /\ Pos(m.seq) \in 1..last /\ m.data = Input[Pos(m.seq)]
  BY DEF TypeOK, StreamInv
<1> HIDE DEF last
<1>5. CASE RejectData(m)
  BY <1>1, <1>2, <1>5 DEF RejectData, RecvState
<1>6. CASE AcceptData(m)
  <2> DEFINE r1 == InsertData(rcv, m)
  <2>1. PICK k \in 0..RLen : /\ HeadRun(r1, k)
                             /\ \/ rcv' = delayed_ack(TakeHead(r1, k))
                                \/ rcv' = TakeHead(r1, k)
    BY <1>6 DEF AcceptData
  <2>2. WndInv(rcv, last) /\ ~ OutOfWindow(rcv, m.seq)
    BY <1>1, <1>6 DEF RcvInv, WndInv, AcceptData
  <2>3. r1 \in RecvState /\ WndInv(r1, last) /\ r1.cur = rcv.cur
    BY <1>1, <1>2, <1>4, <2>2, InsertSafe
  <2> HIDE DEF r1
  <2> DEFINE r2 == TakeHead(r1, k)
  <2>4. r2 \in RecvState /\ Pos(r2.cur) = Pos(rcv.cur) + k
    <3>1. Pos(r1.cur) <= last /\ delivered = [i \in 1..Pos(r1.cur) |-> Input[i]]
      BY <1>1, <2>3
    <3>2. r2 \in RecvState /\ Pos(r2.cur) = Pos(r1.cur) + k
      BY <1>2, <2>1, <2>3, <3>1, TakeSafe
    <3> HIDE DEF r2
    <3> QED
      BY <2>3, <3>2
  <2>5. rcv' = r2 \/ rcv' = delayed_ack(r2)
    BY <2>1
  <2> HIDE DEF r2
  <2>6. rcv'.cur = r2.cur
    BY <2>4, <2>5 DEF delayed_ack, RecvState
  <2> QED
    BY <1>2, <2>4, <2>6, Lengths
<1> QED
  BY <1>3, <1>5, <1>6

\* No acknowledgement or data segment, however late or repeated, moves SND.UNA or
\* RCV.CUR back or makes the sender forget an extended acknowledgement.
THEOREM NeverBack == Spec => NoRegress
<1> DEFINE Step == /\ Pos(snd'.una) >= Pos(snd.una)
                   /\ Pos(rcv'.cur) >= Pos(rcv.cur)
                   /\ \A a \in Acked(snd) : Pos(a) > Pos(snd'.una) => a \in Acked(snd')
<1>1. TypeOK /\ StreamInv /\ TypeOK' /\ StreamInv' /\ [Next]_vars => [Step]_vars
  <2> SUFFICES ASSUME TypeOK, StreamInv, TypeOK', StreamInv', Next
               PROVE  Step
    OBVIOUS
  <2>0. /\ Pos(snd.una) \in Nat /\ Pos(rcv.cur) \in Nat
        /\ Pos(snd'.una) \in Nat /\ Pos(rcv'.cur) \in Nat
    <3>1. snd'.una \in Word /\ rcv'.cur \in Word
      BY DEF TypeOK, SendState, RecvState
    <3> QED
      BY <3>1, LastSent, WordFacts
  <2>1. CASE SenderKeeps /\ rcv' = rcv
    BY <2>0, <2>1 DEF SenderKeeps
  <2>2. CASE snd' = snd /\ Pos(rcv.cur) <= Pos(rcv'.cur)
    BY <2>0, <2>2
  <2>3. CASE Send
    BY <2>1, <2>3, SendSafe DEF Send
  <2>4. CASE RecvAck
    BY <2>1, <2>4, RecvAckSafe DEF RecvAck
  <2>5. CASE SenderTimer
    BY <2>1, <2>5, SenderTimerSafe DEF SenderTimer, Retransmit
  <2>6. CASE RecvData
    BY <2>2, <2>6, RecvDataForward DEF RecvData
  <2>7. CASE ReceiverTimer
    BY <2>2, <2>7, ReceiverTimerSafe DEF ReceiverTimer
  <2>8. CASE Piggyback \/ Receive
    BY <2>0, <2>2, <2>8 DEF Piggyback, Receive
  <2> QED
    BY <2>3, <2>4, <2>5, <2>6, <2>7, <2>8 DEF Next
<1>2. Spec => [][Step]_vars
  <2> HIDE DEF Step
  <2> QED
    BY <1>1, Invariance, PTL DEF Spec
<1> QED
  BY <1>2 DEF NoRegress

\* The windows implement the channel: every step of the sender and the receiver
\* accepts a segment, delivers the next ones, reads some of them, gives the
\* connection up, or is invisible to the two applications.
THEOREM ImplementsSafety == Spec => Channel!ChanSpec
<1>1. Init => Channel!ChanInit
  BY DEF Init, init_swnd, Channel!ChanInit
<1>2. TypeOK /\ StreamInv /\ [Next]_vars /\ TypeOK' /\ StreamInv'
        => [Channel!ChanNext]_(Channel!chanVars)
  <2> SUFFICES ASSUME TypeOK, StreamInv, [Next]_vars, TypeOK', StreamInv'
               PROVE  Channel!ChanNext \/ UNCHANGED Channel!chanVars
    OBVIOUS
  <2> USE DEF Channel!ChanNext, Channel!chanVars
  <2>0. snd \in SendState /\ accepted \in 0..MaxMsgs /\ MaxMsgs \in Nat
    BY StreamAssumption DEF TypeOK
  <2>1. CASE Send
    <3>1. accepted' \in (accepted + 1)..MaxMsgs
      <4>1. accepted' = accepted + 1 /\ accepted < MaxMsgs
        BY <2>1 DEF Send
      <4> QED
        BY <2>0, <4>1
    <3>2. snd'.state = snd.state /\ snd.state = "OPEN"
      BY <2>0, <2>1 DEF Send, SendState, enqueue_swnd, send_ostand_swnd
    <3>3. Channel!Accept
      BY <2>1, <3>1, <3>2 DEF Channel!Accept, Send
    <3> QED
      BY <3>3
  <2>2. CASE RecvAck
    <3>1. snd'.state = snd.state
      BY <2>2, RecvAckSafe
    <3> QED
      BY <2>2, <3>1 DEF RecvAck
  <2>3. CASE SenderTimer
    <3>1. UNCHANGED <<accepted, delivered, nread>> /\ snd.state = "OPEN"
      BY <2>3 DEF SenderTimer, Retransmit
    <3>2. snd'.state \in {"OPEN", "CLOSED"}
      BY DEF TypeOK, SendState
    <3> QED
      BY <3>1, <3>2 DEF Channel!Break
  <2>4. CASE RecvData
    <3>1. UNCHANGED <<snd, accepted, nread>>
      BY <2>4 DEF RecvData
    <3>2. /\ delivered = [i \in 1..Pos(rcv.cur) |-> Input[i]]
          /\ delivered' = [i \in 1..Pos(rcv'.cur) |-> Input[i]]
          /\ Pos(rcv'.cur) <= Pos(snd.nxt) - 1
      BY <3>1 DEF StreamInv, RcvInv
    <3>3. /\ Pos(rcv.cur) \in Nat /\ Pos(rcv'.cur) \in Nat
          /\ Pos(snd.nxt) \in Nat /\ Pos(snd.nxt) - 1 <= accepted
      BY LastSent, WordFacts DEF TypeOK, RecvState
    <3>4. Pos(rcv.cur) <= Pos(rcv'.cur)
      BY <2>4, RecvDataForward
    <3>5. CASE Pos(rcv'.cur) = Pos(rcv.cur)
      BY <3>1, <3>2, <3>5
    <3>6. CASE Pos(rcv'.cur) # Pos(rcv.cur)
      <4>1. Pos(rcv'.cur) \in 0..accepted
        BY <2>0, <3>2, <3>3
      <4>2. \A i \in 1..Pos(rcv.cur) : i \in 1..Pos(rcv'.cur)
        BY <3>3, <3>4
      <4>3. 1..Pos(rcv.cur) # 1..Pos(rcv'.cur)
        <5>1. Pos(rcv'.cur) \in 1..Pos(rcv'.cur) /\ Pos(rcv'.cur) \notin 1..Pos(rcv.cur)
          BY <3>3, <3>4, <3>6
        <5> QED
          BY <5>1
      <4>4. Channel!Deliver
        BY <3>1, <3>2, <4>1, <4>2, <4>3 DEF Channel!Deliver
      <4> QED
        BY <4>4
    <3> QED
      BY <3>5, <3>6
  <2>5. CASE ReceiverTimer
    BY <2>5 DEF ReceiverTimer
  <2>6. CASE Piggyback
    BY <2>6 DEF Piggyback
  <2>7. CASE Receive
    <3>1. /\ UNCHANGED <<snd, accepted, delivered>>
          /\ DOMAIN delivered = 1..Sub(rcv.cur, Iss)
          /\ nread \in Nat /\ Sub(rcv.cur, Iss) \in Nat
      BY <2>7, LastSent DEF Receive, TypeOK, Pos
    <3>2. nread' \in DOMAIN delivered /\ nread' > nread
      BY <2>7, <3>1 DEF Receive
    <3>3. Channel!Read
      BY <3>1, <3>2 DEF Channel!Read
    <3> QED
      BY <3>3
  <2>8. CASE UNCHANGED vars
    BY <2>8 DEF vars
  <2> QED
    BY <2>1, <2>2, <2>3, <2>4, <2>5, <2>6, <2>7, <2>8 DEF Next
<1> QED
  BY <1>1, <1>2, Invariance, PTL DEF Spec, Channel!ChanSpec

-----------------------------------------------------------------------------
(* Connections: types, windows and events. *)

\* Every set of natural numbers has a least element.
LEMMA LeastNat ==
    ASSUME NEW T \in SUBSET Nat, T # {}
    PROVE  \E x \in T : \A y \in T : x <= y
  <1> DEFINE R == {ss \in Nat \X Nat : ss[1] < ss[2]}
  <1>1. IsWellFoundedOn(R, Nat)
    BY NatLessThanWellFounded, Zenon DEF OpToRel
  <1>2. \E x \in T : \A y \in T : ~ (<<y, x>> \in R)
    <2> HIDE DEF R
    <2> QED BY <1>1, WFMin
  <1>3. PICK x \in T : \A y \in T : ~ (<<y, x>> \in R)
    BY <1>2
  <1>4. \A y \in T : ~ (y < x)
    BY <1>3
  <1> QED BY <1>4

\* There are two nodes, each the peer of the other.
LEMMA PeerFacts ==
    ASSUME NEW n \in Node
    PROVE  Peer(n) \in Node /\ Peer(n) # n /\ Peer(Peer(n)) = n /\ Node = {n, Peer(n)}
  <1>1. IsFiniteSet(Node) /\ Cardinality(Node) = 2
    BY ConnAssumption
  <1>2. Cardinality(Node \ {n}) = 1 /\ IsFiniteSet(Node \ {n})
    BY <1>1, FS_RemoveElement
  <1>3. PICK x : Node \ {n} = {x}
    BY <1>2, FS_Singleton
  <1>4. x # n /\ Node = {n, x}
    BY <1>3
  <1>5. \A y \in Node : (y # n <=> y = x) /\ (y # x <=> y = n)
    BY <1>4
  <1>6. Peer(n) = x
    BY <1>4, <1>5 DEF Peer
  <1>7. Peer(x) = n
    BY <1>4, <1>5 DEF Peer
  <1> QED BY <1>4, <1>6, <1>7

\* What holds of the windows and the events of one record, whatever the numbers
\* are: nothing before a connection is open, held segments are in the window and
\* not next, and who was told of an end has ended.
WindowOK(c, ev) ==
    /\ c.state \in {"NONE", "SYN_SENT", "SYN_RCVD"} =>
         c.held = {} /\ c.rcv_cur = c.rcv_irs /\ c.unread = 0 /\ ev = {}
    /\ c.held \subseteq (c.rcv_cur + 2)..(c.rcv_cur + 2 * RcvMaxDefault)
    /\ c.state = "NONE" => c = None
    /\ c.state # "NONE" => c.snd_iss < c.snd_nxt
    /\ ev \cap Terminal # {} => c.state \in {"CLOSE_WAIT_PASV", "CLOSED"}

ConnBase == ConnTypeOK /\ \A n \in Node : WindowOK(conn[n], told[n])

Told(n, c, ev) == IF c.state = "NONE" THEN {} ELSE told[n] \cup ev

\* The record that is not there has a type and an empty window.
LEMMA NoneOK == None \in Record /\ WindowOK(None, {})
  BY ConnAssumption DEF None, Record, State, WindowOK, Terminal

\* A step of one node.
LEMMA DoBase ==
    ASSUME ConnBase, NEW n \in Node, NEW before \in SUBSET net, NEW c \in Record,
           NEW out \in SUBSET Segment, NEW ev \in SUBSET Event, Do(n, before, c, out, ev),
           WindowOK(c, Told(n, c, ev)),
           listening' \in [Node -> BOOLEAN], inc' \in [Node -> Nat]
    PROVE  ConnBase'
  <1>1. /\ conn' = [conn EXCEPT ![n] = c] /\ net' = before \cup out
        /\ told' = [told EXCEPT ![n] = Told(n, c, ev)]
    BY DEF Do, Told, ConnBase, ConnTypeOK
  <1>2. Told(n, c, ev) \in SUBSET Event
    BY DEF Told, ConnBase, ConnTypeOK
  <1>3. ConnTypeOK'
    BY <1>1, <1>2 DEF ConnBase, ConnTypeOK
  <1>4. ASSUME NEW o \in Node PROVE WindowOK(conn'[o], told'[o])
    BY <1>1 DEF ConnBase, ConnTypeOK
  <1> QED BY <1>3, <1>4 DEF ConnBase, WindowOK

\* rwnd_recv_data() of a segment in the window: RCV.CUR moves on over what was received.
LEMMA RwndFacts ==
    ASSUME NEW c \in Record, c.held \subseteq (c.rcv_cur + 2)..(c.rcv_cur + 2 * RcvMaxDefault),
           NEW seq \in (c.rcv_cur + 1)..(c.rcv_cur + 2 * RcvMaxDefault)
    PROVE  \E cur \in Int, rest \in SUBSET Int, unread \in Nat :
             /\ rwnd_recv_data(c, seq) = [c EXCEPT !.rcv_cur = cur, !.held = rest, !.unread = unread]
             /\ cur >= c.rcv_cur
             /\ (c.rcv_cur + 1)..cur \subseteq c.held \cup {seq}
             /\ rest \subseteq c.held \cup {seq}
             /\ rest \subseteq (cur + 2)..(cur + 2 * RcvMaxDefault)
  <1> DEFINE old == c.rcv_cur
             w == 2 * RcvMaxDefault
             got == c.held \cup {seq}
             P(x) == (old + 1)..x \subseteq got /\ x + 1 \notin got
             cur == CHOOSE x \in old..(old + w) : P(x)
             rest == {x \in got : x > cur}
             T == {t \in Nat : old + t + 1 \notin got}
  <1>1. old \in Int /\ w \in Nat /\ seq \in Int /\ c.unread \in Nat
    BY ConnAssumption DEF Record
  <1>2. got \subseteq (old + 1)..(old + w)
    BY <1>1
  <1>3. w \in T
    BY <1>1, <1>2
  <1>4. PICK t \in T : \A y \in T : t <= y
    <2>1. T \in SUBSET Nat /\ T # {}
      BY <1>3
    <2> HIDE DEF T
    <2> QED BY <2>1, LeastNat
  <1>5. t \in Nat /\ t <= w /\ old + t + 1 \notin got
    BY <1>3, <1>4
  <1>6. ASSUME NEW x \in (old + 1)..(old + t) PROVE x \in got
    <2>1. x - old - 1 \in Nat /\ ~ (t <= x - old - 1)
      BY <1>1, <1>5
    <2>2. x - old - 1 \notin T
      BY <1>4, <2>1
    <2>3. old + (x - old - 1) + 1 = x
      BY <1>1
    <2> QED BY <2>1, <2>2, <2>3
  <1>7. old + t \in old..(old + w) /\ P(old + t)
    BY <1>1, <1>5, <1>6
  <1> HIDE DEF P
  <1>8. cur \in old..(old + w) /\ P(cur)
    BY <1>7
  <1> USE DEF P
  <1> HIDE DEF cur
  <1>9. cur \in Int /\ cur >= old /\ c.unread + cur - old \in Nat
    BY <1>1, <1>8
  <1>10. rest \in SUBSET Int /\ rest \subseteq (cur + 2)..(cur + w)
    <2>1. ASSUME NEW x \in rest PROVE x \in (cur + 2)..(cur + w)
      <3>1. x \in (old + 1)..(old + w) /\ x > cur /\ x # cur + 1
        BY <1>2, <1>8
      <3> QED BY <1>1, <1>9, <3>1
    <2> QED BY <1>9, <2>1
  <1>11. rwnd_recv_data(c, seq) =
           [c EXCEPT !.rcv_cur = cur, !.held = rest, !.unread = c.unread + cur - old]
    BY DEF rwnd_recv_data, cur
  <1> HIDE DEF rest
  <1>12. rest \subseteq got
    BY DEF rest
  <1> QED BY <1>8, <1>9, <1>10, <1>11, <1>12

(* What a step of a node may be.  c and d are its record before and after the step, out is *)
(* what it puts out and ev what it tells the application.                                    *)

From(n) == {m \in net : m.src = Peer(n)}

\* The parts of a record that the other end depends on.
Same(c, d) ==
    /\ d.state = c.state /\ d.is_pasv = c.is_pasv
    /\ d.snd_iss = c.snd_iss /\ d.snd_nxt = c.snd_nxt /\ d.snd_una = c.snd_una
    /\ d.rcv_irs = c.rcv_irs /\ d.rcv_cur = c.rcv_cur /\ d.held = c.held

\* What d has received is what c has and, with data, the segment seq of the window.
Took(c, d, data, seq) ==
    /\ d.rcv_irs = c.rcv_irs
    /\ \/ d.rcv_cur = c.rcv_cur /\ d.held = c.held
       \/ /\ data /\ d.rcv_cur >= c.rcv_cur
          /\ (c.rcv_cur + 1)..d.rcv_cur \subseteq c.held \cup {seq}
          /\ d.held \subseteq c.held \cup {seq}
          /\ d.held \subseteq (d.rcv_cur + 2)..(d.rcv_cur + 2 * RcvMaxDefault)

PlainAck == {{"ACK"}, {"ACK", "EAK"}}
Plain == PlainAck \cup {{"ACK", "DATA"}}

\* A reset in answer to an acknowledgement.
Answer(n, o, m) == m \in From(n) /\ "ACK" \in m.flags /\ "RST" \notin m.flags
                     /\ o.flags = {"RST"} /\ o.seq = m.ack + 1

Connects(n, d, out, ev) ==
    /\ n \in Clients /\ conn[n].state = "NONE" /\ inc[n] < Len(IssOf[n])
    /\ d = NewCon(n, "SYN_SENT", FALSE, 0)
    /\ out = {Seg(n, {"SYN"}, d.snd_iss, 0)} /\ ev = {}
    /\ inc' = [inc EXCEPT ![n] = @ + 1]

Accepts(n, d, out, ev) ==
    /\ conn[n].state = "NONE" /\ inc[n] < Len(IssOf[n])
    /\ \E m \in From(n) : m.flags = {"SYN"} /\ d = NewCon(n, "SYN_RCVD", TRUE, m.seq)
    /\ out = {Seg(n, {"SYN", "ACK"}, d.snd_iss, d.rcv_cur)} /\ ev = {}
    /\ inc' = [inc EXCEPT ![n] = @ + 1]

\* Still in the handshake.
Waits(n, d, out, ev) ==
    LET c == conn[n]
    IN  /\ c.state \in {"SYN_SENT", "SYN_RCVD"} /\ Same(c, d) /\ d.unread = c.unread /\ ev = {}
        /\ \A o \in out :
             \/ c.state = "SYN_SENT" /\ o = Seg(n, {"SYN"}, c.snd_iss, 0)
             \/ /\ c.state = "SYN_RCVD"
                /\ \E ack \in {0, c.rcv_cur} : o = Seg(n, {"SYN", "ACK"}, c.snd_iss, ack)
             \/ c.state = "SYN_RCVD" /\ o = AckSeg(n, c)
             \/ c.state = "SYN_RCVD" /\ o.src = n /\ o.flags = {"RST"} /\ o.seq \in 1..256
             \/ o.src = n /\ \E m \in From(n) : Answer(n, o, m) /\ m.ack # c.snd_iss
        /\ inc' = inc

\* Both have sent a SYN.
Crosses(n, d, ev) ==
    /\ conn[n].state = "SYN_SENT" /\ \E m \in From(n) : m.flags = {"SYN"}
    /\ d.state = "SYN_RCVD" /\ ev = {}
    /\ inc' = inc

Opens(n, d, out, ev) ==
    LET c == conn[n]
    IN  /\ c.state = "SYN_SENT"
        /\ \E m \in From(n) : /\ m.flags = {"SYN", "ACK"} /\ m.ack = c.snd_iss
                              /\ d = [c EXCEPT !.rcv_cur = m.seq, !.rcv_irs = m.seq, !.rcv_ack = m.seq,
                                               !.state = "OPEN", !.snd_una = m.ack]
        /\ out = {AckSeg(n, d)} /\ ev = {"CONNECTED"} /\ inc' = inc

Establishes(n, d, out, ev) ==
    LET c == conn[n]
    IN  /\ c.state = "SYN_RCVD" /\ d.state = "OPEN" /\ d.is_pasv = c.is_pasv
        /\ d.snd_iss = c.snd_iss /\ d.snd_nxt = c.snd_nxt /\ d.snd_una = c.snd_una
        /\ \E m \in From(n) : /\ m.flags \in {{"ACK"}, {"ACK", "DATA"}} /\ m.ack = c.snd_iss
                              /\ Took(c, d, "DATA" \in m.flags, m.seq)
        /\ \A o \in out : o.src = n /\ o.flags \in PlainAck /\ o.ack = d.rcv_cur
        /\ (c.is_pasv => "ACCEPTED" \in ev) /\ ev \subseteq {"ACCEPTED", "READY2READ"}
        /\ (~ c.is_pasv => "ACCEPTED" \notin ev)
        /\ inc' = inc

\* What an open record takes from datagram m.
Takes(n, c, d, m) ==
    /\ m.flags \cap {"RST", "SYN"} = {}
    /\ \/ d.snd_una = c.snd_una
       \/ /\ m \in From(n) /\ "ACK" \in m.flags /\ d.snd_una = m.ack
          /\ m.ack \in c.snd_una..(c.snd_nxt - 1)
    /\ Took(c, d, m \in From(n) /\ "DATA" \in m.flags, m.seq)

\* An open connection goes on.
GoesOn(n, d, out, ev) ==
    LET c == conn[n]
    IN  /\ c.state = "OPEN" /\ d.state = "OPEN" /\ d.is_pasv = c.is_pasv
        /\ d.snd_iss = c.snd_iss
        /\ d.snd_nxt = c.snd_nxt \/ (d.snd_nxt = c.snd_nxt + 1 /\ c.snd_nxt - c.snd_iss <= MaxData[n])
        /\ \E m \in From(n) \cup {AckSeg(n, c)} : Takes(n, c, d, m)
        /\ \A o \in out : /\ o.src = n /\ o.flags \in Plain /\ o.ack = d.rcv_cur
                          /\ "DATA" \in o.flags => o.seq \in (c.snd_iss + 1)..(d.snd_nxt - 1)
        /\ ev \subseteq {"READY2READ"} /\ inc' = inc

Dead == {"NONE", "CLOSED", "CLOSE_WAIT_ACTIVE", "CLOSE_WAIT_PASV"}
Ended == {"NONE", "CLOSED", "CLOSE_WAIT_PASV"}

\* The connection ends, or has ended.
Ends(n, d, out, ev) ==
    LET c == conn[n]
    IN  /\ d.state \in Dead
        /\ d = None \/ (c.state # "NONE" /\ d.state # "NONE" /\ d.is_pasv = c.is_pasv
                          /\ d.snd_iss = c.snd_iss /\ d.snd_nxt = c.snd_nxt
                          /\ d.snd_una = c.snd_una
                          /\ d.rcv_cur = c.rcv_cur /\ d.held = c.held)
        /\ \A o \in out :
             \/ /\ o.src = n /\ o.flags \in PlainAck /\ o.ack = c.rcv_cur
                /\ c.state \in {"SYN_RCVD", "OPEN"}
             \/ /\ o.src = n /\ o.flags \in {{"RST"}, {"RST", "FIN"}} /\ o.seq = c.snd_nxt
                /\ c.state # "NONE"
             \/ o.src = n /\ o.flags = {"FIN"}
             \/ o.src = n /\ o.flags = {"RST", "ACK"} /\ o.seq = 0
             \/ o.src = n /\ \E m \in From(n) : Answer(n, o, m)
             \/ o.src = n /\ \E m \in From(n) : "SYN" \in m.flags /\ "RST" \notin m.flags
                                                 /\ o.flags = {"RST"} /\ o.seq = m.ack + 1
        /\ c.state \in {"CLOSED", "CLOSE_WAIT_PASV"} => d.state \in Ended /\ ev = {}
        /\ ev # {} => d.state \in Ended
        /\ "RESET" \in ev /\ c.state = "OPEN" =>
             \E m \in From(n) : {"RST", "SYN"} \cap m.flags # {} /\ InWindow(c, m.seq)
        /\ inc' = inc

StepKind(n, d, out, ev) ==
    \/ Connects(n, d, out, ev) \/ Accepts(n, d, out, ev) \/ Waits(n, d, out, ev)
    \/ Crosses(n, d, ev) \/ Opens(n, d, out, ev) \/ Establishes(n, d, out, ev)
    \/ GoesOn(n, d, out, ev) \/ Ends(n, d, out, ev)

\* Node n has taken a step of one of these kinds.
Stepped(n) ==
    \E before \in SUBSET net, d \in Record, out \in SUBSET Segment, ev \in SUBSET Event :
        /\ Do(n, before, d, out, ev)
        /\ WindowOK(d, Told(n, d, ev))
        /\ StepKind(n, d, out, ev)
        /\ inc' \in [Node -> Nat] /\ listening' \in [Node -> BOOLEAN]

\* The types of one record, by name.
LEMMA ConnFacts ==
    ASSUME ConnBase, NEW n \in Node
    PROVE  /\ conn[n] \in Record /\ WindowOK(conn[n], told[n]) /\ told[n] \in SUBSET Event
           /\ inc \in [Node -> Nat] /\ listening \in [Node -> BOOLEAN] /\ net \in SUBSET Segment
           /\ conn[n].state \in State
  BY DEF ConnBase, ConnTypeOK, Record

\* The fields of a segment.
LEMMA SegFacts ==
    ASSUME NEW n \in Node, NEW flags \in SUBSET Flag, NEW seq \in Int, NEW ack \in Int
    PROVE  /\ Seg(n, flags, seq, ack) \in Segment
           /\ Seg(n, flags, seq, ack).src = n /\ Seg(n, flags, seq, ack).flags = flags
           /\ Seg(n, flags, seq, ack).seq = seq /\ Seg(n, flags, seq, ack).ack = ack
  BY DEF Seg, Segment

\* The flags that rdp sets together.
LEMMA FlagFacts ==
    /\ {"SYN"} \in SUBSET Flag /\ {"SYN", "ACK"} \in SUBSET Flag /\ {"ACK"} \in SUBSET Flag
    /\ {"ACK", "DATA"} \in SUBSET Flag /\ {"ACK", "EAK"} \in SUBSET Flag
    /\ {"RST"} \in SUBSET Flag /\ {"RST", "FIN"} \in SUBSET Flag /\ {"RST", "ACK"} \in SUBSET Flag
    /\ {"FIN"} \in SUBSET Flag
  BY DEF Flag

\* A datagram that arrives is a segment.
LEMMA MsgFacts ==
    ASSUME ConnBase, NEW n \in Node, NEW m \in net, m.src = Peer(n)
    PROVE  /\ m \in From(n) /\ m.flags \in SUBSET Flag /\ m.seq \in Int /\ m.ack \in Int
           /\ Left(m) \in SUBSET net
  BY DEF From, Left, ConnBase, ConnTypeOK, Segment

\* What delayed_ack() puts out.
LEMMA DelayedFacts ==
    ASSUME NEW n \in Node, NEW c \in Record, NEW out \in DelayedAcks(n, c)
    PROVE  /\ out \in SUBSET Segment
           /\ \A o \in out : o.src = n /\ o.flags \in PlainAck /\ o.ack = c.rcv_cur
  <1>1. c.snd_nxt \in Int /\ c.rcv_cur \in Int
    BY DEF Record
  <1>2. PICK eak \in BOOLEAN :
          out = IF eak \/ c.rcv_cur # c.rcv_ack
                THEN {Seg(n, IF eak THEN {"ACK", "EAK"} ELSE {"ACK"}, c.snd_nxt, c.rcv_cur)} ELSE {}
    BY DEF DelayedAcks
  <1>3. ASSUME NEW o \in out
        PROVE  o \in Segment /\ o.src = n /\ o.flags \in PlainAck /\ o.ack = c.rcv_cur
    <2>1. o = Seg(n, {"ACK", "EAK"}, c.snd_nxt, c.rcv_cur) \/ o = Seg(n, {"ACK"}, c.snd_nxt, c.rcv_cur)
      BY <1>2, <1>3
    <2> QED BY <1>1, <2>1, SegFacts, FlagFacts DEF PlainAck
  <1> QED BY <1>3

\* How a handler is shown to be a step of one of the kinds.
LEMMA StepBy ==
    ASSUME ConnBase, NEW n \in Node, NEW before \in SUBSET net, NEW d \in Record,
           NEW out \in SUBSET Segment, NEW ev \in SUBSET Event,
           Do(n, before, d, out, ev), WindowOK(d, Told(n, d, ev)), StepKind(n, d, out, ev),
           inc' \in [Node -> Nat], listening' \in [Node -> BOOLEAN]
    PROVE  Stepped(n)
  BY DEF Stepped

\* A new record.
LEMMA NewConFacts ==
    ASSUME ConnBase, NEW n \in Node, inc[n] < Len(IssOf[n]),
           NEW state \in {"SYN_SENT", "SYN_RCVD"}, NEW pasv \in BOOLEAN, NEW irs \in Int
    PROVE  /\ NewCon(n, state, pasv, irs) \in Record
           /\ WindowOK(NewCon(n, state, pasv, irs), {})
           /\ IssOf[n][inc[n] + 1] \in Nat /\ inc[n] + 1 \in 1..Len(IssOf[n])
           /\ [inc EXCEPT ![n] = @ + 1] \in [Node -> Nat]
           /\ NewCon(n, state, pasv, irs).state = state
           /\ NewCon(n, state, pasv, irs).is_pasv = pasv
           /\ NewCon(n, state, pasv, irs).snd_iss = IssOf[n][inc[n] + 1]
           /\ NewCon(n, state, pasv, irs).snd_nxt = IssOf[n][inc[n] + 1] + 1
           /\ NewCon(n, state, pasv, irs).snd_una = IssOf[n][inc[n] + 1]
           /\ NewCon(n, state, pasv, irs).rcv_cur = irs
           /\ NewCon(n, state, pasv, irs).rcv_irs = irs
           /\ NewCon(n, state, pasv, irs).held = {}
  <1> DEFINE c == NewCon(n, state, pasv, irs)
             iss == IssOf[n][inc[n] + 1]
             rt == [i \in 1..MaxData[n] |-> 1]
  <1>1. IssOf[n] \in Seq(Nat) /\ inc[n] \in Nat /\ MaxData[n] \in Nat /\ RcvMaxDefault \in Nat
    BY ConnAssumption DEF ConnBase, ConnTypeOK
  <1>2. inc[n] + 1 \in 1..Len(IssOf[n])
    BY <1>1
  <1>3. iss \in Nat
    BY <1>1, <1>2
  <1>4. rt \in Seq(Nat)
    BY <1>1
  <1> HIDE DEF iss, rt
  <1>5. c = [None EXCEPT !.state = state, !.is_pasv = pasv, !.snd_iss = iss,
                     !.snd_nxt = iss + 1, !.snd_una = iss, !.rcv_cur = irs,
                     !.rcv_irs = irs, !.rcv_ack = irs, !.tout = 1, !.rt_sec = rt]
    BY DEF NewCon, iss, rt
  <1>6. c \in Record
    <2> DEFINE x == [None EXCEPT !.state = state, !.is_pasv = pasv, !.snd_iss = iss,
                                 !.snd_nxt = iss + 1, !.snd_una = iss]
    <2>1. iss \in Int /\ iss + 1 \in Int /\ state \in State /\ 1 \in Nat
      BY <1>3 DEF State
    <2>2. x \in Record
      BY <2>1, NoneOK DEF Record
    <2>3. c = [x EXCEPT !.rcv_cur = irs, !.rcv_irs = irs, !.rcv_ack = irs, !.tout = 1,
                        !.rt_sec = rt]
      BY <1>5
    <2> HIDE DEF x
    <2> QED BY <1>4, <2>1, <2>2, <2>3, ZenonT(60) DEF Record
  <1>7. /\ c.state = state /\ c.is_pasv = pasv /\ c.snd_iss = iss /\ c.snd_nxt = iss + 1
        /\ c.snd_una = iss /\ c.rcv_cur = irs /\ c.rcv_irs = irs
        /\ c.held = None.held /\ c.unread = None.unread
    BY <1>5, NoneOK DEF Record
  <1>8. WindowOK(c, {})
    <2> HIDE DEF c
    <2>1. c.held = {} /\ c.unread = 0
      BY <1>7 DEF None
    <2> QED BY <1>3, <1>7, <2>1 DEF WindowOK, Terminal
  <1>9. [inc EXCEPT ![n] = @ + 1] \in [Node -> Nat]
    BY <1>1 DEF ConnBase, ConnTypeOK
  <1>10. c.held = {}
    BY <1>7 DEF None
  <1> QED BY <1>2, <1>3, <1>6, <1>7, <1>8, <1>9, <1>10 DEF c, iss

\* connect() makes a record that has sent its SYN.
LEMMA ConnectStep == ASSUME ConnBase, NEW n \in Node, connect(n) PROVE Stepped(n)
  <1> DEFINE d == NewCon(n, "SYN_SENT", FALSE, 0)
             out == {Seg(n, {"SYN"}, d.snd_iss, 0)}
  <1>1. /\ n \in Clients /\ conn[n].state = "NONE" /\ inc[n] < Len(IssOf[n]) /\ Do(n, net, d, out, {})
        /\ inc' = [inc EXCEPT ![n] = @ + 1] /\ listening' = listening
    BY DEF connect
  <1>2. d \in Record /\ WindowOK(d, {}) /\ inc' \in [Node -> Nat]
    <2>1. "SYN_SENT" \in {"SYN_SENT", "SYN_RCVD"} /\ FALSE \in BOOLEAN /\ 0 \in Int
      OBVIOUS
    <2> QED BY <1>1, <2>1, NewConFacts
  <1>3. Told(n, d, {}) = {}
    BY <1>1, ConnFacts DEF Told, WindowOK
  <1>4. Connects(n, d, out, {})
    BY <1>1 DEF Connects
  <1> HIDE DEF d
  <1>5. out \in SUBSET Segment
    <2>1. d.snd_iss \in Int /\ 0 \in Int
      BY <1>2 DEF Record
    <2> QED BY <2>1, SegFacts, FlagFacts
  <1> HIDE DEF out
  <1>6. StepKind(n, d, out, {})
    BY <1>4 DEF StepKind
  <1>7. {} \in SUBSET Event /\ net \in SUBSET net /\ listening' \in [Node -> BOOLEAN]
    BY <1>1, ConnFacts
  <1> QED BY <1>1, <1>2, <1>3, <1>5, <1>6, <1>7, StepBy

\* Each kind of step keeps what holds of a window.
LEMMA EndsBy ==
    ASSUME ConnBase, NEW n \in Node, NEW before \in SUBSET net, NEW d \in Record,
           NEW out \in SUBSET Segment, NEW ev \in SUBSET Event,
           Do(n, before, d, out, ev), Ends(n, d, out, ev), listening' = listening
    PROVE  Stepped(n)
  <1>1. WindowOK(d, Told(n, d, ev))
    <2>1. CASE d = None
      BY <2>1, NoneOK DEF Told, None
    <2>2. CASE d # None
      <3> DEFINE c == conn[n]
      <3>1. /\ d.state # "NONE" /\ d.state \in Dead /\ d.rcv_cur = c.rcv_cur /\ d.held = c.held
            /\ d.snd_iss = c.snd_iss /\ d.snd_nxt = c.snd_nxt /\ c.state # "NONE"
            /\ c.state \in {"CLOSED", "CLOSE_WAIT_PASV"} => d.state \in Ended
            /\ ev # {} => d.state \in Ended
        BY <2>2 DEF Ends
      <3>2. Told(n, d, ev) = told[n] \cup ev /\ WindowOK(c, told[n])
        BY <3>1, ConnFacts DEF Told
      <3> HIDE DEF c
      <3> QED BY <3>1, <3>2 DEF WindowOK, Dead, Ended
    <2> QED BY <2>1, <2>2
  <1>2. StepKind(n, d, out, ev) /\ inc' = inc
    BY DEF StepKind, Ends
  <1> QED BY <1>1, <1>2, ConnFacts, StepBy

\* A handler that leaves the handshake where it is.
LEMMA WaitsBy ==
    ASSUME ConnBase, NEW n \in Node, NEW before \in SUBSET net, NEW d \in Record,
           NEW out \in SUBSET Segment,
           Do(n, before, d, out, {}), Waits(n, d, out, {}), listening' = listening
    PROVE  Stepped(n)
  <1>1. WindowOK(d, Told(n, d, {}))
    <2> DEFINE c == conn[n]
    <2>1. Same(c, d) /\ d.unread = c.unread /\ c.state \in {"SYN_SENT", "SYN_RCVD"} /\ WindowOK(c, told[n])
      BY ConnFacts DEF Waits
    <2> HIDE DEF c
    <2>2. Told(n, d, {}) = told[n]
      BY <2>1 DEF Told, Same
    <2> QED BY <2>1, <2>2 DEF WindowOK, Same
  <1>2. StepKind(n, d, out, {}) /\ inc' = inc /\ {} \in SUBSET Event
    BY DEF StepKind, Waits
  <1> QED BY <1>1, <1>2, ConnFacts, StepBy

\* An open record, before and after.
LEMMA OpenBy ==
    ASSUME ConnBase, NEW n \in Node, NEW before \in SUBSET net, NEW d \in Record,
           NEW out \in SUBSET Segment, NEW ev \in SUBSET Event,
           Do(n, before, d, out, ev), listening' = listening,
           conn[n].state \in {"SYN_SENT", "SYN_RCVD", "OPEN"}, d.state = "OPEN",
           d.held \subseteq (d.rcv_cur + 2)..(d.rcv_cur + 2 * RcvMaxDefault),
           d.snd_iss < d.snd_nxt,
           Opens(n, d, out, ev) \/ Establishes(n, d, out, ev) \/ GoesOn(n, d, out, ev)
    PROVE  Stepped(n)
  <1>1. ev \cap Terminal = {} /\ inc' = inc
    BY DEF Opens, Establishes, GoesOn, Terminal
  <1>2. told[n] \cap Terminal = {} /\ Told(n, d, ev) = told[n] \cup ev
    BY ConnFacts DEF WindowOK, Told
  <1>3. WindowOK(d, Told(n, d, ev))
    BY <1>1, <1>2 DEF WindowOK
  <1>4. StepKind(n, d, out, ev)
    BY DEF StepKind
  <1> QED BY <1>1, <1>3, <1>4, ConnFacts, StepBy

\* The first RST of close().
LEMMA CloseOpenStep ==
    ASSUME ConnBase, NEW n \in Node, NEW before \in SUBSET net, NEW c \in Record,
           c.is_pasv = conn[n].is_pasv, c.snd_iss = conn[n].snd_iss, c.snd_nxt = conn[n].snd_nxt,
           c.snd_una = conn[n].snd_una, c.rcv_cur = conn[n].rcv_cur, c.held = conn[n].held,
           conn[n].state \in {"SYN_RCVD", "OPEN"}, CloseOpen(n, before, c, {}),
           inc' = inc, listening' = listening
    PROVE  Stepped(n)
  <1>1. PICK acks \in DelayedAcks(n, c) :
          Do(n, before,
             [c EXCEPT !.state = "CLOSE_WAIT_ACTIVE", !.rcv_ack = c.rcv_cur, !.tout = 1,
                       !.late = Dup, !.is_closed = TRUE, !.is_retry_rst = TRUE],
             acks \cup {Seg(n, {"RST"}, c.snd_nxt, 0)}, {})
    BY DEF CloseOpen
  <1> DEFINE d == [c EXCEPT !.state = "CLOSE_WAIT_ACTIVE", !.rcv_ack = c.rcv_cur, !.tout = 1,
                            !.late = Dup, !.is_closed = TRUE, !.is_retry_rst = TRUE]
             rst == Seg(n, {"RST"}, c.snd_nxt, 0)
             out == acks \cup {rst}
  <1>2. /\ d \in Record /\ d.state = "CLOSE_WAIT_ACTIVE" /\ d.is_pasv = c.is_pasv
        /\ d.snd_iss = c.snd_iss /\ d.snd_nxt = c.snd_nxt /\ d.snd_una = c.snd_una
        /\ d.rcv_cur = c.rcv_cur /\ d.held = c.held /\ c.snd_nxt \in Int
    BY ConnAssumption DEF Record, State
  <1>3. rst \in Segment /\ rst.src = n /\ rst.flags = {"RST"} /\ rst.seq = c.snd_nxt
    BY <1>2, SegFacts, FlagFacts
  <1>4. acks \in SUBSET Segment /\ \A o \in acks : o.src = n /\ o.flags \in PlainAck /\ o.ack = c.rcv_cur
    BY DelayedFacts
  <1>5. Do(n, before, d, out, {})
    BY <1>1
  <1> HIDE DEF d, rst
  <1>6. out \in SUBSET Segment /\ {} \in SUBSET Event
    BY <1>3, <1>4
  <1>7. Ends(n, d, out, {})
    BY <1>2, <1>3, <1>4 DEF Ends, Dead, Ended
  <1> HIDE DEF out
  <1> QED BY <1>2, <1>5, <1>6, <1>7, EndsBy

\* close(), in every state of the record.
LEMMA CloseStep == ASSUME ConnBase, NEW n \in Node, close(n) PROVE Stepped(n)
  <1> DEFINE c == conn[n]
  <1>0. c \in Record /\ inc' = inc /\ listening' = listening /\ net \in SUBSET net /\ {} \in SUBSET Event
        /\ c.snd_nxt \in Int /\ {} \in SUBSET Segment
    BY ConnFacts DEF close, Record
  <1>1. CASE c.state = "OPEN" /\ CloseOpen(n, net, c, {})
    BY <1>0, <1>1, CloseOpenStep
  <1>2. CASE c.state = "CLOSE_WAIT_PASV" /\ Do(n, net, [c EXCEPT !.is_closed = TRUE], {}, {})
    <2> DEFINE d == [c EXCEPT !.is_closed = TRUE]
    <2>1. d \in Record /\ Same(c, d)
      BY <1>0 DEF Record, Same
    <2> HIDE DEF d
    <2>2. Ends(n, d, {}, {})
      BY <1>0, <1>2, <2>1 DEF Ends, Same, Dead, Ended
    <2>3. Do(n, net, d, {}, {})
      BY <1>2 DEF d
    <2> QED BY <1>0, <2>1, <2>2, <2>3, EndsBy
  <1>3. CASE c.state = "CLOSED" /\ Do(n, net, None, {}, {})
    <2>1. Ends(n, None, {}, {})
      BY <1>0 DEF Ends, Dead, Ended, None
    <2> QED BY <1>0, <1>3, <2>1, NoneOK, EndsBy
  <1>4. CASE /\ c.state \in {"SYN_SENT", "SYN_RCVD"}
             /\ Do(n, net, None, {Seg(n, {"RST"}, c.snd_nxt, 0)}, {})
    <2> DEFINE o == Seg(n, {"RST"}, c.snd_nxt, 0)
    <2>1. o \in Segment /\ o.src = n /\ o.flags = {"RST"} /\ o.seq = c.snd_nxt
      BY <1>0, SegFacts, FlagFacts
    <2> HIDE DEF o
    <2>2. Ends(n, None, {o}, {})
      BY <1>0, <1>4, <2>1 DEF Ends, Dead, Ended, None
    <2>3. Do(n, net, None, {o}, {})
      BY <1>4 DEF o
    <2> QED BY <1>0, <2>1, <2>2, <2>3, NoneOK, EndsBy
  <1> QED BY <1>1, <1>2, <1>3, <1>4 DEF close

\* An open record that only puts out acknowledgements.
LEMMA AckOnly ==
    ASSUME ConnBase, NEW n \in Node, NEW before \in SUBSET net, NEW d \in Record,
           NEW out \in SUBSET Segment, Do(n, before, d, out, {}), listening' = listening, inc' = inc,
           conn[n].state = "OPEN", Same(conn[n], d),
           \A o \in out : /\ o.src = n /\ o.flags \in Plain /\ o.ack = d.rcv_cur
                          /\ "DATA" \in o.flags => o.seq \in (conn[n].snd_iss + 1)..(d.snd_nxt - 1)
    PROVE  Stepped(n)
  <1> DEFINE m == AckSeg(n, conn[n])
  <1>1. m.flags = {"ACK"}
    BY DEF AckSeg, Seg
  <1> HIDE DEF m
  <1>2. Took(conn[n], d, m \in From(n) /\ "DATA" \in m.flags, m.seq)
    BY DEF Took, Same
  <1>5. Takes(n, conn[n], d, m)
    BY <1>1, <1>2 DEF Takes, Same
  <1>3. GoesOn(n, d, out, {})
    BY <1>5 DEF GoesOn, Same, m
  <1>4. d.held \subseteq (d.rcv_cur + 2)..(d.rcv_cur + 2 * RcvMaxDefault) /\ d.snd_iss < d.snd_nxt
    BY ConnFacts DEF WindowOK, Same
  <1> QED BY <1>3, <1>4, OpenBy DEF Same

\* send() goes on with an open connection.
LEMMA SendStep == ASSUME ConnBase, NEW n \in Node, send(n) PROVE Stepped(n)
  <1> DEFINE c == conn[n]
             d == [c EXCEPT !.snd_nxt = @ + 1]
             o == DataSeg(n, c, c.snd_nxt)
             m == AckSeg(n, c)
  <1>1. /\ c.state = "OPEN" /\ c.snd_nxt - c.snd_iss <= MaxData[n] /\ Do(n, net, d, {o}, {})
        /\ inc' = inc /\ listening' = listening
    BY DEF send
  <1>2. c \in Record /\ c.snd_nxt \in Int /\ c.rcv_cur \in Int /\ c.snd_iss \in Int /\ WindowOK(c, told[n])
    BY ConnFacts DEF Record
  <1>3. d \in Record
    <2>1. c.snd_nxt + 1 \in Int
      BY <1>2
    <2>2. d = [c EXCEPT !.snd_nxt = c.snd_nxt + 1]
      OBVIOUS
    <2> DEFINE x == c.snd_nxt + 1
    <2>3. d = [c EXCEPT !.snd_nxt = x] /\ x \in Int
      BY <2>1, <2>2
    <2> HIDE DEF x, d, c
    <2> QED BY <1>2, <2>3 DEF Record
  <1>9. /\ d.state = c.state /\ d.is_pasv = c.is_pasv /\ d.snd_iss = c.snd_iss
        /\ d.snd_nxt = c.snd_nxt + 1 /\ d.snd_una = c.snd_una /\ d.rcv_irs = c.rcv_irs
        /\ d.rcv_cur = c.rcv_cur /\ d.held = c.held
    BY <1>2 DEF Record
  <1>4. o \in Segment /\ o.src = n /\ o.flags = {"ACK", "DATA"} /\ o.ack = c.rcv_cur /\ o.seq = c.snd_nxt
    BY <1>2, SegFacts, FlagFacts DEF DataSeg
  <1>5. m.flags = {"ACK"}
    BY DEF AckSeg, Seg
  <1> HIDE DEF m, d, o
  <1>6. Took(c, d, m \in From(n) /\ "DATA" \in m.flags, m.seq)
    BY <1>9 DEF Took
  <1>7. c.snd_nxt > c.snd_iss
    BY <1>1, <1>2 DEF WindowOK
  <1>11. Takes(n, c, d, m)
    BY <1>5, <1>6, <1>9 DEF Takes
  <1>8. GoesOn(n, d, {o}, {})
    BY <1>1, <1>2, <1>4, <1>7, <1>9, <1>11 DEF GoesOn, Plain, m
  <1>10. d.held \subseteq (d.rcv_cur + 2)..(d.rcv_cur + 2 * RcvMaxDefault) /\ d.snd_iss < d.snd_nxt
    BY <1>2, <1>7, <1>9 DEF WindowOK
  <1> QED BY <1>1, <1>3, <1>4, <1>8, <1>9, <1>10, OpenBy

\* A record that has not come so far as to be open, or is over, with other timers.
LEMMA QuietEnd ==
    ASSUME ConnBase, NEW n \in Node, NEW before \in SUBSET net, NEW d \in Record,
           Do(n, before, d, {}, {}), listening' = listening, inc' = inc,
           conn[n].state \in Dead \ {"NONE"}, Same(conn[n], d)
    PROVE  Stepped(n)
  <1>1. Ends(n, d, {}, {}) /\ {} \in SUBSET Segment /\ {} \in SUBSET Event
    BY DEF Ends, Same, Dead, Ended
  <1> QED BY <1>1, EndsBy

\* receive() changes nothing that the other end depends on.
LEMMA ReceiveStep == ASSUME ConnBase, NEW n \in Node, receive(n) PROVE Stepped(n)
  <1> DEFINE c == conn[n]
  <1>1. PICK k \in 1..c.unread : Do(n, net, [c EXCEPT !.unread = @ - k], {}, {})
    BY DEF receive
  <1> DEFINE d == [c EXCEPT !.unread = @ - k]
             x == c.unread - k
  <1>2. /\ c \in Record /\ c.unread \in Nat /\ c.unread > 0 /\ WindowOK(c, told[n]) /\ c.state \in State
        /\ inc' = inc /\ listening' = listening
    BY ConnFacts DEF receive, Record
  <1>3. x \in Nat /\ d = [c EXCEPT !.unread = x] /\ Do(n, net, d, {}, {})
    BY <1>1, <1>2
  <1>4. c.state \notin {"NONE", "SYN_SENT", "SYN_RCVD"}
    BY <1>2 DEF WindowOK
  <1> HIDE DEF x, d, c
  <1>5. d \in Record
    BY <1>2, <1>3 DEF Record
  <1>6. Same(c, d)
    BY <1>2, <1>3 DEF Record, Same
  <1>7. CASE c.state = "OPEN"
    <2>1. {} \in SUBSET Segment /\ net \in SUBSET net
      OBVIOUS
    <2> QED BY <1>2, <1>3, <1>5, <1>6, <1>7, <2>1, AckOnly DEF c
  <1>8. CASE c.state # "OPEN"
    <2>1. c.state \in Dead \ {"NONE"} /\ net \in SUBSET net
      BY <1>2, <1>4, <1>8 DEF State, Dead
    <2> QED BY <1>2, <1>3, <1>5, <1>6, <2>1, QuietEnd DEF c
  <1> QED BY <1>7, <1>8

\* Time passes.
LEMMA ElapseStep == ASSUME ConnBase, NEW n \in Node, Elapse(n) PROVE Stepped(n)
  <1> DEFINE c == conn[n]
             d == [c EXCEPT !.late = TRUE]
  <1>1. /\ c \in Record /\ Do(n, net, d, {}, {}) /\ inc' = inc /\ listening' = listening
        /\ c.state \in {"SYN_SENT", "SYN_RCVD", "CLOSE_WAIT_ACTIVE", "CLOSE_WAIT_PASV"}
        /\ net \in SUBSET net /\ {} \in SUBSET Segment
    BY ConnFacts DEF Elapse
  <1>2. d \in Record /\ Same(c, d) /\ d.unread = c.unread
    BY <1>1 DEF Record, Same
  <1> HIDE DEF d
  <1>3. CASE c.state \in {"SYN_SENT", "SYN_RCVD"}
    <2>1. Waits(n, d, {}, {})
      BY <1>1, <1>2, <1>3 DEF Waits
    <2> QED BY <1>1, <1>2, <2>1, WaitsBy
  <1>4. CASE c.state \in {"CLOSE_WAIT_ACTIVE", "CLOSE_WAIT_PASV"}
    <2>1. c.state \in Dead \ {"NONE"}
      BY <1>4 DEF Dead
    <2> QED BY <1>1, <1>2, <2>1, QuietEnd
  <1> QED BY <1>1, <1>3, <1>4

\* A record that is closed now, and was in the handshake or open.
LEMMA ClosedFacts ==
    ASSUME NEW c \in Record
    PROVE  LET d == [c EXCEPT !.state = "CLOSED"]
           IN  /\ d \in Record /\ d.state = "CLOSED" /\ d.is_pasv = c.is_pasv
               /\ d.snd_iss = c.snd_iss /\ d.snd_nxt = c.snd_nxt /\ d.snd_una = c.snd_una
               /\ d.rcv_cur = c.rcv_cur /\ d.held = c.held
  BY DEF Record, State

\* A handler that ends a connection or answers for one that has ended.
LEMMA ClosesBy ==
    ASSUME ConnBase, NEW n \in Node, NEW before \in SUBSET net, NEW ev \in SUBSET Event,
           NEW out \in SUBSET Segment,
           Do(n, before, [conn[n] EXCEPT !.state = "CLOSED"], out, ev),
           listening' = listening, inc' = inc,
           conn[n].state # "NONE", conn[n].state \in {"CLOSED", "CLOSE_WAIT_PASV"} => ev = {},
           out # {} => Ends(n, None, out, {}),
           "RESET" \in ev /\ conn[n].state = "OPEN" =>
             \E m \in From(n) : {"RST", "SYN"} \cap m.flags # {} /\ InWindow(conn[n], m.seq)
    PROVE  Stepped(n)
  <1> DEFINE c == conn[n]
             d == [c EXCEPT !.state = "CLOSED"]
  <1>1. c \in Record
    BY ConnFacts
  <1>2. /\ d \in Record /\ d.state = "CLOSED" /\ d.is_pasv = c.is_pasv
        /\ d.snd_iss = c.snd_iss /\ d.snd_nxt = c.snd_nxt /\ d.snd_una = c.snd_una
        /\ d.rcv_cur = c.rcv_cur /\ d.held = c.held
    BY <1>1, ClosedFacts
  <1> HIDE DEF d
  <1>3. Ends(n, d, out, ev)
    BY <1>2 DEF Ends, Dead, Ended
  <1>4. Do(n, before, d, out, ev)
    BY DEF d
  <1> QED BY <1>2, <1>3, <1>4, EndsBy

\* A retry changes the timeout only.
LEMMA BackoffFacts ==
    ASSUME NEW c \in Record
    PROVE  Backoff(c) \in Record /\ Same(c, Backoff(c)) /\ Backoff(c).unread = c.unread
  <1> DEFINE x == 2 * c.tout
             d == Backoff(c)
  <1>1. x \in Nat /\ d = [c EXCEPT !.tout = x, !.late = Dup]
    BY DEF Backoff, Record
  <1> HIDE DEF x, d
  <1>2. d \in Record
    BY <1>1, ConnAssumption DEF Record
  <1>3. Same(c, d) /\ d.unread = c.unread
    BY <1>1 DEF Record, Same
  <1> QED BY <1>2, <1>3 DEF d

\* timer_rdp before the connection is open.
LEMMA SynTimerStep == ASSUME ConnBase, NEW n \in Node, SynTimer(n) PROVE Stepped(n)
  <1> DEFINE c == conn[n]
  <1>0. /\ c \in Record /\ inc' = inc /\ listening' = listening /\ c.state \in {"SYN_SENT", "SYN_RCVD"}
        /\ net \in SUBSET net /\ {} \in SUBSET Segment /\ {} \in SUBSET Event /\ {"FAILED"} \in SUBSET Event
        /\ c.snd_iss \in Int /\ c.rcv_cur \in Int
    BY ConnFacts DEF SynTimer, Event, Record
  <1>1. CASE Do(n, net, None, {}, {})
    <2>1. Ends(n, None, {}, {})
      BY <1>0 DEF Ends, Dead, Ended, None
    <2> QED BY <1>0, <1>1, <2>1, NoneOK, EndsBy
  <1>2. CASE Do(n, net, [c EXCEPT !.state = "CLOSED"], {}, {"FAILED"})
    BY <1>0, <1>2, ClosesBy
  <1>3. CASE Do(n, net, Backoff(c),
                {IF c.state = "SYN_SENT" THEN Seg(n, {"SYN"}, c.snd_iss, 0)
                 ELSE Seg(n, {"SYN", "ACK"}, c.snd_iss, c.rcv_cur)}, {})
    <2> DEFINE d == Backoff(c)
               o == IF c.state = "SYN_SENT" THEN Seg(n, {"SYN"}, c.snd_iss, 0)
                    ELSE Seg(n, {"SYN", "ACK"}, c.snd_iss, c.rcv_cur)
    <2>1. d \in Record /\ Same(c, d) /\ d.unread = c.unread /\ Do(n, net, d, {o}, {})
      BY <1>0, <1>3, BackoffFacts
    <2>2. o \in Segment
      BY <1>0, SegFacts, FlagFacts, SMTT(60)
    <2> HIDE DEF d
    <2>3. Waits(n, d, {o}, {})
      BY <1>0, <2>1 DEF Waits
    <2> HIDE DEF o
    <2> QED BY <1>0, <2>1, <2>2, <2>3, WaitsBy
  <1> QED BY <1>1, <1>2, <1>3 DEF SynTimer

\* timer_rdp while the connection is closed.
LEMMA RstTimerStep == ASSUME ConnBase, NEW n \in Node, RstTimer(n) PROVE Stepped(n)
  <1> DEFINE c == conn[n]
  <1>0. /\ c \in Record /\ inc' = inc /\ listening' = listening
        /\ c.state \in {"CLOSE_WAIT_ACTIVE", "CLOSE_WAIT_PASV"}
        /\ net \in SUBSET net /\ {} \in SUBSET Segment /\ {} \in SUBSET Event
        /\ c.snd_nxt \in Int
    BY ConnFacts DEF RstTimer, Record
  <1>1. CASE Do(n, net, None, {}, {})
    <2>1. Ends(n, None, {}, {})
      BY <1>0 DEF Ends, Dead, Ended, None
    <2> QED BY <1>0, <1>1, <2>1, NoneOK, EndsBy
  <1>2. CASE Do(n, net, [c EXCEPT !.state = "CLOSED"], {}, {})
    BY <1>0, <1>2, ClosesBy
  <1>3. ASSUME NEW out, out \in {{}, {Seg(n, {"RST"}, c.snd_nxt, 0)}, {Seg(n, {"RST", "FIN"}, c.snd_nxt, 0)}},
               Do(n, net, Backoff(c), out, {})
        PROVE  Stepped(n)
    <2> DEFINE d == Backoff(c)
    <2>1. d \in Record /\ Same(c, d) /\ Do(n, net, d, out, {})
      BY <1>0, <1>3, BackoffFacts
    <2>2. \A o \in out : o \in Segment /\ o.src = n /\ o.flags \in {{"RST"}, {"RST", "FIN"}} /\ o.seq = c.snd_nxt
      BY <1>0, <1>3, SegFacts, FlagFacts
    <2> HIDE DEF d
    <2>3. Ends(n, d, out, {})
      BY <1>0, <2>1, <2>2 DEF Ends, Dead, Ended, Same
    <2>4. out \in SUBSET Segment
      BY <2>2
    <2> QED BY <1>0, <2>1, <2>3, <2>4, EndsBy
  <1> QED BY <1>1, <1>2, <1>3 DEF RstTimer

\* timer_rdp of an open connection: retransmit() and delayed_ack().
LEMMA OpenTimerStep == ASSUME ConnBase, NEW n \in Node, OpenTimer(n) PROVE Stepped(n)
  <1> DEFINE c == conn[n]
  <1>0. /\ c \in Record /\ inc' = inc /\ listening' = listening /\ c.state = "OPEN"
        /\ net \in SUBSET net /\ {} \in SUBSET Segment /\ {"BROKEN"} \in SUBSET Event
        /\ c.snd_nxt \in Int /\ c.rcv_cur \in Int /\ c.snd_iss \in Int /\ c.rt_sec \in Seq(Nat)
    BY ConnFacts DEF OpenTimer, Record, Event
  <1>1. CASE Break(n)
    BY <1>0, <1>1, ClosesBy DEF Break
  <1>2. ASSUME NEW i \in DOMAIN c.rt_sec, c.snd_iss + i \in (c.snd_una + 1)..(c.snd_nxt - 1),
               Do(n, net, [c EXCEPT !.rt_sec[i] = 2 * @], {DataSeg(n, c, c.snd_iss + i)}, {})
        PROVE  Stepped(n)
    <2> DEFINE x == [c.rt_sec EXCEPT ![i] = 2 * @]
               d == [c EXCEPT !.rt_sec = x]
               o == DataSeg(n, c, c.snd_iss + i)
    <2>0. i \in 1..Len(c.rt_sec) /\ 2 * c.rt_sec[i] \in Nat
      <3> DEFINE s == c.rt_sec
      <3>1. s \in Seq(Nat) /\ i \in DOMAIN s
        BY <1>0, <1>2
      <3> HIDE DEF s
      <3>2. i \in 1..Len(s) /\ s[i] \in Nat
        BY <3>1
      <3> QED BY <3>2 DEF s
    <2>1. x \in Seq(Nat) /\ i \in Nat /\ i > 0 /\ c.snd_iss + i \in Int
      <3> DEFINE s == c.rt_sec
                 y == 2 * s[i]
      <3>1. s \in Seq(Nat) /\ i \in 1..Len(s) /\ y \in Nat /\ x = [s EXCEPT ![i] = y] /\ Len(s) \in Nat
        BY <1>0, <2>0
      <3> HIDE DEF s, y, x
      <3>2. x \in Seq(Nat)
        BY <3>1
      <3> QED BY <1>0, <3>1, <3>2
    <2>2. d = [c EXCEPT !.rt_sec[i] = 2 * @]
      OBVIOUS
    <2>3. Do(n, net, d, {o}, {})
      BY <1>2, <2>2
    <2> HIDE DEF x
    <2>4. d \in Record
      BY <1>0, <2>1 DEF Record
    <2>5. Same(c, d)
      BY <1>0 DEF Record, Same
    <2>6. /\ o \in Segment /\ o.src = n /\ o.flags = {"ACK", "DATA"} /\ o.ack = c.rcv_cur
          /\ o.seq = c.snd_iss + i
      <3> DEFINE y == c.snd_iss + i
      <3>1. y \in Int /\ o = DataSeg(n, c, y)
        BY <2>1
      <3> HIDE DEF y, o
      <3>2. /\ o \in Segment /\ o.src = n /\ o.flags = {"ACK", "DATA"} /\ o.ack = c.rcv_cur
            /\ o.seq = y
        BY <1>0, <3>1, SegFacts, FlagFacts DEF DataSeg
      <3> QED BY <3>2 DEF y
    <2>7. c.snd_iss + i \in (c.snd_iss + 1)..(c.snd_nxt - 1)
      BY <1>0, <1>2, <2>1
    <2> HIDE DEF d, o
    <2>8. \A q \in {o} : /\ q.src = n /\ q.flags \in Plain /\ q.ack = d.rcv_cur
                         /\ "DATA" \in q.flags => q.seq \in (conn[n].snd_iss + 1)..(d.snd_nxt - 1)
      BY <2>5, <2>6, <2>7 DEF Same, Plain
    <2>9. {o} \in SUBSET Segment
      BY <2>6
    <2> QED BY <1>0, <2>3, <2>4, <2>5, <2>8, <2>9, AckOnly
  <1>3. ASSUME NEW out \in DelayedAcks(n, c), Do(n, net, [c EXCEPT !.rcv_ack = c.rcv_cur], out, {})
        PROVE  Stepped(n)
    <2> DEFINE d == [c EXCEPT !.rcv_ack = c.rcv_cur]
    <2>1. d \in Record /\ Same(c, d) /\ Do(n, net, d, out, {})
      BY <1>0, <1>3 DEF Record, Same
    <2>2. out \in SUBSET Segment /\ \A o \in out : o.src = n /\ o.flags \in PlainAck /\ o.ack = c.rcv_cur
      BY <1>0, DelayedFacts
    <2> HIDE DEF d
    <2>3. \A o \in out : /\ o.src = n /\ o.flags \in Plain /\ o.ack = d.rcv_cur
                         /\ "DATA" \in o.flags => o.seq \in (conn[n].snd_iss + 1)..(d.snd_nxt - 1)
      BY <2>1, <2>2 DEF Same, Plain, PlainAck
    <2> QED BY <1>0, <2>1, <2>2, <2>3, AckOnly
  <1> QED BY <1>1, <1>2, <1>3 DEF OpenTimer

\* A record that is over, and answers.
LEMMA EndSame ==
    ASSUME ConnBase, NEW n \in Node, NEW before \in SUBSET net, NEW d \in Record,
           NEW out \in SUBSET Segment, Do(n, before, d, out, {}), listening' = listening, inc' = inc,
           conn[n].state \in Dead \ {"NONE"}, Same(conn[n], d),
           \A o \in out : /\ o.src = n
                          /\ \/ o.flags \in {{"RST"}, {"RST", "FIN"}} /\ o.seq = conn[n].snd_nxt
                             \/ o.flags = {"FIN"}
                             \/ o.flags = {"RST", "ACK"} /\ o.seq = 0
                             \/ \E m \in From(n) : Answer(n, o, m)
    PROVE  Stepped(n)
  <1>1. Ends(n, d, out, {}) /\ {} \in SUBSET Event
    BY DEF Ends, Same, Dead, Ended
  <1> QED BY <1>1, EndsBy

\* in_state_close_wait_active().
LEMMA CloseWaitActiveStep ==
    ASSUME ConnBase, NEW n \in Node, NEW m \in net, m.src = Peer(n), in_state_close_wait_active(n, m)
    PROVE  Stepped(n)
  <1> DEFINE c == conn[n]
  <1>0. /\ c \in Record /\ inc' = inc /\ listening' = listening /\ c.state = "CLOSE_WAIT_ACTIVE"
        /\ Left(m) \in SUBSET net /\ {} \in SUBSET Segment /\ c.snd_nxt \in Int /\ 0 \in Int
        /\ c.state \in Dead \ {"NONE"}
    BY ConnFacts, MsgFacts DEF in_state_close_wait_active, Record, Dead
  <1>1. CASE Do(n, Left(m), [c EXCEPT !.is_retry_rst = FALSE], {Seg(n, {"FIN"}, c.snd_nxt, 0)}, {})
    <2> DEFINE d == [c EXCEPT !.is_retry_rst = FALSE]
               o == Seg(n, {"FIN"}, c.snd_nxt, 0)
    <2>1. d \in Record /\ Same(c, d)
      BY <1>0 DEF Record, Same
    <2>2. o \in Segment /\ o.src = n /\ o.flags = {"FIN"} /\ Do(n, Left(m), d, {o}, {})
      BY <1>0, <1>1, SegFacts, FlagFacts
    <2> HIDE DEF d, o
    <2> QED BY <1>0, <2>1, <2>2, EndSame
  <1>2. CASE Do(n, Left(m), [c EXCEPT !.late = Dup], {Seg(n, {"RST"}, c.snd_nxt, 0)}, {})
    <2> DEFINE d == [c EXCEPT !.late = Dup]
               o == Seg(n, {"RST"}, c.snd_nxt, 0)
    <2>1. d \in Record /\ Same(c, d)
      BY <1>0, ConnAssumption DEF Record, Same
    <2>2. o \in Segment /\ o.src = n /\ o.flags = {"RST"} /\ o.seq = c.snd_nxt /\ Do(n, Left(m), d, {o}, {})
      BY <1>0, <1>2, SegFacts, FlagFacts
    <2> HIDE DEF d, o
    <2> QED BY <1>0, <2>1, <2>2, EndSame
  <1>3. CASE Do(n, Left(m), c, {}, {})
    BY <1>0, <1>3, QuietEnd DEF Same
  <1> QED BY <1>1, <1>2, <1>3 DEF in_state_close_wait_active

\* in_state_close_wait_pasv().
LEMMA CloseWaitPasvStep ==
    ASSUME ConnBase, NEW n \in Node, NEW m \in net, m.src = Peer(n), in_state_close_wait_pasv(n, m)
    PROVE  Stepped(n)
  <1> DEFINE c == conn[n]
  <1>0. /\ c \in Record /\ inc' = inc /\ listening' = listening /\ c.state = "CLOSE_WAIT_PASV"
        /\ Left(m) \in SUBSET net /\ {} \in SUBSET Segment /\ c.snd_nxt \in Int /\ 0 \in Int
        /\ c.state \in Dead \ {"NONE"}
    BY ConnFacts, MsgFacts DEF in_state_close_wait_pasv, Record, Dead
  <1>1. CASE Do(n, Left(m), [c EXCEPT !.is_retry_rst = FALSE], {}, {})
    <2> DEFINE d == [c EXCEPT !.is_retry_rst = FALSE]
    <2>1. d \in Record /\ Same(c, d) /\ Do(n, Left(m), d, {}, {})
      BY <1>0, <1>1 DEF Record, Same
    <2> HIDE DEF d
    <2> QED BY <1>0, <2>1, QuietEnd
  <1>2. CASE Do(n, Left(m), [c EXCEPT !.late = Dup], {Seg(n, {"RST", "FIN"}, c.snd_nxt, 0)}, {})
    <2> DEFINE d == [c EXCEPT !.late = Dup]
               o == Seg(n, {"RST", "FIN"}, c.snd_nxt, 0)
    <2>1. d \in Record /\ Same(c, d)
      BY <1>0, ConnAssumption DEF Record, Same
    <2>2. o \in Segment /\ o.src = n /\ o.flags = {"RST", "FIN"} /\ o.seq = c.snd_nxt /\ Do(n, Left(m), d, {o}, {})
      BY <1>0, <1>2, SegFacts, FlagFacts
    <2> HIDE DEF d, o
    <2> QED BY <1>0, <2>1, <2>2, EndSame
  <1>3. CASE Do(n, Left(m), c, {}, {})
    BY <1>0, <1>3, QuietEnd DEF Same
  <1> QED BY <1>1, <1>2, <1>3 DEF in_state_close_wait_pasv

\* The reset that answers an acknowledgement.
LEMMA AnswerFacts ==
    ASSUME ConnBase, NEW n \in Node, NEW m \in net, m.src = Peer(n)
    PROVE  LET o == Seg(n, {"RST"}, m.ack + 1, 0)
           IN  /\ o \in Segment /\ o.src = n /\ o.flags = {"RST"} /\ o.seq = m.ack + 1
               /\ "ACK" \in m.flags /\ "RST" \notin m.flags => Answer(n, o, m)
  <1>1. m \in From(n) /\ m.ack + 1 \in Int /\ 0 \in Int
    BY MsgFacts
  <1> DEFINE y == m.ack + 1
             o == Seg(n, {"RST"}, y, 0)
  <1> HIDE DEF y
  <1>2. y \in Int
    BY <1>1 DEF y
  <1>3. o \in Segment /\ o.src = n /\ o.flags = {"RST"} /\ o.seq = y
    BY <1>1, <1>2, SegFacts, FlagFacts
  <1> HIDE DEF o
  <1>4. "ACK" \in m.flags /\ "RST" \notin m.flags => Answer(n, o, m)
    BY <1>1, <1>3 DEF Answer, y
  <1> QED BY <1>3, <1>4 DEF o, y

\* in_state_closed(), with or without a record.
LEMMA ClosedStep ==
    ASSUME ConnBase, NEW n \in Node, NEW m \in net, m.src = Peer(n), in_state_closed(n, m)
    PROVE  Stepped(n)
  <1> DEFINE c == conn[n]
             out == IF "RST" \in m.flags THEN {}
                    ELSE IF "ACK" \in m.flags THEN {Seg(n, {"RST"}, m.ack + 1, 0)}
                    ELSE {Seg(n, {"RST", "ACK"}, 0, m.seq)}
  <1>0. /\ c \in Record /\ inc' = inc /\ listening' = listening /\ c.state \in {"NONE", "CLOSED"}
        /\ Left(m) \in SUBSET net /\ Do(n, Left(m), c, out, {}) /\ m.seq \in Int /\ 0 \in Int
        /\ (c.state = "NONE" => c = None) /\ {} \in SUBSET Event
    BY ConnFacts, MsgFacts DEF in_state_closed, WindowOK
  <1>1. \A o \in out : /\ o \in Segment /\ o.src = n
                       /\ (o.flags = {"RST", "ACK"} /\ o.seq = 0) \/ Answer(n, o, m)
    <2>1. CASE "RST" \in m.flags
      BY <2>1
    <2>2. CASE "RST" \notin m.flags /\ "ACK" \in m.flags
      BY <2>2, AnswerFacts
    <2>3. CASE "RST" \notin m.flags /\ "ACK" \notin m.flags
      BY <1>0, <2>3, SegFacts, FlagFacts
    <2> QED BY <2>1, <2>2, <2>3
  <1> HIDE DEF out
  <1>2. out \in SUBSET Segment
    BY <1>1
  <1>3. Ends(n, c, out, {})
    BY <1>0, <1>1, MsgFacts DEF Ends, Dead, Ended
  <1> QED BY <1>0, <1>2, <1>3, EndsBy

\* in_state_listen().
LEMMA ListenStep ==
    ASSUME ConnBase, NEW n \in Node, NEW m \in net, m.src = Peer(n), in_state_listen(n, m)
    PROVE  Stepped(n)
  <1>0. /\ conn[n].state = "NONE" /\ listening' = listening
        /\ Left(m) \in SUBSET net /\ {} \in SUBSET Segment /\ {} \in SUBSET Event
        /\ m \in From(n) /\ m.seq \in Int /\ m.flags \in SUBSET Flag
    BY MsgFacts DEF in_state_listen
  <1>1. CASE Do(n, Left(m), None, {}, {}) /\ inc' = inc
    <2>1. Ends(n, None, {}, {})
      BY <1>0, <1>1 DEF Ends, Dead, Ended, None
    <2> QED BY <1>0, <1>1, <2>1, NoneOK, EndsBy
  <1>2. CASE /\ "RST" \notin m.flags /\ "ACK" \in m.flags
             /\ Do(n, Left(m), None, {Seg(n, {"RST"}, m.ack + 1, 0)}, {}) /\ inc' = inc
    <2> DEFINE o == Seg(n, {"RST"}, m.ack + 1, 0)
    <2>1. o \in Segment /\ o.src = n /\ Answer(n, o, m)
      BY <1>2, AnswerFacts
    <2> HIDE DEF o
    <2>2. Ends(n, None, {o}, {})
      BY <1>0, <1>2, <2>1 DEF Ends, Dead, Ended, None
    <2>3. Do(n, Left(m), None, {o}, {})
      BY <1>2 DEF o
    <2> QED BY <1>0, <2>1, <2>2, <2>3, NoneOK, EndsBy
  <1>3. CASE /\ m.flags = {"SYN"} /\ inc[n] < Len(IssOf[n])
             /\ LET c == NewCon(n, "SYN_RCVD", TRUE, m.seq)
                IN  Do(n, Left(m), c, {Seg(n, {"SYN", "ACK"}, c.snd_iss, c.rcv_cur)}, {})
             /\ inc' = [inc EXCEPT ![n] = @ + 1]
    <2> DEFINE d == NewCon(n, "SYN_RCVD", TRUE, m.seq)
               out == {Seg(n, {"SYN", "ACK"}, d.snd_iss, d.rcv_cur)}
    <2>1. d \in Record /\ WindowOK(d, {}) /\ inc' \in [Node -> Nat]
      <3>1. "SYN_RCVD" \in {"SYN_SENT", "SYN_RCVD"} /\ TRUE \in BOOLEAN
        OBVIOUS
      <3> QED BY <1>0, <1>3, <3>1, NewConFacts
    <2>2. Told(n, d, {}) = {}
      BY <1>0, ConnFacts DEF Told, WindowOK
    <2>3. Accepts(n, d, out, {})
      BY <1>0, <1>3 DEF Accepts
    <2>4. Do(n, Left(m), d, out, {})
      BY <1>3
    <2> HIDE DEF d
    <2>5. out \in SUBSET Segment
      <3>1. d.snd_iss \in Int /\ d.rcv_cur \in Int
        BY <2>1 DEF Record
      <3> QED BY <3>1, SegFacts, FlagFacts
    <2> HIDE DEF out
    <2>6. StepKind(n, d, out, {})
      BY <2>3 DEF StepKind
    <2> QED BY <1>0, <2>1, <2>2, <2>4, <2>5, <2>6, ConnFacts, StepBy
  <1> QED BY <1>1, <1>2, <1>3 DEF in_state_listen

\* in_state_syn_sent().
LEMMA SynSentStep ==
    ASSUME ConnBase, NEW n \in Node, NEW m \in net, m.src = Peer(n), in_state_syn_sent(n, m)
    PROVE  Stepped(n)
  <1> DEFINE c == conn[n]
             opened == [c EXCEPT !.rcv_cur = m.seq, !.rcv_irs = m.seq, !.rcv_ack = m.seq,
                                 !.state = "OPEN", !.snd_una = m.ack]
             rcvd == [c EXCEPT !.rcv_cur = m.seq, !.rcv_irs = m.seq, !.rcv_ack = m.seq,
                               !.state = "SYN_RCVD", !.tout = 1, !.late = Dup]
  <1>0. /\ c \in Record /\ inc' = inc /\ listening' = listening /\ c.state = "SYN_SENT"
        /\ Left(m) \in SUBSET net /\ {} \in SUBSET Segment /\ {} \in SUBSET Event
        /\ m \in From(n) /\ m.seq \in Int /\ m.ack \in Int /\ m.flags \in SUBSET Flag
        /\ {"REFUSED"} \in SUBSET Event /\ {"CONNECTED"} \in SUBSET Event /\ WindowOK(c, told[n])
    BY ConnFacts, MsgFacts DEF in_state_syn_sent, Event
  <1>1. CASE WrongAck(c, m) /\ Do(n, Left(m), c, {Seg(n, {"RST"}, m.ack + 1, 0)}, {})
    <2> DEFINE o == Seg(n, {"RST"}, m.ack + 1, 0)
    <2>1. o \in Segment /\ o.src = n /\ Answer(n, o, m) /\ m.ack # c.snd_iss
      BY <1>1, AnswerFacts DEF WrongAck
    <2> HIDE DEF o
    <2>2. Waits(n, c, {o}, {})
      BY <1>0, <2>1 DEF Waits, Same
    <2>3. Do(n, Left(m), c, {o}, {})
      BY <1>1 DEF o
    <2> QED BY <1>0, <2>1, <2>2, <2>3, WaitsBy
  <1>2. CASE Do(n, Left(m), [c EXCEPT !.state = "CLOSED"], {}, {"REFUSED"})
    BY <1>0, <1>2, ClosesBy
  <1>3. CASE /\ ~ WrongAck(c, m) /\ m.flags = {"SYN", "ACK"}
             /\ Do(n, Left(m), opened, {AckSeg(n, opened)}, {"CONNECTED"})
    <2>1. m.ack = c.snd_iss
      BY <1>3 DEF WrongAck
    <2>2. Opens(n, opened, {AckSeg(n, opened)}, {"CONNECTED"})
      BY <1>0, <1>3, <2>1 DEF Opens
    <2>3. opened \in Record
      BY <1>0 DEF Record, State
    <2>4. /\ opened.state = "OPEN" /\ opened.held = c.held /\ opened.snd_iss = c.snd_iss
          /\ opened.snd_nxt = c.snd_nxt
      BY <1>0 DEF Record
    <2> DEFINE d == opened
    <2> HIDE DEF opened
    <2>5. d.held \subseteq (d.rcv_cur + 2)..(d.rcv_cur + 2 * RcvMaxDefault) /\ d.snd_iss < d.snd_nxt
      BY <1>0, <2>4 DEF WindowOK
    <2>6. {AckSeg(n, d)} \in SUBSET Segment
      <3>1. d.snd_nxt \in Int /\ d.rcv_cur \in Int
        BY <2>3 DEF Record
      <3> QED BY <3>1, SegFacts, FlagFacts DEF AckSeg
    <2> QED BY <1>0, <1>3, <2>2, <2>3, <2>4, <2>5, <2>6, OpenBy
  <1>4. CASE /\ m.flags = {"SYN"}
             /\ Do(n, Left(m), rcvd, {Seg(n, {"SYN", "ACK"}, rcvd.snd_iss, rcvd.rcv_cur)}, {})
    <2>1. rcvd \in Record
      BY <1>0, ConnAssumption DEF Record, State
    <2>2. /\ rcvd.state = "SYN_RCVD" /\ rcvd.held = c.held /\ rcvd.snd_iss = c.snd_iss
          /\ rcvd.snd_nxt = c.snd_nxt /\ rcvd.rcv_cur = rcvd.rcv_irs /\ rcvd.unread = c.unread
      BY <1>0 DEF Record
    <2> DEFINE d == rcvd
               o == Seg(n, {"SYN", "ACK"}, d.snd_iss, d.rcv_cur)
    <2> HIDE DEF rcvd
    <2>3. {o} \in SUBSET Segment
      <3>1. d.snd_iss \in Int /\ d.rcv_cur \in Int
        BY <2>1 DEF Record
      <3> QED BY <3>1, SegFacts, FlagFacts
    <2>4. Crosses(n, d, {})
      BY <1>0, <1>4, <2>2 DEF Crosses
    <2>5. Told(n, d, {}) = told[n]
      BY <2>2 DEF Told
    <2>6. WindowOK(d, told[n])
      BY <1>0, <2>2 DEF WindowOK
    <2>7. StepKind(n, d, {o}, {})
      BY <2>4 DEF StepKind
    <2> HIDE DEF o
    <2>8. Do(n, Left(m), d, {o}, {})
      BY <1>4 DEF o
    <2> QED BY <1>0, <2>1, <2>3, <2>5, <2>6, <2>7, <2>8, ConnFacts, StepBy
  <1>5. CASE Do(n, Left(m), c, {}, {})
    <2>1. Waits(n, c, {}, {})
      BY <1>0 DEF Waits, Same
    <2> QED BY <1>0, <1>5, <2>1, WaitsBy
  <1> QED BY <1>1, <1>2, <1>3, <1>4, <1>5 DEF in_state_syn_sent

\* Data in a segment of the window is taken and acknowledged, or held.
Taken(n, before, c, seq, ev) ==
    \E d \in Record, out \in SUBSET Segment, e \in {ev, ev \cup {"READY2READ"}} :
        /\ Do(n, before, d, out, e)
        /\ d.state = c.state /\ d.is_pasv = c.is_pasv /\ d.snd_iss = c.snd_iss
        /\ d.snd_nxt = c.snd_nxt /\ d.snd_una = c.snd_una
        /\ Took(c, d, TRUE, seq)
        /\ d.held \subseteq (d.rcv_cur + 2)..(d.rcv_cur + 2 * RcvMaxDefault)
        /\ \A o \in out : o.src = n /\ o.flags \in PlainAck /\ o.ack = d.rcv_cur

\* Data in a segment: the record, the acknowledgement and the event after it.
LEMMA TakeFacts ==
    ASSUME NEW n \in Node, NEW before, NEW c \in Record,
           c.held \subseteq (c.rcv_cur + 2)..(c.rcv_cur + 2 * RcvMaxDefault),
           NEW seq \in (c.rcv_cur + 1)..(c.rcv_cur + 2 * RcvMaxDefault),
           NEW ev \in SUBSET Event, TakeData(n, before, c, seq, ev)
    PROVE  Taken(n, before, c, seq, ev)
  <1>1. PICK cur \in Int, rest \in SUBSET Int, unread \in Nat :
             /\ rwnd_recv_data(c, seq) = [c EXCEPT !.rcv_cur = cur, !.held = rest, !.unread = unread]
             /\ cur >= c.rcv_cur
             /\ (c.rcv_cur + 1)..cur \subseteq c.held \cup {seq}
             /\ rest \subseteq c.held \cup {seq}
             /\ rest \subseteq (cur + 2)..(cur + 2 * RcvMaxDefault)
    BY RwndFacts
  <1> DEFINE d == rwnd_recv_data(c, seq)
             e == IF d.unread > 0 THEN ev \cup {"READY2READ"} ELSE ev
  <1>2. /\ d \in Record /\ d.state = c.state /\ d.is_pasv = c.is_pasv /\ d.snd_iss = c.snd_iss
        /\ d.snd_nxt = c.snd_nxt /\ d.snd_una = c.snd_una
        /\ d.rcv_irs = c.rcv_irs /\ d.rcv_cur = cur /\ d.held = rest
    BY <1>1, ZenonT(60) DEF Record
  <1>3. e \in {ev, ev \cup {"READY2READ"}}
    OBVIOUS
  <1>4. \/ \E out \in DelayedAcks(n, d) : Do(n, before, [d EXCEPT !.rcv_ack = d.rcv_cur], out, e)
        \/ Do(n, before, d, {}, e)
    BY DEF TakeData
  <1> HIDE DEF d, e
  <1>5. CASE Do(n, before, d, {}, e)
    <2>1. Took(c, d, TRUE, seq)
      BY <1>1, <1>2 DEF Took
    <2>2. d.held \subseteq (d.rcv_cur + 2)..(d.rcv_cur + 2 * RcvMaxDefault)
      BY <1>1, <1>2
    <2>3. {} \in SUBSET Segment
      OBVIOUS
    <2> QED BY <1>2, <1>3, <1>5, <2>1, <2>2, <2>3 DEF Taken
  <1>6. ASSUME NEW out \in DelayedAcks(n, d), Do(n, before, [d EXCEPT !.rcv_ack = d.rcv_cur], out, e)
        PROVE  Taken(n, before, c, seq, ev)
    <2> DEFINE f == [d EXCEPT !.rcv_ack = d.rcv_cur]
    <2>1. /\ f \in Record /\ f.state = c.state /\ f.is_pasv = c.is_pasv /\ f.snd_iss = c.snd_iss
          /\ f.snd_nxt = c.snd_nxt /\ f.snd_una = c.snd_una
          /\ f.rcv_irs = c.rcv_irs /\ f.rcv_cur = cur /\ f.held = rest
      BY <1>2 DEF Record
    <2>2. Do(n, before, f, out, e)
      BY <1>6
    <2> HIDE DEF f
    <2>3. Took(c, f, TRUE, seq)
      BY <1>1, <2>1 DEF Took
    <2>4. f.held \subseteq (f.rcv_cur + 2)..(f.rcv_cur + 2 * RcvMaxDefault)
      BY <1>1, <2>1
    <2>5. out \in SUBSET Segment /\ \A o \in out : o.src = n /\ o.flags \in PlainAck /\ o.ack = f.rcv_cur
      BY <1>2, <2>1, DelayedFacts
    <2> QED BY <1>3, <2>1, <2>2, <2>3, <2>4, <2>5 DEF Taken
  <1> QED BY <1>4, <1>5, <1>6

\* A handshake that fails.
LEMMA FailStep ==
    ASSUME ConnBase, NEW n \in Node, NEW m \in net, m.src = Peer(n),
           NEW out \in SUBSET Segment, NEW e \in {"REFUSED", "RESET"}, Fail(n, m, out, e),
           Ends(n, None, out, {}), conn[n].state = "SYN_RCVD", inc' = inc, listening' = listening
    PROVE  Stepped(n)
  <1>0. Left(m) \in SUBSET net /\ {} \in SUBSET Event /\ {e} \in SUBSET Event
    BY MsgFacts DEF Event
  <1>1. CASE Do(n, Left(m), None, out, {})
    BY <1>0, <1>1, NoneOK, EndsBy
  <1>2. CASE Do(n, Left(m), [conn[n] EXCEPT !.state = "CLOSED"], out, {e})
    BY <1>0, <1>2, ClosesBy
  <1> QED BY <1>1, <1>2 DEF Fail

\* The acknowledgement of our SYN in in_state_syn_rcvd().
LEMMA EstablishStep ==
    ASSUME ConnBase, NEW n \in Node, NEW m \in net, m.src = Peer(n),
           m.flags \in {{"ACK"}, {"ACK", "DATA"}}, m.ack = conn[n].snd_iss,
           m.seq - conn[n].rcv_irs \in 1..(conn[n].rcv_cur + 2 * RcvMaxDefault - conn[n].rcv_irs),
           Establish(n, m), conn[n].state = "SYN_RCVD", inc' = inc, listening' = listening
    PROVE  Stepped(n)
  <1> DEFINE b == conn[n]
             c == [b EXCEPT !.state = "OPEN"]
             ev == IF c.is_pasv THEN {"ACCEPTED"} ELSE {}
  <1>0. Left(m) \in SUBSET net /\ {} \in SUBSET Event /\ m \in From(n) /\ b \in Record
        /\ m.seq \in Int /\ WindowOK(b, told[n]) /\ {} \in SUBSET Segment
    BY MsgFacts, ConnFacts
  <1>1. /\ c \in Record /\ c.state = "OPEN" /\ c.is_pasv = b.is_pasv /\ c.snd_iss = b.snd_iss
        /\ c.snd_nxt = b.snd_nxt /\ c.snd_una = b.snd_una /\ c.rcv_irs = b.rcv_irs
        /\ c.rcv_cur = b.rcv_cur /\ c.held = b.held
    BY <1>0 DEF Record, State
  <1>2. \/ CloseOpen(n, Left(m), c, {})
        \/ "DATA" \in m.flags /\ TakeData(n, Left(m), c, m.seq, ev)
        \/ Do(n, Left(m), c, {}, ev)
    BY DEF Establish
  <1>3. ev \in SUBSET Event /\ c.held \subseteq (c.rcv_cur + 2)..(c.rcv_cur + 2 * RcvMaxDefault)
        /\ c.snd_iss < c.snd_nxt /\ (b.is_pasv => ev = {"ACCEPTED"}) /\ (~ b.is_pasv => ev = {})
        /\ c.rcv_cur = c.rcv_irs
    BY <1>0, <1>1 DEF WindowOK, Event
  <1> HIDE DEF c, ev
  <1>4. CASE CloseOpen(n, Left(m), c, {})
    BY <1>0, <1>1, <1>4, CloseOpenStep
  <1>5. CASE "DATA" \in m.flags /\ TakeData(n, Left(m), c, m.seq, ev)
    <2>1. m.seq \in (c.rcv_cur + 1)..(c.rcv_cur + 2 * RcvMaxDefault)
      <3>1. b.rcv_irs \in Int /\ b.rcv_cur \in Int /\ RcvMaxDefault \in Nat /\ b.rcv_irs = b.rcv_cur
        BY <1>0, <1>1, <1>3, ConnAssumption DEF Record
      <3> QED BY <1>0, <1>1, <1>3, <3>1
    <2>2. PICK d \in Record, out \in SUBSET Segment, e \in {ev, ev \cup {"READY2READ"}} :
             /\ Do(n, Left(m), d, out, e)
             /\ d.state = c.state /\ d.is_pasv = c.is_pasv /\ d.snd_iss = c.snd_iss
             /\ d.snd_nxt = c.snd_nxt /\ d.snd_una = c.snd_una
             /\ Took(c, d, TRUE, m.seq)
             /\ d.held \subseteq (d.rcv_cur + 2)..(d.rcv_cur + 2 * RcvMaxDefault)
             /\ \A o \in out : o.src = n /\ o.flags \in PlainAck /\ o.ack = d.rcv_cur
      <3>1. Taken(n, Left(m), c, m.seq, ev)
        BY <1>1, <1>3, <1>5, <2>1, TakeFacts
      <3> QED BY <3>1 DEF Taken
    <2>3. Took(b, d, "DATA" \in m.flags, m.seq)
      BY <1>1, <1>5, <2>2 DEF Took
    <2>4. e \in SUBSET Event
      BY <1>3 DEF Event
    <2>5. Establishes(n, d, out, e)
      BY <1>0, <1>1, <1>3, <2>2, <2>3 DEF Establishes
    <2> QED BY <1>0, <1>1, <1>3, <2>2, <2>4, <2>5, OpenBy
  <1>6. CASE Do(n, Left(m), c, {}, ev)
    <2>1. Took(b, c, "DATA" \in m.flags, m.seq)
      BY <1>1 DEF Took
    <2>2. Establishes(n, c, {}, ev)
      BY <1>0, <1>1, <1>3, <2>1 DEF Establishes
    <2> QED BY <1>0, <1>1, <1>3, <1>6, <2>2, OpenBy
  <1> QED BY <1>2, <1>4, <1>5, <1>6

\* in_state_syn_rcvd().
LEMMA SynRcvdStep ==
    ASSUME ConnBase, NEW n \in Node, NEW m \in net, m.src = Peer(n), in_state_syn_rcvd(n, m)
    PROVE  Stepped(n)
  <1> DEFINE c == conn[n]
             acceptable == m.seq - c.rcv_irs \in 1..(c.rcv_cur + 2 * RcvMaxDefault - c.rcv_irs)
  <1>0. /\ c \in Record /\ inc' = inc /\ listening' = listening /\ c.state = "SYN_RCVD"
        /\ Left(m) \in SUBSET net /\ {} \in SUBSET Segment /\ {} \in SUBSET Event
        /\ m \in From(n) /\ m.seq \in Int /\ m.ack \in Int /\ m.flags \in SUBSET Flag
        /\ WindowOK(c, told[n]) /\ c.snd_iss \in Int /\ c.rcv_cur \in Int /\ c.snd_nxt \in Int
        /\ 0 \in Int /\ Same(c, c)
    BY ConnFacts, MsgFacts, SMTT(60) DEF in_state_syn_rcvd, Record, Same
  <1>1. CASE Do(n, Left(m), [c EXCEPT !.late = Dup], {Seg(n, {"SYN", "ACK"}, c.snd_iss, 0)}, {})
    <2> DEFINE d == [c EXCEPT !.late = Dup]
               o == Seg(n, {"SYN", "ACK"}, c.snd_iss, 0)
    <2>1. d \in Record /\ Same(c, d) /\ d.unread = c.unread
      BY <1>0, ConnAssumption DEF Record, Same
    <2>2. o \in Segment /\ Do(n, Left(m), d, {o}, {})
      BY <1>0, <1>1, SegFacts, FlagFacts
    <2> HIDE DEF d
    <2>3. Waits(n, d, {o}, {})
      BY <1>0, <2>1 DEF Waits
    <2> HIDE DEF o
    <2> QED BY <1>0, <2>1, <2>2, <2>3, WaitsBy
  <1>2. CASE Do(n, Left(m), [c EXCEPT !.rcv_ack = c.rcv_cur], {AckSeg(n, c)}, {})
    <2> DEFINE d == [c EXCEPT !.rcv_ack = c.rcv_cur]
               o == AckSeg(n, c)
    <2>1. d \in Record /\ Same(c, d) /\ d.unread = c.unread
      BY <1>0 DEF Record, Same
    <2>2. o \in Segment /\ Do(n, Left(m), d, {o}, {})
      BY <1>0, <1>2, SegFacts, FlagFacts DEF AckSeg
    <2> HIDE DEF d
    <2>3. Waits(n, d, {o}, {})
      BY <1>0, <2>1 DEF Waits
    <2> HIDE DEF o
    <2> QED BY <1>0, <2>1, <2>2, <2>3, WaitsBy
  <1>3. CASE Fail(n, m, {}, "REFUSED")
    <2>1. Ends(n, None, {}, {}) /\ "REFUSED" \in {"REFUSED", "RESET"}
      BY <1>0 DEF Ends, Dead, Ended, None
    <2> QED BY <1>0, <1>3, <2>1, FailStep
  <1>4. CASE /\ "RST" \notin m.flags /\ "SYN" \in m.flags
             /\ Fail(n, m, {Seg(n, {"RST"}, m.ack + 1, 0)}, "RESET")
    <2> DEFINE o == Seg(n, {"RST"}, m.ack + 1, 0)
    <2>1. o \in Segment /\ o.src = n /\ o.flags = {"RST"} /\ o.seq = m.ack + 1
      BY AnswerFacts
    <2> HIDE DEF o
    <2>2. Ends(n, None, {o}, {}) /\ "RESET" \in {"REFUSED", "RESET"} /\ {o} \in SUBSET Segment
      BY <1>0, <1>4, <2>1 DEF Ends, Dead, Ended, None
    <2>3. Fail(n, m, {o}, "RESET")
      BY <1>4 DEF o
    <2> QED BY <1>0, <2>2, <2>3, FailStep
  <1>5. CASE Do(n, Left(m), c, {Seg(n, {"RST"}, (m.ack % 256) + 1, 0)}, {})
    <2> DEFINE x == (m.ack % 256) + 1
               o == Seg(n, {"RST"}, x, 0)
    <2>1. x \in 1..256
      BY <1>0
    <2> HIDE DEF x
    <2>2. o \in Segment /\ o.src = n /\ o.flags = {"RST"} /\ o.seq = x
      BY <1>0, <2>1, SegFacts, FlagFacts
    <2>3. Do(n, Left(m), c, {o}, {})
      BY <1>5 DEF x
    <2> HIDE DEF o
    <2>4. Waits(n, c, {o}, {})
      BY <1>0, <2>1, <2>2 DEF Waits
    <2> QED BY <1>0, <2>2, <2>3, <2>4, WaitsBy
  <1>6. CASE m.flags \in {{"ACK"}, {"ACK", "DATA"}} /\ acceptable /\ ~ WrongAck(c, m) /\ Establish(n, m)
    <2>1. m.ack = c.snd_iss
      BY <1>6 DEF WrongAck
    <2> QED BY <1>0, <1>6, <2>1, EstablishStep
  <1>7. CASE WrongAck(c, m) /\ Do(n, Left(m), c, {Seg(n, {"RST"}, m.ack + 1, 0)}, {})
    <2> DEFINE o == Seg(n, {"RST"}, m.ack + 1, 0)
    <2>1. o \in Segment /\ o.src = n /\ Answer(n, o, m) /\ m.ack # c.snd_iss
      BY <1>7, AnswerFacts DEF WrongAck
    <2> HIDE DEF o
    <2>2. Waits(n, c, {o}, {})
      BY <1>0, <2>1 DEF Waits
    <2>3. Do(n, Left(m), c, {o}, {})
      BY <1>7 DEF o
    <2> QED BY <1>0, <2>1, <2>2, <2>3, WaitsBy
  <1>8. CASE Do(n, Left(m), c, {}, {})
    <2>1. Waits(n, c, {}, {})
      BY <1>0 DEF Waits
    <2> QED BY <1>0, <1>8, <2>1, WaitsBy
  <1> QED BY <1>1, <1>2, <1>3, <1>4, <1>5, <1>6, <1>7, <1>8 DEF in_state_syn_rcvd

\* recv_ack() moves SND.UNA up to what was acknowledged.
LEMMA AcknowledgedFacts ==
    ASSUME NEW c \in Record, NEW m, m.ack \in Int
    PROVE  LET d == Acknowledged(c, m)
           IN  /\ d \in Record /\ d.state = c.state /\ d.is_pasv = c.is_pasv
               /\ d.snd_iss = c.snd_iss /\ d.snd_nxt = c.snd_nxt /\ d.rcv_irs = c.rcv_irs
               /\ d.rcv_cur = c.rcv_cur /\ d.held = c.held
               /\ \/ d.snd_una = c.snd_una
                  \/ "ACK" \in m.flags /\ d.snd_una = m.ack /\ m.ack \in c.snd_una..(c.snd_nxt - 1)
  <1>0. c.snd_una \in Int /\ c.snd_nxt \in Int
    BY DEF Record
  <1>1. CASE "ACK" \in m.flags /\ m.ack - c.snd_una \in 0..(c.snd_nxt - c.snd_una - 1)
    <2> DEFINE d == [c EXCEPT !.snd_una = m.ack]
    <2>1. m.ack \in c.snd_una..(c.snd_nxt - 1)
      BY <1>0, <1>1
    <2>2. Acknowledged(c, m) = d
      BY <1>1 DEF Acknowledged
    <2>3. d \in Record
      BY DEF Record
    <2>4. /\ d.state = c.state /\ d.is_pasv = c.is_pasv
          /\ d.snd_iss = c.snd_iss /\ d.snd_nxt = c.snd_nxt /\ d.rcv_irs = c.rcv_irs
          /\ d.rcv_cur = c.rcv_cur /\ d.held = c.held /\ d.snd_una = m.ack
      BY DEF Record
    <2> QED BY <1>1, <2>1, <2>2, <2>3, <2>4
  <1>2. CASE ~ ("ACK" \in m.flags /\ m.ack - c.snd_una \in 0..(c.snd_nxt - c.snd_una - 1))
    BY <1>2 DEF Acknowledged
  <1> QED BY <1>1, <1>2

\* An open record that goes on, with or without data from a datagram.
LEMMA GoesOnBy ==
    ASSUME NEW n, NEW d, NEW out, NEW ev, NEW m \in From(n),
           conn[n].state = "OPEN", d.state = "OPEN", d.is_pasv = conn[n].is_pasv,
           d.snd_iss = conn[n].snd_iss, d.snd_nxt = conn[n].snd_nxt,
           Takes(n, conn[n], d, m),
           \A o \in out : o.src = n /\ o.flags \in PlainAck /\ o.ack = d.rcv_cur,
           ev \subseteq {"READY2READ"}, inc' = inc
    PROVE  GoesOn(n, d, out, ev)
  <1>1. \A o \in out : /\ o.src = n /\ o.flags \in Plain /\ o.ack = d.rcv_cur
                       /\ "DATA" \in o.flags => o.seq \in (conn[n].snd_iss + 1)..(d.snd_nxt - 1)
    BY DEF Plain, PlainAck
  <1>2. \E q \in From(n) \cup {AckSeg(n, conn[n])} : Takes(n, conn[n], d, q)
    OBVIOUS
  <1> QED BY <1>1, <1>2 DEF GoesOn

\* in_state_open().
LEMMA OpenStep ==
    ASSUME ConnBase, NEW n \in Node, NEW m \in net, m.src = Peer(n), in_state_open(n, m)
    PROVE  Stepped(n)
  <1> DEFINE c == conn[n]
  <1>0. /\ c \in Record /\ inc' = inc /\ listening' = listening /\ c.state = "OPEN"
        /\ Left(m) \in SUBSET net /\ {} \in SUBSET Segment /\ {} \in SUBSET Event
        /\ m \in From(n) /\ m.seq \in Int /\ m.ack \in Int /\ m.flags \in SUBSET Flag
        /\ WindowOK(c, told[n]) /\ c.snd_iss \in Int /\ c.rcv_cur \in Int /\ c.snd_nxt \in Int
        /\ 0 \in Int /\ {"RESET"} \in SUBSET Event
    BY ConnFacts, MsgFacts DEF in_state_open, Record, Event
  <1>1. CASE Do(n, Left(m), [c EXCEPT !.rcv_ack = c.rcv_cur], {AckSeg(n, c)}, {})
    <2> DEFINE d == [c EXCEPT !.rcv_ack = c.rcv_cur]
               o == AckSeg(n, c)
    <2>1. d \in Record /\ Same(c, d)
      BY <1>0 DEF Record, Same
    <2>2. o \in Segment /\ o.src = n /\ o.flags = {"ACK"} /\ o.ack = c.rcv_cur /\ Do(n, Left(m), d, {o}, {})
      BY <1>0, <1>1, SegFacts, FlagFacts DEF AckSeg
    <2> HIDE DEF d, o
    <2>3. \A q \in {o} : /\ q.src = n /\ q.flags \in Plain /\ q.ack = d.rcv_cur
                         /\ "DATA" \in q.flags => q.seq \in (conn[n].snd_iss + 1)..(d.snd_nxt - 1)
      BY <2>1, <2>2 DEF Same, Plain, PlainAck
    <2>4. {o} \in SUBSET Segment
      BY <2>2
    <2> QED BY <1>0, <2>1, <2>2, <2>3, <2>4, AckOnly
  <1>2. ASSUME NEW acks \in DelayedAcks(n, c), InWindow(c, m.seq), "RST" \in m.flags,
               Do(n, Left(m),
                  [c EXCEPT !.state = "CLOSE_WAIT_PASV", !.rcv_ack = c.rcv_cur,
                            !.tout = 1, !.late = Dup, !.is_retry_rst = TRUE],
                  acks \cup {Seg(n, {"RST", "FIN"}, c.snd_nxt, 0)}, {"RESET"})
        PROVE  Stepped(n)
    <2> DEFINE d == [c EXCEPT !.state = "CLOSE_WAIT_PASV", !.rcv_ack = c.rcv_cur,
                              !.tout = 1, !.late = Dup, !.is_retry_rst = TRUE]
               rst == Seg(n, {"RST", "FIN"}, c.snd_nxt, 0)
               out == acks \cup {rst}
    <2>1. /\ d \in Record /\ d.state = "CLOSE_WAIT_PASV" /\ d.is_pasv = c.is_pasv
          /\ d.snd_iss = c.snd_iss /\ d.snd_nxt = c.snd_nxt /\ d.snd_una = c.snd_una
          /\ d.rcv_cur = c.rcv_cur /\ d.held = c.held
      BY <1>0, ConnAssumption DEF Record, State
    <2>2. rst \in Segment /\ rst.src = n /\ rst.flags = {"RST", "FIN"} /\ rst.seq = c.snd_nxt
      BY <1>0, SegFacts, FlagFacts
    <2>3. acks \in SUBSET Segment /\ \A o \in acks : o.src = n /\ o.flags \in PlainAck /\ o.ack = c.rcv_cur
      BY <1>0, DelayedFacts
    <2>4. Do(n, Left(m), d, out, {"RESET"})
      BY <1>2
    <2> HIDE DEF d, rst
    <2>5. out \in SUBSET Segment
      BY <2>2, <2>3
    <2>6. Ends(n, d, out, {"RESET"})
      <3>1. \E q \in From(n) : {"RST", "SYN"} \cap q.flags # {} /\ InWindow(c, q.seq)
        BY <1>0, <1>2
      <3>2. \A o \in out :
               \/ o.src = n /\ o.flags \in PlainAck /\ o.ack = c.rcv_cur
               \/ o.src = n /\ o.flags \in {{"RST"}, {"RST", "FIN"}} /\ o.seq = c.snd_nxt
        BY <2>2, <2>3
      <3> HIDE DEF out
      <3> QED BY <1>0, <2>1, <3>1, <3>2 DEF Ends, Dead, Ended
    <2> HIDE DEF out
    <2> QED BY <1>0, <2>1, <2>4, <2>5, <2>6, EndsBy
  <1>3. CASE /\ InWindow(c, m.seq) /\ "SYN" \in m.flags
             /\ Do(n, Left(m), [c EXCEPT !.state = "CLOSED"], {}, {"RESET"})
    <2>1. \E q \in From(n) : {"RST", "SYN"} \cap q.flags # {} /\ InWindow(c, q.seq)
      BY <1>0, <1>3
    <2> QED BY <1>0, <1>3, <2>1, ClosesBy
  <1>4. CASE /\ InWindow(c, m.seq) /\ {"RST", "SYN"} \cap m.flags = {}
             /\ IF "DATA" \in m.flags
                THEN TakeData(n, Left(m), Acknowledged(c, m), m.seq, {})
                ELSE Do(n, Left(m), Acknowledged(c, m), {}, {})
    <2> DEFINE a == Acknowledged(c, m)
    <2>1. /\ a \in Record /\ a.state = c.state /\ a.is_pasv = c.is_pasv
          /\ a.snd_iss = c.snd_iss /\ a.snd_nxt = c.snd_nxt /\ a.rcv_irs = c.rcv_irs
          /\ a.rcv_cur = c.rcv_cur /\ a.held = c.held
          /\ \/ a.snd_una = c.snd_una
             \/ "ACK" \in m.flags /\ a.snd_una = m.ack /\ m.ack \in c.snd_una..(c.snd_nxt - 1)
      BY <1>0, AcknowledgedFacts
    <2> HIDE DEF a
    <2>2. m.seq \in (a.rcv_cur + 1)..(a.rcv_cur + 2 * RcvMaxDefault)
      BY <1>0, <1>4, <2>1, ConnAssumption, SMTT(60) DEF InWindow
    <2>3. a.held \subseteq (a.rcv_cur + 2)..(a.rcv_cur + 2 * RcvMaxDefault) /\ a.snd_iss < a.snd_nxt
      BY <1>0, <2>1 DEF WindowOK
    <2>4. CASE "DATA" \in m.flags /\ TakeData(n, Left(m), a, m.seq, {})
      <3>1. Taken(n, Left(m), a, m.seq, {})
        BY <1>0, <2>1, <2>2, <2>3, <2>4, TakeFacts
      <3>2. PICK d \in Record, out \in SUBSET Segment, e \in {{}, {} \cup {"READY2READ"}} :
                /\ Do(n, Left(m), d, out, e)
                /\ d.state = a.state /\ d.is_pasv = a.is_pasv /\ d.snd_iss = a.snd_iss
                /\ d.snd_nxt = a.snd_nxt /\ d.snd_una = a.snd_una
                /\ Took(a, d, TRUE, m.seq)
                /\ d.held \subseteq (d.rcv_cur + 2)..(d.rcv_cur + 2 * RcvMaxDefault)
                /\ \A o \in out : o.src = n /\ o.flags \in PlainAck /\ o.ack = d.rcv_cur
        BY <3>1 DEF Taken
      <3>3. Took(c, d, m \in From(n) /\ "DATA" \in m.flags, m.seq)
        BY <1>0, <2>1, <2>4, <3>2 DEF Took
      <3>5. GoesOn(n, d, out, e)
        <4>1. e \subseteq {"READY2READ"}
          OBVIOUS
        <4>2. Takes(n, c, d, m)
          <5>1. d.snd_una = a.snd_una
            BY <3>2
          <5>2. m.flags \cap {"RST", "SYN"} = {}
            BY <1>4
          <5> QED BY <1>0, <2>1, <3>3, <5>1, <5>2 DEF Takes
        <4>3. d.state = "OPEN" /\ d.is_pasv = c.is_pasv /\ d.snd_iss = c.snd_iss /\ d.snd_nxt = c.snd_nxt
          BY <1>0, <2>1, <3>2
        <4> QED BY <1>0, <3>2, <4>1, <4>2, <4>3, GoesOnBy
      <3>6. e \in SUBSET Event
        BY DEF Event
      <3> QED BY <1>0, <2>1, <2>3, <3>2, <3>5, <3>6, OpenBy
    <2>5. CASE Do(n, Left(m), a, {}, {})
      <3>1. Took(c, a, m \in From(n) /\ "DATA" \in m.flags, m.seq)
        BY <2>1 DEF Took
      <3>3. Takes(n, c, a, m)
        BY <1>0, <1>4, <2>1, <3>1 DEF Takes
      <3>2. GoesOn(n, a, {}, {})
        BY <1>0, <2>1, <3>3 DEF GoesOn
      <3> QED BY <1>0, <2>1, <2>3, <2>5, <3>2, OpenBy
    <2> QED BY <1>4, <2>4, <2>5 DEF a
  <1> QED BY <1>1, <1>2, <1>3, <1>4 DEF in_state_open

\* Every step is listen(), its undoing or a step of one node of one of the kinds.
LEMMA StepKinds ==
    ASSUME ConnBase, [ConnNext]_connvars
    PROVE  \/ UNCHANGED <<conn, inc, told, net>> /\ listening' \in [Node -> BOOLEAN]
           \/ \E n \in Node : Stepped(n)
  <1>1. CASE UNCHANGED connvars
    BY <1>1 DEF connvars, ConnBase, ConnTypeOK
  <1>2. CASE ConnNext
    <2>1. PICK n \in Node :
            \/ connect(n) \/ listen(n) \/ close_listening(n) \/ close(n)
            \/ send(n) \/ receive(n)
            \/ Timer(n) \/ OpenTimer(n)
            \/ input_dgram(n)
      BY <1>2 DEF ConnNext
    <2>2. CASE listen(n) \/ close_listening(n)
      BY <2>2 DEF listen, close_listening, ConnBase, ConnTypeOK
    <2>3. CASE Timer(n)
      BY <2>3, ElapseStep, SynTimerStep, RstTimerStep DEF Timer
    <2>4. CASE input_dgram(n)
      <3>1. PICK m \in net : /\ m.src = Peer(n)
                             /\ \/ in_state_close_wait_active(n, m)
                                \/ in_state_close_wait_pasv(n, m)
                                \/ in_state_closed(n, m)
                                \/ in_state_listen(n, m)
                                \/ in_state_syn_sent(n, m)
                                \/ in_state_syn_rcvd(n, m)
                                \/ in_state_open(n, m)
        BY <2>4 DEF input_dgram
      <3> QED BY <3>1, CloseWaitActiveStep, CloseWaitPasvStep, ClosedStep, ListenStep, SynSentStep,
                 SynRcvdStep, OpenStep
    <2> QED BY <2>1, <2>2, <2>3, <2>4, ConnectStep, CloseStep, SendStep, ReceiveStep, OpenTimerStep
  <1> QED BY <1>1, <1>2

\* At the start there is no record.
LEMMA BaseInit == ConnInit => ConnBase
  BY NoneOK, ConnAssumption DEF ConnInit, ConnBase, ConnTypeOK

\* Every step keeps the types, the windows and the events in order.
LEMMA BaseStep == ConnBase /\ [ConnNext]_connvars => ConnBase'
  <1> SUFFICES ASSUME ConnBase, [ConnNext]_connvars PROVE ConnBase'
    OBVIOUS
  <1>1. CASE UNCHANGED <<conn, inc, told, net>> /\ listening' \in [Node -> BOOLEAN]
    BY <1>1 DEF ConnBase, ConnTypeOK, WindowOK
  <1>2. ASSUME NEW n \in Node, Stepped(n) PROVE ConnBase'
    BY <1>2, DoBase DEF Stepped
  <1> QED BY <1>1, <1>2, StepKinds

\* Every handler, call and timer of rdp keeps the records, the events and the datagrams
\* in their types, for any numbers of records, segments and retries.
THEOREM ConnTypes == ConnSpec => []ConnTypeOK
  <1>1. ConnBase => ConnTypeOK
    BY DEF ConnBase
  <1> QED BY <1>1, BaseInit, BaseStep, PTL DEF ConnSpec

\* Nodes other than the one that takes a step keep their records.
LEMMA OthersKeep ==
    ASSUME ConnBase, NEW n \in Node, Stepped(n), NEW o \in Node, o # n
    PROVE  conn'[o] = conn[o] /\ told'[o] = told[o] /\ inc'[o] = inc[o]
  <1>1. conn \in [Node -> Record] /\ told \in [Node -> SUBSET Event] /\ inc \in [Node -> Nat]
    BY DEF ConnBase, ConnTypeOK
  <1>2. PICK before \in SUBSET net, d \in Record, out \in SUBSET Segment, ev \in SUBSET Event :
          Do(n, before, d, out, ev) /\ StepKind(n, d, out, ev)
    BY DEF Stepped
  <1>3. conn'[o] = conn[o] /\ told'[o] = told[o]
    BY <1>1, <1>2, SMTT(60) DEF Do
  <1>4. inc' = inc \/ inc' = [inc EXCEPT ![n] = @ + 1]
    BY <1>2, Zenon DEF StepKind, Connects, Accepts, Waits, Crosses, Opens, Establishes, GoesOn, Ends
  <1> QED BY <1>1, <1>3, <1>4

\* One step of a record whose application has been told of its end.
EndsOnceAt(n) ==
    told[n] \cap Terminal # {} /\ inc'[n] = inc[n] =>
          /\ told'[n] \in {told[n], {}}
          /\ conn'[n].state \in {"CLOSE_WAIT_PASV", "CLOSED", "NONE"}
          /\ conn'[n].state # "NONE" => conn'[n].rcv_cur = conn[n].rcv_cur

\* EndsOnce for one node.
LEMMA EndsOnceStep ==
    ASSUME ConnBase, [ConnNext]_connvars, NEW n \in Node PROVE EndsOnceAt(n)
  <1> SUFFICES ASSUME told[n] \cap Terminal # {}
               PROVE  /\ told'[n] \in {told[n], {}}
                      /\ conn'[n].state \in {"CLOSE_WAIT_PASV", "CLOSED", "NONE"}
                      /\ conn'[n].state # "NONE" => conn'[n].rcv_cur = conn[n].rcv_cur
    BY DEF EndsOnceAt
  <1>1. conn[n].state \in {"CLOSE_WAIT_PASV", "CLOSED"}
    BY ConnFacts DEF WindowOK
  <1>2. CASE UNCHANGED <<conn, inc, told, net>>
    BY <1>1, <1>2
  <1>3. ASSUME NEW k \in Node, Stepped(k), k # n PROVE conn'[n] = conn[n] /\ told'[n] = told[n]
    BY <1>3, OthersKeep
  <1>4. CASE Stepped(n)
    <2>1. PICK before \in SUBSET net, d \in Record, out \in SUBSET Segment, ev \in SUBSET Event :
            Do(n, before, d, out, ev) /\ StepKind(n, d, out, ev)
      BY <1>4, SMTT(60) DEF Stepped
    <2>2. Ends(n, d, out, ev)
      BY <1>1, <2>1, Zenon DEF StepKind, Connects, Accepts, Waits, Crosses, Opens, Establishes, GoesOn
    <2>3. /\ d.state \in Ended /\ ev = {}
          /\ d = None \/ d.rcv_cur = conn[n].rcv_cur
      BY <1>1, <2>2 DEF Ends
    <2>4. conn'[n] = d /\ told'[n] = IF d.state = "NONE" THEN {} ELSE told[n] \cup ev
      BY <2>1 DEF Do, ConnBase, ConnTypeOK
    <2> QED BY <2>3, <2>4 DEF Ended, None
  <1> QED BY <1>1, <1>2, <1>3, <1>4, StepKinds

\* An application is told at most once that its connection has ended (REFUSED, RESET,
\* FAILED or BROKEN of invoke_event()); the record takes no data after that and does not
\* come back to life.  This needs no assumption on the numbers.
THEOREM ConnEndsOnce == ConnSpec => EndsOnce
  <1>1. ConnBase /\ [ConnNext]_connvars => [\A n \in Node : EndsOnceAt(n)]_connvars
    BY EndsOnceStep
  <1>2. EndsOnce <=> [][\A n \in Node : EndsOnceAt(n)]_connvars
    BY DEF EndsOnce, EndsOnceAt
  <1> QED BY <1>1, <1>2, BaseInit, BaseStep, PTL DEF ConnSpec

-----------------------------------------------------------------------------
(* Connections: what the two ends know of each other. *)

Live(n) == conn[n].state \in {"SYN_SENT", "SYN_RCVD", "OPEN"}

\* The numbers that the i-th record of n may give its segments.
Nums(n, i) == IssOf[n][i]..(IssOf[n][i] + MaxData[n])

\* As far as record i has come: a record that is not the last, or is over, may have
\* used all its numbers.
Reached(n, i, x) == i = inc[n] /\ Live(n) => x < conn[n].snd_nxt

\* x is a number that node n has used: in any segment, for data, in a SYN.
Used(n, x) == \E i \in 1..inc[n] : x \in Nums(n, i) /\ Reached(n, i, x)
UsedData(n, x) ==
    \E i \in 1..inc[n] : x \in (IssOf[n][i] + 1)..(IssOf[n][i] + MaxData[n]) /\ Reached(n, i, x)
UsedIss(n, x) == \E i \in 1..inc[n] : x = IssOf[n][i]

\* The number of a reset of n: it belongs to a record that is over, or to none.
Low(n) == IF n \in Clients THEN 1 ELSE 256
Over(n, x) == \/ x \in 0..Low(n)
              \/ \E i \in 1..inc[n] : x - 1 \in Nums(n, i) /\ (i = inc[n] => ~ Live(n))

\* Every datagram under way carries numbers that were used.
SynOK(m) == m.flags = {"SYN"} /\ m.src \in Clients /\ UsedIss(m.src, m.seq) /\ m.ack = 0
SynAckOK(m) == /\ m.flags = {"SYN", "ACK"} /\ m.src \notin Clients /\ UsedIss(m.src, m.seq)
               /\ m.ack = 0 \/ UsedIss(Peer(m.src), m.ack)
PlainOK(m) == /\ m.flags \in Plain /\ Used(Peer(m.src), m.ack)
              /\ "DATA" \in m.flags => UsedData(m.src, m.seq)
ResetOK(m) == /\ m.flags \in {{"RST"}, {"RST", "FIN"}, {"RST", "ACK"}} /\ Over(m.src, m.seq)
MsgOK(m) == SynOK(m) \/ SynAckOK(m) \/ PlainOK(m) \/ ResetOK(m) \/ m.flags = {"FIN"}

\* What a record has sent, ...
SendOK(n) ==
    LET c == conn[n]
    IN  /\ c.state = "SYN_SENT" => n \in Clients
        /\ c.state = "SYN_RCVD" => n \notin Clients
        /\ c.state # "NONE" =>
             /\ inc[n] > 0 /\ (n \in Clients \/ Peer(n) \in Clients)
             /\ c.snd_iss = IssOf[n][inc[n]]
             /\ c.is_pasv <=> n \notin Clients
             /\ c.snd_una \in c.snd_iss..(c.snd_nxt - 1)
             /\ c.snd_nxt - 1 \in Nums(n, inc[n])
        /\ c.state \in {"SYN_SENT", "SYN_RCVD"} => c.snd_nxt = c.snd_iss + 1

\* ... and what it has received from p.
Recvs(p, c) ==
    /\ UsedIss(p, c.rcv_irs)
    /\ c.rcv_cur \in c.rcv_irs..(c.rcv_irs + MaxData[p])
    /\ Used(p, c.rcv_cur)
    /\ \A x \in c.held : UsedData(p, x)

RecvOK(n) == conn[n].state \in {"SYN_RCVD", "OPEN"} => Recvs(Peer(n), conn[n])

Numbered == /\ \A m \in net : MsgOK(m)
            /\ \A n \in Node : inc[n] <= Len(IssOf[n]) /\ SendOK(n) /\ RecvOK(n)

\* The initial numbers are above those of resets that have none.
LEMMA IssFacts ==
    ASSUME IssApart, NEW n \in Node, NEW i \in 1..Len(IssOf[n])
    PROVE  IssOf[n][i] \in Nat /\ IssOf[n][i] >= Low(n) /\ Low(n) \in {1, 256} /\ MaxData[n] \in Nat
  <1>1. IssOf[n] \in Seq(Nat) /\ MaxData[n] \in Nat
    BY ConnAssumption
  <1>2. i \in DOMAIN IssOf[n] /\ IssOf[n][i] \in Nat
    BY <1>1
  <1> QED BY <1>1, <1>2 DEF IssApart, Low

\* No two records of a node share a number, ...
LEMMA NumsApart ==
    ASSUME IssApart, NEW n \in Node, NEW i \in 1..Len(IssOf[n]), NEW j \in 1..Len(IssOf[n]),
           NEW x \in Nums(n, i), x \in Nums(n, j)
    PROVE  i = j
  <1>1. IssOf[n][i] \in Nat /\ IssOf[n][j] \in Nat /\ MaxData[n] \in Nat /\ RcvMaxDefault \in Nat
    BY IssFacts, ConnAssumption
  <1>2. /\ i \in DOMAIN IssOf[n] /\ j \in DOMAIN IssOf[n] /\ i \in Int /\ j \in Int
    BY ConnAssumption
  <1> DEFINE u == IssOf[n][i]
             v == IssOf[n][j]
             k == MaxData[n]
  <1>3. /\ i < j => v > u + k \/ u > v + k + 2 * RcvMaxDefault
        /\ j < i => u > v + k \/ v > u + k + 2 * RcvMaxDefault
    BY <1>2 DEF IssApart
  <1>4. x \in u..(u + k) /\ x \in v..(v + k)
    BY DEF Nums
  <1> HIDE DEF u, v, k
  <1>5. u \in Nat /\ v \in Nat /\ k \in Nat
    BY <1>1 DEF u, v, k
  <1> QED BY <1>1, <1>2, <1>3, <1>4, <1>5

\* ... and the number that follows those of a record is nobody's data.
LEMMA DataEnds ==
    ASSUME IssApart, NEW n \in Node, NEW i \in 1..Len(IssOf[n]), inc[n] <= Len(IssOf[n]), inc[n] \in Nat
    PROVE  ~ UsedData(n, IssOf[n][i] + MaxData[n] + 1)
  <1> SUFFICES ASSUME NEW j \in 1..inc[n],
                      IssOf[n][i] + MaxData[n] + 1 \in (IssOf[n][j] + 1)..(IssOf[n][j] + MaxData[n])
               PROVE  FALSE
    BY DEF UsedData
  <1>0. Len(IssOf[n]) \in Nat /\ DOMAIN IssOf[n] = 1..Len(IssOf[n])
    BY ConnAssumption
  <1>1. j \in 1..Len(IssOf[n])
    BY <1>0
  <1>2. IssOf[n][i] \in Nat /\ IssOf[n][j] \in Nat /\ MaxData[n] \in Nat /\ RcvMaxDefault \in Nat
    BY <1>1, IssFacts, ConnAssumption
  <1> DEFINE u == IssOf[n][i]
             v == IssOf[n][j]
             k == MaxData[n]
  <1>3. /\ i < j => v > u + k \/ u > v + k + 2 * RcvMaxDefault
        /\ j < i => u > v + k \/ v > u + k + 2 * RcvMaxDefault
    BY <1>0, <1>1 DEF IssApart
  <1>4. u + k + 1 \in (v + 1)..(v + k) /\ (i = j => u = v)
    OBVIOUS
  <1>5. u \in Nat /\ v \in Nat /\ k \in Nat /\ i \in Int /\ j \in Int
    BY <1>0, <1>1, <1>2
  <1> HIDE DEF u, v, k
  <1> QED BY <1>2, <1>3, <1>4, <1>5

\* The records of a node go forward.
Grows(n) ==
    /\ inc[n] \in Nat /\ inc'[n] \in Nat
    /\ conn[n].snd_nxt \in Int /\ conn'[n].snd_nxt \in Int
    /\ \/ inc'[n] > inc[n]
       \/ /\ inc'[n] = inc[n]
          /\ Live(n)' => Live(n) /\ conn'[n].snd_nxt >= conn[n].snd_nxt

\* A number that was used stays used.
LEMMA UsedGrows ==
    ASSUME NEW n \in Node, Grows(n), NEW x \in Int
    PROVE  /\ Used(n, x) => Used(n, x)'
           /\ UsedData(n, x) => UsedData(n, x)'
           /\ UsedIss(n, x) => UsedIss(n, x)'
           /\ Over(n, x) => Over(n, x)'
  <1>0. /\ inc[n] \in Nat /\ inc'[n] \in Nat /\ inc'[n] >= inc[n]
        /\ conn[n].snd_nxt \in Int /\ conn'[n].snd_nxt \in Int
    BY DEF Grows
  <1>1. ASSUME NEW i \in 1..inc[n]
        PROVE  /\ i \in 1..inc'[n]
               /\ Reached(n, i, x) => Reached(n, i, x)'
               /\ (i = inc[n] => ~ Live(n)) => (i = inc'[n] => ~ Live(n)')
    BY <1>0, <1>1 DEF Grows, Reached
  <1>2. Used(n, x) => Used(n, x)'
    BY <1>1 DEF Used, Nums
  <1>3. UsedData(n, x) => UsedData(n, x)'
    BY <1>1 DEF UsedData
  <1>4. UsedIss(n, x) => UsedIss(n, x)'
    BY <1>1 DEF UsedIss
  <1>5. Over(n, x) => Over(n, x)'
    BY <1>1 DEF Over, Nums, Low
  <1> QED BY <1>2, <1>3, <1>4, <1>5

\* A datagram under way stays one that may have been sent.
LEMMA MsgGrows ==
    ASSUME NEW m \in Segment, MsgOK(m), \A n \in Node : Grows(n)
    PROVE  MsgOK(m)'
  <1>1. m.src \in Node /\ Peer(m.src) \in Node /\ m.seq \in Int /\ m.ack \in Int
    BY PeerFacts DEF Segment
  <1>2. Peer(m.src)' = Peer(m.src)
    BY DEF Peer
  <1>3. SynOK(m) => SynOK(m)'
    BY <1>1, UsedGrows DEF SynOK
  <1>4. SynAckOK(m) => SynAckOK(m)'
    BY <1>1, <1>2, UsedGrows DEF SynAckOK
  <1>5. PlainOK(m) => PlainOK(m)'
    BY <1>1, <1>2, UsedGrows DEF PlainOK
  <1>6. ResetOK(m) => ResetOK(m)'
    BY <1>1, UsedGrows DEF ResetOK
  <1> QED BY <1>3, <1>4, <1>5, <1>6 DEF MsgOK

\* A step of node n, seen from both nodes.
Step(n, d, out, ev) ==
    /\ conn'[n] = d /\ told'[n] = Told(n, d, ev) /\ WindowOK(d, told'[n])
    /\ net' \subseteq net \cup out /\ inc' \in [Node -> Nat]
    /\ conn'[Peer(n)] = conn[Peer(n)] /\ told'[Peer(n)] = told[Peer(n)] /\ inc'[Peer(n)] = inc[Peer(n)]
    /\ StepKind(n, d, out, ev)

\* A step of one node leaves the other alone.
LEMMA SteppedStep ==
    ASSUME ConnBase, NEW n \in Node, Stepped(n)
    PROVE  \E d \in Record, out \in SUBSET Segment, ev \in SUBSET Event : Step(n, d, out, ev)
  <1>1. PICK before \in SUBSET net, d \in Record, out \in SUBSET Segment, ev \in SUBSET Event :
          /\ Do(n, before, d, out, ev)
          /\ WindowOK(d, Told(n, d, ev))
          /\ StepKind(n, d, out, ev)
          /\ inc' \in [Node -> Nat]
    BY DEF Stepped
  <1>2. /\ conn'[Peer(n)] = conn[Peer(n)] /\ told'[Peer(n)] = told[Peer(n)]
        /\ inc'[Peer(n)] = inc[Peer(n)]
    BY PeerFacts, OthersKeep
  <1>3. conn'[n] = d /\ told'[n] = Told(n, d, ev) /\ net' = before \cup out
    BY <1>1 DEF Do, Told, ConnBase, ConnTypeOK
  <1>4. net' \subseteq net \cup out
    BY <1>3
  <1>5. Step(n, d, out, ev)
    BY <1>1, <1>2, <1>3, <1>4 DEF Step
  <1> QED BY <1>5

\* The number of a SYN was used.
LEMMA UsedIssUsed ==
    ASSUME ConnBase, Numbered, IssApart, NEW n \in Node, NEW x, UsedIss(n, x)
    PROVE  Used(n, x) /\ x \in Nat
  <1>1. PICK i \in 1..inc[n] : x = IssOf[n][i]
    BY DEF UsedIss
  <1>2. inc[n] \in Nat /\ inc[n] <= Len(IssOf[n]) /\ SendOK(n) /\ WindowOK(conn[n], told[n])
        /\ Len(IssOf[n]) \in Nat
    BY ConnFacts, ConnAssumption DEF Numbered
  <1>3. i \in 1..Len(IssOf[n])
    BY <1>2
  <1>4. x \in Nat /\ x \in Nums(n, i)
    <2>1. IssOf[n][i] \in Nat /\ MaxData[n] \in Nat
      BY <1>3, IssFacts
    <2> QED BY <1>1, <2>1 DEF Nums
  <1>5. Reached(n, i, x)
    BY <1>1, <1>2 DEF Reached, Live, SendOK, WindowOK
  <1> QED BY <1>4, <1>5 DEF Used

\* A datagram that arrives is one that the peer may have sent.
LEMMA FromFacts ==
    ASSUME ConnBase, Numbered, NEW n \in Node, NEW m \in From(n)
    PROVE  /\ m \in Segment /\ MsgOK(m) /\ m.src = Peer(n) /\ Peer(m.src) = n
           /\ m.flags = {"SYN"} => SynOK(m)
           /\ m.flags = {"SYN", "ACK"} => SynAckOK(m)
           /\ "ACK" \in m.flags /\ {"RST", "SYN"} \cap m.flags = {} => PlainOK(m)
           /\ "DATA" \in m.flags => PlainOK(m)
           /\ "ACK" \in m.flags /\ "RST" \notin m.flags => PlainOK(m) \/ SynAckOK(m)
           /\ "SYN" \in m.flags => SynOK(m) \/ SynAckOK(m)
           /\ {"RST", "SYN"} \cap m.flags # {} => SynOK(m) \/ SynAckOK(m) \/ ResetOK(m)
  <1>1. m \in Segment /\ MsgOK(m) /\ m.src = Peer(n) /\ Peer(m.src) = n
    BY PeerFacts, ConnFacts DEF From, Numbered
  <1>2. CASE SynOK(m)
    BY <1>1, <1>2 DEF SynOK
  <1>3. CASE SynAckOK(m)
    BY <1>1, <1>3 DEF SynAckOK
  <1>4. CASE PlainOK(m)
    BY <1>1, <1>4 DEF PlainOK, Plain, PlainAck
  <1>5. CASE ResetOK(m)
    BY <1>1, <1>5 DEF ResetOK
  <1>6. CASE m.flags = {"FIN"}
    BY <1>1, <1>6
  <1> QED BY <1>1, <1>2, <1>3, <1>4, <1>5, <1>6 DEF MsgOK

\* The steps of a client.
LEMMA ClientKinds ==
    ASSUME ConnBase, Numbered, ClientServer, NEW n \in Node, n \in Clients,
           NEW d, NEW out, NEW ev, StepKind(n, d, out, ev)
    PROVE  \/ Connects(n, d, out, ev)
           \/ Waits(n, d, out, ev) /\ conn[n].state = "SYN_SENT"
           \/ Opens(n, d, out, ev) \/ GoesOn(n, d, out, ev) \/ Ends(n, d, out, ev)
  <1>1. Peer(n) \notin Clients /\ SendOK(n)
    BY DEF ClientServer, Numbered
  <1>2. conn[n].state # "SYN_RCVD"
    BY <1>1 DEF SendOK
  <1>3. ASSUME NEW m \in From(n) PROVE m.flags # {"SYN"}
    BY <1>1, FromFacts DEF SynOK
  <1> QED BY <1>2, <1>3, Zenon DEF StepKind, Accepts, Waits, Crosses, Establishes

\* The steps of a server.
LEMMA ServerKinds ==
    ASSUME ConnBase, Numbered, ClientServer, NEW n \in Node, n \notin Clients,
           NEW d, NEW out, NEW ev, StepKind(n, d, out, ev)
    PROVE  \/ Accepts(n, d, out, ev)
           \/ Waits(n, d, out, ev) /\ conn[n].state = "SYN_RCVD"
           \/ Establishes(n, d, out, ev) \/ GoesOn(n, d, out, ev) \/ Ends(n, d, out, ev)
  <1>1. conn[n].state # "SYN_SENT"
    BY DEF Numbered, SendOK
  <1> QED BY <1>1, Zenon DEF StepKind, Connects, Waits, Crosses, Opens

\* No step takes a record back.
LEMMA GrowsStep ==
    ASSUME ConnBase, Numbered, ClientServer, NEW n \in Node, NEW d \in Record, NEW out \in SUBSET Segment,
           NEW ev \in SUBSET Event, Step(n, d, out, ev), NEW o \in Node
    PROVE  Grows(o)
  <1>1. conn[o] \in Record /\ inc \in [Node -> Nat] /\ conn[n] \in Record /\ inc' \in [Node -> Nat]
    BY ConnFacts DEF Step
  <1>2. CASE o = Peer(n)
    <2>1. conn'[o] = conn[o] /\ inc'[o] = inc[o]
      BY <1>2 DEF Step
    <2>2. conn[o].snd_nxt \in Int /\ inc[o] \in Nat
      BY <1>1 DEF Record
    <2> QED BY <2>1, <2>2 DEF Grows, Live
  <1>3. CASE o = n
    <2>0. conn'[n] = d /\ StepKind(n, d, out, ev) /\ d.snd_nxt \in Int /\ conn[n].snd_nxt \in Int
          /\ inc[n] \in Nat /\ inc'[n] \in Nat
      BY <1>1 DEF Step, Record
    <2>1. CASE Connects(n, d, out, ev) \/ Accepts(n, d, out, ev)
      <3>1. inc' = [inc EXCEPT ![n] = @ + 1]
        BY <2>1 DEF Connects, Accepts
      <3>2. inc'[n] > inc[n]
        BY <1>1, <3>1
      <3> QED BY <1>3, <2>0, <3>2 DEF Grows
    <2>2. CASE Waits(n, d, out, ev)
      BY <1>3, <2>0, <2>2 DEF Grows, Waits, Same, Live
    <2>3. CASE Opens(n, d, out, ev)
      <3>1. inc' = inc /\ conn[n].state = "SYN_SENT" /\ d.snd_nxt = conn[n].snd_nxt
        BY <1>1, <2>3 DEF Opens, Record
      <3> QED BY <1>3, <2>0, <3>1 DEF Grows, Live
    <2>4. CASE Establishes(n, d, out, ev)
      BY <1>3, <2>0, <2>4 DEF Grows, Establishes, Live
    <2>5. CASE GoesOn(n, d, out, ev)
      BY <1>3, <2>0, <2>5 DEF Grows, GoesOn, Live
    <2>6. CASE Ends(n, d, out, ev)
      BY <1>3, <2>0, <2>6 DEF Grows, Ends, Dead, Live
    <2> QED BY <2>0, <2>1, <2>2, <2>3, <2>4, <2>5, <2>6, ClientKinds, ServerKinds
  <1> QED BY <1>2, <1>3, PeerFacts

\* The numbers of a record.
LEMMA SendFacts ==
    ASSUME ConnBase, Numbered, IssApart, NEW n \in Node, conn[n].state # "NONE"
    PROVE  LET c == conn[n]
           IN  /\ inc[n] \in Nat /\ inc[n] \in 1..Len(IssOf[n]) /\ inc[n] > 0
               /\ n \in Clients \/ Peer(n) \in Clients
               /\ c.snd_iss = IssOf[n][inc[n]] /\ c.snd_iss \in Nat /\ c.snd_iss >= Low(n) /\ c.snd_iss >= 1
               /\ (c.is_pasv <=> n \notin Clients)
               /\ c.snd_una \in Int /\ c.snd_nxt \in Int
               /\ c.snd_una \in c.snd_iss..(c.snd_nxt - 1)
               /\ c.snd_nxt - 1 \in c.snd_iss..(c.snd_iss + MaxData[n])
               /\ Nums(n, inc[n]) = c.snd_iss..(c.snd_iss + MaxData[n]) /\ MaxData[n] \in Nat
               /\ c.state \in {"SYN_SENT", "SYN_RCVD"} => c.snd_nxt = c.snd_iss + 1 /\ c.snd_una = c.snd_iss
  <1>1. SendOK(n) /\ inc[n] <= Len(IssOf[n]) /\ inc[n] \in Nat /\ conn[n] \in Record /\ Len(IssOf[n]) \in Nat
    BY ConnFacts, ConnAssumption DEF Numbered
  <1>2. inc[n] > 0 /\ inc[n] \in 1..Len(IssOf[n])
    BY <1>1 DEF SendOK
  <1>3. IssOf[n][inc[n]] \in Nat /\ IssOf[n][inc[n]] >= Low(n) /\ Low(n) \in {1, 256} /\ MaxData[n] \in Nat
    BY <1>2, IssFacts
  <1>4. conn[n].snd_una \in Int /\ conn[n].snd_nxt \in Int
    BY <1>1 DEF Record
  <1>5. /\ n \in Clients \/ Peer(n) \in Clients
        /\ conn[n].snd_iss = IssOf[n][inc[n]]
        /\ (conn[n].is_pasv <=> n \notin Clients)
        /\ conn[n].snd_una \in conn[n].snd_iss..(conn[n].snd_nxt - 1)
        /\ conn[n].snd_nxt - 1 \in Nums(n, inc[n])
        /\ conn[n].state \in {"SYN_SENT", "SYN_RCVD"} => conn[n].snd_nxt = conn[n].snd_iss + 1
    BY <1>1 DEF SendOK
  <1>6. Nums(n, inc[n]) = conn[n].snd_iss..(conn[n].snd_iss + MaxData[n])
    BY <1>5 DEF Nums
  <1>7. /\ conn[n].snd_iss \in Nat /\ conn[n].snd_iss >= Low(n) /\ conn[n].snd_iss >= 1
    BY <1>3, <1>5
  <1>8. conn[n].state \in {"SYN_SENT", "SYN_RCVD"} => conn[n].snd_una = conn[n].snd_iss
    BY <1>4, <1>5, <1>7
  <1> QED BY <1>1, <1>2, <1>3, <1>4, <1>5, <1>6, <1>7, <1>8

\* What a record has sent has its numbers after a step too.
LEMMA SendKept ==
    ASSUME ConnBase, Numbered, ClientServer, IssApart, NEW n \in Node, NEW d \in Record,
           NEW out \in SUBSET Segment, NEW ev \in SUBSET Event, Step(n, d, out, ev), NEW o \in Node
    PROVE  SendOK(o)' /\ inc'[o] <= Len(IssOf[o])
  <1>0. /\ \A x \in Node : inc[x] <= Len(IssOf[x]) /\ SendOK(x) /\ RecvOK(x)
        /\ conn'[n] = d /\ StepKind(n, d, out, ev) /\ inc \in [Node -> Nat] /\ conn[n] \in Record
        /\ d.snd_iss \in Int /\ d.snd_nxt \in Int /\ d.snd_una \in Int
        /\ inc[n] <= Len(IssOf[n]) /\ SendOK(n)
    BY ConnFacts DEF Numbered, Step, Record
  <1>1. CASE o = Peer(n)
    <2>1. conn'[o] = conn[o] /\ inc'[o] = inc[o] /\ Peer(o)' = Peer(o)
      BY <1>1 DEF Step, Peer
    <2> QED BY <1>0, <2>1 DEF SendOK, Nums
  <1>2. CASE o = n
    <2> DEFINE c == conn[n]
    <2>1. Peer(n)' = Peer(n)
      BY DEF Peer
    <2>2. ASSUME NEW s \in {"SYN_SENT", "SYN_RCVD"}, NEW p \in BOOLEAN, NEW irs \in Int,
                 d = NewCon(n, s, p, irs), inc' = [inc EXCEPT ![n] = @ + 1], inc[n] < Len(IssOf[n]),
                 p <=> n \notin Clients, s = "SYN_SENT" <=> n \in Clients, n \in Clients \/ Peer(n) \in Clients
          PROVE  SendOK(n)' /\ inc'[n] <= Len(IssOf[n])
      <3> DEFINE iss == IssOf[n][inc[n] + 1]
      <3>1. /\ d.state = s /\ d.is_pasv = p /\ d.snd_iss = iss /\ d.snd_nxt = iss + 1 /\ d.snd_una = iss
            /\ iss \in Nat /\ inc[n] + 1 \in 1..Len(IssOf[n])
        BY <2>2, NewConFacts
      <3>2. inc'[n] = inc[n] + 1 /\ inc[n] \in Nat /\ inc'[n] > 0 /\ MaxData[n] \in Nat /\ Len(IssOf[n]) \in Nat
        <4>1. MaxData[n] \in Nat /\ Len(IssOf[n]) \in Nat
          BY ConnAssumption
        <4>2. inc'[n] = inc[n] + 1 /\ inc[n] \in Nat
          BY <1>0, <2>2
        <4> QED BY <4>1, <4>2
      <3>3. IssOf[n][inc'[n]] = iss
        BY <3>2
      <3> HIDE DEF iss
      <3>4. d.snd_una \in d.snd_iss..(d.snd_nxt - 1) /\ d.snd_nxt - 1 \in iss..(iss + MaxData[n])
        BY <3>1, <3>2
      <3> QED BY <1>0, <2>1, <2>2, <3>1, <3>2, <3>3, <3>4 DEF SendOK, Nums
    <2>3. CASE Connects(n, d, out, ev)
      <3>1. "SYN_SENT" \in {"SYN_SENT", "SYN_RCVD"} /\ FALSE \in BOOLEAN /\ 0 \in Int
        OBVIOUS
      <3> QED BY <1>2, <2>2, <2>3, <3>1 DEF Connects
    <2>4. CASE Accepts(n, d, out, ev)
      <3>1. PICK m \in From(n) : m.flags = {"SYN"} /\ d = NewCon(n, "SYN_RCVD", TRUE, m.seq)
        BY <2>4 DEF Accepts
      <3>2. Peer(n) \in Clients /\ m.seq \in Int
        BY <3>1, FromFacts DEF SynOK, Segment
      <3>3. n \notin Clients
        BY <3>2, PeerFacts DEF ClientServer
      <3>4. "SYN_RCVD" \in {"SYN_SENT", "SYN_RCVD"} /\ TRUE \in BOOLEAN
        OBVIOUS
      <3>5. inc' = [inc EXCEPT ![n] = @ + 1] /\ inc[n] < Len(IssOf[n])
        BY <2>4 DEF Accepts
      <3> QED BY <1>2, <2>2, <3>1, <3>2, <3>3, <3>4, <3>5
    <2>5. ASSUME c.state # "NONE", inc' = inc, d.is_pasv = c.is_pasv, d.snd_iss = c.snd_iss,
                 d.snd_nxt - 1 \in Nums(n, inc[n]), d.snd_una \in c.snd_iss..(d.snd_nxt - 1),
                 d.state \in {"SYN_SENT", "SYN_RCVD"} => d.snd_nxt = c.snd_nxt /\ d.state = c.state
          PROVE  SendOK(n)' /\ inc'[n] <= Len(IssOf[n])
      BY <1>0, <2>1, <2>5 DEF SendOK, Nums
    <2>6. c.state # "NONE" => /\ c.snd_una \in c.snd_iss..(c.snd_nxt - 1) /\ c.snd_iss \in Int
                              /\ c.snd_nxt - 1 \in Nums(n, inc[n]) /\ c.snd_nxt \in Int /\ c.snd_una \in Int
                              /\ Nums(n, inc[n]) = c.snd_iss..(c.snd_iss + MaxData[n]) /\ MaxData[n] \in Nat
      BY SendFacts
    <2> HIDE DEF c
    <2>7. CASE Waits(n, d, out, ev)
      BY <1>2, <2>5, <2>6, <2>7 DEF Waits, Same, c
    <2>8. CASE Opens(n, d, out, ev)
      <3>1. PICK m : /\ m.ack = c.snd_iss
                     /\ d = [c EXCEPT !.rcv_cur = m.seq, !.rcv_irs = m.seq, !.rcv_ack = m.seq,
                                      !.state = "OPEN", !.snd_una = m.ack]
        BY <2>8 DEF Opens, c
      <3>2. d.state = "OPEN" /\ d.is_pasv = c.is_pasv /\ d.snd_iss = c.snd_iss /\ d.snd_nxt = c.snd_nxt
            /\ d.snd_una = c.snd_iss /\ c.state = "SYN_SENT" /\ inc' = inc
        <4>1. c \in Record
          BY <1>0 DEF c
        <4>2. c.state = "SYN_SENT" /\ inc' = inc
          BY <2>8 DEF Opens, c
        <4> QED BY <3>1, <4>1, <4>2 DEF Record
      <3>3. c.snd_iss \in c.snd_iss..(c.snd_nxt - 1)
        BY <2>6, <3>2
      <3> QED BY <1>2, <2>5, <2>6, <3>2, <3>3
    <2>9. CASE Establishes(n, d, out, ev)
      BY <1>2, <2>5, <2>6, <2>9 DEF Establishes, c
    <2>10. CASE GoesOn(n, d, out, ev)
      <3>1. /\ c.state = "OPEN" /\ d.state = "OPEN" /\ d.is_pasv = c.is_pasv /\ d.snd_iss = c.snd_iss
            /\ d.snd_nxt = c.snd_nxt \/ (d.snd_nxt = c.snd_nxt + 1 /\ c.snd_nxt - c.snd_iss <= MaxData[n])
            /\ d.snd_una = c.snd_una \/ d.snd_una \in c.snd_una..(c.snd_nxt - 1)
            /\ inc' = inc
        BY <2>10 DEF GoesOn, Takes, c
      <3>2. d.snd_nxt - 1 \in Nums(n, inc[n]) /\ d.snd_una \in c.snd_iss..(d.snd_nxt - 1)
        <4>1. c.state # "NONE"
          BY <3>1
        <4>2. /\ c.snd_una \in c.snd_iss..(c.snd_nxt - 1) /\ c.snd_iss \in Int
              /\ c.snd_nxt - 1 \in c.snd_iss..(c.snd_iss + MaxData[n]) /\ c.snd_nxt \in Int
              /\ c.snd_una \in Int /\ MaxData[n] \in Nat
          BY <2>6, <4>1
        <4>3. d.snd_nxt - 1 \in c.snd_iss..(c.snd_iss + MaxData[n]) /\ d.snd_una \in c.snd_iss..(d.snd_nxt - 1)
          <5>1. CASE d.snd_nxt = c.snd_nxt
            BY <3>1, <4>2, <5>1
          <5>2. CASE d.snd_nxt = c.snd_nxt + 1 /\ c.snd_nxt - c.snd_iss <= MaxData[n]
            BY <3>1, <4>2, <5>2
          <5> QED BY <3>1, <5>1, <5>2
        <4> QED BY <2>6, <4>1, <4>3
      <3> QED BY <1>2, <2>5, <3>1, <3>2
    <2>11. CASE Ends(n, d, out, ev)
      <3>1. CASE d = None
        <4>1. d.state = "NONE" /\ inc' = inc
          BY <2>11, <3>1 DEF None, Ends
        <4> QED BY <1>0, <1>2, <4>1 DEF SendOK
      <3>2. CASE d # None
        BY <1>2, <2>5, <2>6, <2>11, <3>2 DEF Ends, Dead, c
      <3> QED BY <3>1, <3>2
    <2> QED BY <1>0, <2>3, <2>4, <2>7, <2>8, <2>9, <2>10, <2>11, ClientKinds, ServerKinds
  <1> QED BY <1>1, <1>2, PeerFacts

\* What was received stays something that was sent.
LEMMA RecvsGrows ==
    ASSUME NEW p \in Node, Grows(p), NEW d \in Record, Recvs(p, d), NEW n \in Node, conn'[n] = d
    PROVE  Recvs(p, conn[n])'
  <1>1. d.rcv_irs \in Int /\ d.rcv_cur \in Int /\ d.held \in SUBSET Int
    BY DEF Record
  <1>2. /\ UsedIss(p, d.rcv_irs)' /\ Used(p, d.rcv_cur)'
        /\ \A x \in d.held : UsedData(p, x)'
    BY <1>1, UsedGrows DEF Recvs
  <1>3. d.rcv_cur \in d.rcv_irs..(d.rcv_irs + MaxData[p])
    BY DEF Recvs
  <1> QED BY <1>2, <1>3 DEF Recvs, UsedIss, Used, UsedData, Reached, Live

\* What was taken from the peer are numbers of the peer: RCV.CUR does not get past the
\* last one of the peer's record.
LEMMA TookRecvs ==
    ASSUME ConnBase, Numbered, IssApart, NEW n \in Node, NEW d \in Record, NEW data, NEW seq \in Int,
           conn[n].state \in {"SYN_RCVD", "OPEN"}, Took(conn[n], d, data, seq),
           data => UsedData(Peer(n), seq)
    PROVE  Recvs(Peer(n), d) /\ d.rcv_irs = conn[n].rcv_irs /\ conn[n].rcv_cur <= d.rcv_cur
  <1> DEFINE p == Peer(n)
             c == conn[n]
  <1>0. /\ p \in Node /\ Recvs(p, c) /\ inc[p] \in Nat /\ inc[p] <= Len(IssOf[p]) /\ MaxData[p] \in Nat
        /\ c \in Record /\ Len(IssOf[p]) \in Nat
    BY PeerFacts, ConnFacts, ConnAssumption DEF Numbered, RecvOK
  <1>1. c.rcv_irs \in Int /\ c.rcv_cur \in Int /\ d.rcv_irs \in Int /\ d.rcv_cur \in Int
    BY <1>0 DEF Record
  <1>2. CASE d.rcv_cur = c.rcv_cur /\ d.held = c.held
    BY <1>0, <1>1, <1>2 DEF Took, Recvs
  <1>3. CASE ~ (d.rcv_cur = c.rcv_cur /\ d.held = c.held)
    <2>1. /\ data /\ d.rcv_cur >= c.rcv_cur /\ d.rcv_irs = c.rcv_irs
          /\ (c.rcv_cur + 1)..d.rcv_cur \subseteq c.held \cup {seq}
          /\ d.held \subseteq c.held \cup {seq}
      BY <1>3 DEF Took
    <2>2. \A x \in c.held \cup {seq} : UsedData(p, x)
      BY <1>0, <2>1 DEF Recvs
    <2>3. \A x \in (c.rcv_cur + 1)..d.rcv_cur : UsedData(p, x)
      BY <2>1, <2>2
    <2>4. d.rcv_cur <= c.rcv_irs + MaxData[p]
      <3>1. PICK i \in 1..inc[p] : c.rcv_irs = IssOf[p][i]
        BY <1>0 DEF Recvs, UsedIss
      <3>2. i \in 1..Len(IssOf[p])
        BY <1>0
      <3>3. ~ UsedData(p, c.rcv_irs + MaxData[p] + 1)
        BY <1>0, <3>1, <3>2, DataEnds
      <3>4. c.rcv_cur <= c.rcv_irs + MaxData[p]
        BY <1>0, <1>1 DEF Recvs
      <3> QED BY <1>0, <1>1, <2>3, <3>3, <3>4, SMTT(60)
    <2>5. Used(p, d.rcv_cur)
      <3>1. CASE d.rcv_cur = c.rcv_cur
        BY <1>0, <3>1 DEF Recvs
      <3>2. CASE d.rcv_cur # c.rcv_cur
        <4>1. UsedData(p, d.rcv_cur)
          BY <1>1, <2>1, <2>3, <3>2
        <4>2. PICK i \in 1..inc[p] : /\ d.rcv_cur \in (IssOf[p][i] + 1)..(IssOf[p][i] + MaxData[p])
                                     /\ Reached(p, i, d.rcv_cur)
          BY <4>1 DEF UsedData
        <4>3. i \in 1..Len(IssOf[p])
          BY <1>0
        <4>4. IssOf[p][i] \in Nat
          BY <1>0, <4>3, IssFacts
        <4>5. d.rcv_cur \in Nums(p, i)
          BY <1>0, <1>1, <4>2, <4>4 DEF Nums
        <4> QED BY <4>2, <4>5 DEF Used
      <3> QED BY <3>1, <3>2
    <2>6. \A x \in d.held : UsedData(p, x)
      BY <2>1, <2>2
    <2>7. d.rcv_cur \in d.rcv_irs..(d.rcv_irs + MaxData[p])
      <3>1. c.rcv_irs <= c.rcv_cur
        BY <1>0, <1>1 DEF Recvs
      <3> QED BY <1>0, <1>1, <2>1, <2>4, <3>1
    <2>8. UsedIss(p, d.rcv_irs)
      BY <1>0, <2>1 DEF Recvs
    <2> QED BY <1>1, <2>1, <2>5, <2>6, <2>7, <2>8 DEF Recvs
  <1> QED BY <1>2, <1>3

\* What an open record has taken in a step.
LEMMA StepRecvs ==
    ASSUME ConnBase, Numbered, ClientServer, IssApart, NEW n \in Node, NEW d \in Record,
           NEW out \in SUBSET Segment, NEW ev \in SUBSET Event, Step(n, d, out, ev),
           d.state \in {"SYN_RCVD", "OPEN"}
    PROVE  Recvs(Peer(n), d)
  <1> DEFINE p == Peer(n)
             c == conn[n]
  <1>0. p \in Node /\ c \in Record /\ StepKind(n, d, out, ev) /\ WindowOK(c, told[n]) /\ RecvOK(n)
        /\ MaxData[p] \in Nat
    BY PeerFacts, ConnFacts, ConnAssumption DEF Step, Numbered
  <1>1. ASSUME NEW x \in Int, UsedIss(p, x), d.rcv_irs = x, d.rcv_cur = x, d.held = {}
        PROVE  Recvs(p, d)
    BY <1>0, <1>1, UsedIssUsed DEF Recvs
  <1>2. CASE Connects(n, d, out, ev)
    <2>1. "SYN_SENT" \in {"SYN_SENT", "SYN_RCVD"} /\ FALSE \in BOOLEAN /\ 0 \in Int
      OBVIOUS
    <2>2. d.state = "SYN_SENT"
      BY <1>2, <2>1, NewConFacts DEF Connects
    <2> QED BY <2>2
  <1>3. CASE Accepts(n, d, out, ev)
    <2>1. PICK m \in From(n) : m.flags = {"SYN"} /\ d = NewCon(n, "SYN_RCVD", TRUE, m.seq)
      BY <1>3 DEF Accepts
    <2>2. UsedIss(p, m.seq) /\ m.seq \in Int
      BY <2>1, FromFacts DEF SynOK, Segment
    <2>3. "SYN_RCVD" \in {"SYN_SENT", "SYN_RCVD"} /\ TRUE \in BOOLEAN /\ inc[n] < Len(IssOf[n])
      BY <1>3 DEF Accepts
    <2>4. d.rcv_irs = m.seq /\ d.rcv_cur = m.seq /\ d.held = {}
      <3> DEFINE y == m.seq
                 z == NewCon(n, "SYN_RCVD", TRUE, y)
      <3>1. y \in Int
        BY <2>2
      <3> HIDE DEF y
      <3>2. z.rcv_irs = y /\ z.rcv_cur = y /\ z.held = {}
        <4>1. \A q \in BOOLEAN, s \in {"SYN_SENT", "SYN_RCVD"} :
                /\ NewCon(n, s, q, y).rcv_irs = y /\ NewCon(n, s, q, y).rcv_cur = y
                /\ NewCon(n, s, q, y).held = {}
          BY <2>3, <3>1, NewConFacts
        <4> QED BY <4>1
      <3>3. d = z
        BY <2>1 DEF y
      <3> HIDE DEF z
      <3> QED BY <3>2, <3>3 DEF y
    <2> QED BY <1>1, <2>2, <2>4
  <1>4. CASE Waits(n, d, out, ev)
    BY <1>0, <1>4 DEF Waits, Same, RecvOK, Recvs
  <1>5. CASE Opens(n, d, out, ev)
    <2>1. PICK m \in From(n) :
            /\ m.flags = {"SYN", "ACK"} /\ m.ack = c.snd_iss
            /\ d = [c EXCEPT !.rcv_cur = m.seq, !.rcv_irs = m.seq, !.rcv_ack = m.seq,
                             !.state = "OPEN", !.snd_una = m.ack]
      BY <1>5 DEF Opens
    <2>2. UsedIss(p, m.seq) /\ m.seq \in Int
      BY <2>1, FromFacts DEF SynAckOK, Segment
    <2>3. c.held = {}
      BY <1>0, <1>5 DEF Opens, WindowOK
    <2>4. d.rcv_irs = m.seq /\ d.rcv_cur = m.seq /\ d.held = {}
      BY <1>0, <2>1, <2>3 DEF Record
    <2> QED BY <1>1, <2>2, <2>4
  <1>6. CASE Establishes(n, d, out, ev)
    <2>1. PICK m \in From(n) : Took(c, d, "DATA" \in m.flags, m.seq)
      BY <1>6 DEF Establishes
    <2>2. m.seq \in Int /\ ("DATA" \in m.flags => UsedData(p, m.seq)) /\ c.state \in {"SYN_RCVD", "OPEN"}
      BY <1>6, FromFacts DEF PlainOK, Segment, Establishes
    <2> QED BY <2>1, <2>2, TookRecvs
  <1>7. CASE GoesOn(n, d, out, ev)
    <2>1. PICK m \in From(n) \cup {AckSeg(n, c)} : Takes(n, c, d, m)
      BY <1>7 DEF GoesOn
    <2>2. Took(c, d, m \in From(n) /\ "DATA" \in m.flags, m.seq)
      BY <2>1 DEF Takes
    <2>3. m.seq \in Int
      <3>1. c.snd_nxt \in Int /\ c.rcv_cur \in Int
        BY <1>0 DEF Record
      <3>2. CASE m \in From(n)
        BY <3>2, FromFacts DEF Segment
      <3>3. CASE m = AckSeg(n, c)
        BY <3>1, <3>3, SegFacts, FlagFacts DEF AckSeg
      <3> QED BY <3>2, <3>3
    <2>4. m \in From(n) /\ "DATA" \in m.flags => UsedData(p, m.seq)
      BY FromFacts DEF PlainOK
    <2>5. c.state \in {"SYN_RCVD", "OPEN"}
      BY <1>7 DEF GoesOn
    <2> QED BY <2>2, <2>3, <2>4, <2>5, TookRecvs
  <1>8. CASE Ends(n, d, out, ev)
    BY <1>8 DEF Ends, Dead
  <1> QED BY <1>0, <1>2, <1>3, <1>4, <1>5, <1>6, <1>7, <1>8, ClientKinds, ServerKinds

\* What a record has received was sent, after a step too.
LEMMA RecvKept ==
    ASSUME ConnBase, Numbered, ClientServer, IssApart, NEW n \in Node, NEW d \in Record,
           NEW out \in SUBSET Segment, NEW ev \in SUBSET Event, Step(n, d, out, ev), NEW o \in Node
    PROVE  RecvOK(o)'
  <1> DEFINE p == Peer(o)
  <1>0. p \in Node /\ Grows(p) /\ Peer(o)' = p /\ conn[o] \in Record
    BY PeerFacts, GrowsStep, ConnFacts DEF Peer
  <1>1. CASE o = n
    <2>1. conn'[n] = d
      BY DEF Step
    <2>2. d.state \in {"SYN_RCVD", "OPEN"} => Recvs(p, conn[n])'
      BY <1>0, <1>1, <2>1, StepRecvs, RecvsGrows
    <2> QED BY <1>0, <1>1, <2>1, <2>2 DEF RecvOK
  <1>2. CASE o = Peer(n)
    <2>1. conn'[o] = conn[o] /\ RecvOK(o)
      BY <1>2 DEF Step, Numbered
    <2>2. conn[o].state \in {"SYN_RCVD", "OPEN"} => Recvs(p, conn[o])'
      <3> DEFINE e == conn[o]
      <3>1. e.state \in {"SYN_RCVD", "OPEN"} => Recvs(p, e)
        BY <2>1 DEF RecvOK
      <3> QED BY <1>0, <2>1, <3>1, RecvsGrows
    <2> QED BY <1>0, <2>1, <2>2 DEF RecvOK
  <1> QED BY <1>1, <1>2, PeerFacts

\* The fields of a record made by connect().
LEMMA ConnectsFacts ==
    ASSUME ConnBase, NEW n \in Node, NEW d \in Record, NEW out, NEW ev, Connects(n, d, out, ev)
    PROVE  /\ d.state = "SYN_SENT" /\ d.snd_iss = IssOf[n][inc[n] + 1] /\ inc'[n] = inc[n] + 1
           /\ inc[n] \in Nat /\ inc[n] + 1 \in 1..Len(IssOf[n])
           /\ out = {Seg(n, {"SYN"}, d.snd_iss, 0)} /\ d.snd_iss \in Int
           /\ n \in Clients /\ conn[n].state = "NONE"
  <1>1. "SYN_SENT" \in {"SYN_SENT", "SYN_RCVD"} /\ FALSE \in BOOLEAN /\ 0 \in Int /\ inc[n] < Len(IssOf[n])
    BY DEF Connects
  <1>2. \A q \in BOOLEAN, s \in {"SYN_SENT", "SYN_RCVD"}, y \in Int :
           /\ NewCon(n, s, q, y).state = s /\ NewCon(n, s, q, y).snd_iss = IssOf[n][inc[n] + 1]
           /\ inc[n] + 1 \in 1..Len(IssOf[n])
    BY <1>1, NewConFacts
  <1>3. inc'[n] = inc[n] + 1 /\ inc[n] \in Nat
    BY ConnFacts DEF Connects
  <1>4. out = {Seg(n, {"SYN"}, d.snd_iss, 0)} /\ n \in Clients /\ d = NewCon(n, "SYN_SENT", FALSE, 0)
        /\ conn[n].state = "NONE"
    BY DEF Connects
  <1>5. d.snd_iss \in Int
    BY DEF Record
  <1> QED BY <1>1, <1>2, <1>3, <1>4, <1>5

\* The fields of a record made for a SYN.
LEMMA AcceptsFacts ==
    ASSUME ConnBase, Numbered, ClientServer, NEW n \in Node, NEW d \in Record, NEW out, NEW ev,
           Accepts(n, d, out, ev)
    PROVE  /\ d.state = "SYN_RCVD" /\ d.snd_iss = IssOf[n][inc[n] + 1] /\ inc'[n] = inc[n] + 1
           /\ inc[n] \in Nat /\ inc[n] + 1 \in 1..Len(IssOf[n])
           /\ out = {Seg(n, {"SYN", "ACK"}, d.snd_iss, d.rcv_irs)} /\ d.snd_iss \in Int
           /\ d.rcv_irs \in Int /\ d.rcv_cur = d.rcv_irs /\ UsedIss(Peer(n), d.rcv_irs)
           /\ n \notin Clients
  <1>1. PICK m \in From(n) : m.flags = {"SYN"} /\ d = NewCon(n, "SYN_RCVD", TRUE, m.seq)
    BY DEF Accepts
  <1>2. UsedIss(Peer(n), m.seq) /\ m.seq \in Int /\ Peer(n) \in Clients
    BY <1>1, FromFacts DEF SynOK, Segment
  <1>3. inc[n] < Len(IssOf[n]) /\ inc' = [inc EXCEPT ![n] = @ + 1]
        /\ out = {Seg(n, {"SYN", "ACK"}, d.snd_iss, d.rcv_cur)}
    BY DEF Accepts
  <1>4. \A q \in BOOLEAN, s \in {"SYN_SENT", "SYN_RCVD"}, y \in Int :
           /\ NewCon(n, s, q, y).state = s /\ NewCon(n, s, q, y).snd_iss = IssOf[n][inc[n] + 1]
           /\ NewCon(n, s, q, y).rcv_irs = y /\ NewCon(n, s, q, y).rcv_cur = y
           /\ inc[n] + 1 \in 1..Len(IssOf[n])
    BY <1>3, NewConFacts
  <1>5. /\ d.state = "SYN_RCVD" /\ d.snd_iss = IssOf[n][inc[n] + 1]
        /\ d.rcv_irs = m.seq /\ d.rcv_cur = m.seq /\ inc[n] + 1 \in 1..Len(IssOf[n])
    BY <1>1, <1>2, <1>4
  <1>6. inc'[n] = inc[n] + 1 /\ inc[n] \in Nat
    BY <1>3, ConnFacts
  <1>7. d.snd_iss \in Int
    BY DEF Record
  <1>8. n \notin Clients
    BY <1>2, PeerFacts DEF ClientServer
  <1> QED BY <1>2, <1>3, <1>5, <1>6, <1>7, <1>8

\* The fields of a record opened by a SYN|ACK.
LEMMA OpensFacts ==
    ASSUME ConnBase, Numbered, NEW n \in Node, NEW d \in Record, NEW out, NEW ev, Opens(n, d, out, ev)
    PROVE  /\ d.state = "OPEN" /\ conn[n].state = "SYN_SENT" /\ inc' = inc /\ ev = {"CONNECTED"}
           /\ d.is_pasv = conn[n].is_pasv /\ d.snd_iss = conn[n].snd_iss /\ d.snd_nxt = conn[n].snd_nxt
           /\ d.snd_una = conn[n].snd_iss
           /\ \E m \in From(n) : SynAckOK(m) /\ m.ack = conn[n].snd_iss /\ m.seq = d.rcv_irs
           /\ UsedIss(Peer(n), d.rcv_irs)
           /\ d.rcv_cur = d.rcv_irs /\ out = {AckSeg(n, d)}
  <1> DEFINE c == conn[n]
  <1>0. c \in Record
    BY ConnFacts
  <1>1. PICK m \in From(n) :
            /\ m.flags = {"SYN", "ACK"} /\ m.ack = c.snd_iss
            /\ d = [c EXCEPT !.rcv_cur = m.seq, !.rcv_irs = m.seq, !.rcv_ack = m.seq,
                             !.state = "OPEN", !.snd_una = m.ack]
    BY DEF Opens
  <1>2. SynAckOK(m) /\ m.src = Peer(n) /\ UsedIss(Peer(n), m.seq)
    BY <1>1, FromFacts DEF SynAckOK
  <1>3. /\ d.state = "OPEN" /\ d.is_pasv = c.is_pasv /\ d.snd_iss = c.snd_iss /\ d.snd_nxt = c.snd_nxt
        /\ d.snd_una = m.ack /\ d.rcv_irs = m.seq /\ d.rcv_cur = m.seq
    BY <1>0, <1>1 DEF Record
  <1>4. c.state = "SYN_SENT" /\ inc' = inc /\ ev = {"CONNECTED"} /\ out = {AckSeg(n, d)}
    BY DEF Opens
  <1> QED BY <1>1, <1>2, <1>3, <1>4

\* The acknowledgement number of a datagram is 0 or one of its receiver's.
LEMMA AckFacts ==
    ASSUME ConnBase, Numbered, IssApart, NEW n \in Node, NEW m \in From(n),
           PlainOK(m) \/ SynAckOK(m) \/ SynOK(m)
    PROVE  m.ack \in Int /\ (m.ack = 0 \/ Used(n, m.ack))
  <1>1. m \in Segment /\ Peer(m.src) = n
    BY FromFacts
  <1>2. CASE PlainOK(m)
    BY <1>1, <1>2 DEF PlainOK, Segment
  <1>3. CASE SynAckOK(m)
    BY <1>1, <1>3, UsedIssUsed DEF SynAckOK, Segment
  <1>4. CASE SynOK(m)
    BY <1>1, <1>4 DEF SynOK, Segment
  <1> QED BY <1>2, <1>3, <1>4

\* A reset that answers it belongs to a record that is over.
LEMMA AnswerOver ==
    ASSUME ConnBase, Numbered, IssApart, NEW n \in Node, NEW m \in From(n),
           PlainOK(m) \/ SynAckOK(m) \/ SynOK(m), Grows(n),
           ~ Live(n)' \/ (m.ack # conn[n].snd_iss /\ conn[n].state \in {"SYN_SENT", "SYN_RCVD"})
    PROVE  Over(n, m.ack + 1)'
  <1>0. m.ack \in Int /\ Low(n) \in {1, 256}
    BY AckFacts DEF Low
  <1>1. CASE m.ack = 0
    <2>1. m.ack + 1 \in 0..Low(n)
      BY <1>0, <1>1
    <2> QED BY <2>1 DEF Over, Low
  <1>2. CASE Used(n, m.ack)
    <2>1. PICK i \in 1..inc[n] : m.ack \in Nums(n, i) /\ Reached(n, i, m.ack)
      BY <1>2 DEF Used
    <2>2. (m.ack + 1) - 1 = m.ack
      BY <1>0
    <2>3. CASE ~ Live(n)'
      <3>1. i \in 1..inc'[n]
        BY DEF Grows
      <3>2. (m.ack + 1) - 1 \in Nums(n, i)'
        BY <2>1, <2>2 DEF Nums
      <3> QED BY <2>3, <3>1, <3>2 DEF Over
    <2>4. CASE m.ack # conn[n].snd_iss /\ conn[n].state \in {"SYN_SENT", "SYN_RCVD"}
      <3>1. /\ conn[n].snd_nxt = conn[n].snd_iss + 1 /\ conn[n].snd_iss \in Nat
            /\ Nums(n, inc[n]) = conn[n].snd_iss..(conn[n].snd_iss + MaxData[n]) /\ MaxData[n] \in Nat
        BY <2>4, SendFacts
      <3>2. i # inc[n]
        <4> SUFFICES ASSUME i = inc[n] PROVE FALSE
          OBVIOUS
        <4>1. m.ack < conn[n].snd_nxt /\ m.ack >= conn[n].snd_iss
          BY <1>0, <2>1, <2>4, <3>1 DEF Reached, Live
        <4> QED BY <1>0, <2>4, <3>1, <4>1
      <3>3. (m.ack + 1) - 1 \in Nums(n, i)
        BY <2>1, <2>2
      <3>4. Over(n, m.ack + 1)
        BY <3>2, <3>3 DEF Over
      <3>5. m.ack + 1 \in Int
        BY <1>0
      <3> QED BY <3>4, <3>5, UsedGrows
    <2> QED BY <2>3, <2>4
  <1> QED BY <1>1, <1>2, AckFacts

\* Everything that is put out carries numbers that were used.
LEMMA OutKept ==
    ASSUME ConnBase, Numbered, ClientServer, IssApart, NEW n \in Node, NEW d \in Record,
           NEW out \in SUBSET Segment, NEW ev \in SUBSET Event, Step(n, d, out, ev), NEW o \in out
    PROVE  MsgOK(o)'
  <1> DEFINE p == Peer(n)
             c == conn[n]
  <1>0. /\ p \in Node /\ Peer(n)' = p /\ c \in Record /\ StepKind(n, d, out, ev) /\ conn'[n] = d
        /\ Grows(n) /\ Grows(p) /\ SendOK(n)' /\ inc'[n] <= Len(IssOf[n]) /\ RecvOK(n)'
        /\ o \in Segment /\ WindowOK(c, told[n]) /\ RecvOK(n) /\ SendOK(n)
    BY PeerFacts, ConnFacts, GrowsStep, SendKept, RecvKept DEF Step, Peer, Numbered
  <1>1. c.snd_iss \in Int /\ c.snd_nxt \in Int /\ c.rcv_cur \in Int /\ c.rcv_irs \in Int
        /\ d.snd_iss \in Int /\ d.snd_nxt \in Int /\ d.rcv_cur \in Int /\ d.rcv_irs \in Int
        /\ o.seq \in Int /\ o.ack \in Int /\ inc[n] \in Nat /\ inc'[n] \in Nat
    BY <1>0 DEF Record, Segment, Grows
  <1>a. PICK iss \in Int, nxt \in Int, cur \in Int : iss = c.snd_iss /\ nxt = c.snd_nxt /\ cur = c.rcv_cur
    BY <1>1
  <1>2. ASSUME o.src = n, o.flags \in PlainAck, Used(p, o.ack)' PROVE MsgOK(o)'
    BY <1>0, <1>2 DEF MsgOK, PlainOK, Plain, PlainAck
  <1>3. ASSUME o.src = n, o.flags \in {{"RST"}, {"RST", "FIN"}, {"RST", "ACK"}}, Over(n, o.seq)'
        PROVE  MsgOK(o)'
    BY <1>3 DEF MsgOK, ResetOK
  <1>4. \A m \in From(n) : "ACK" \in m.flags /\ "RST" \notin m.flags => PlainOK(m) \/ SynAckOK(m)
    BY FromFacts
  <1>5. c.state \in {"SYN_RCVD", "OPEN"} => Used(p, cur)'
    BY <1>0, <1>a, UsedGrows DEF RecvOK, Recvs
  <1>6. d.state = "OPEN" => Used(p, d.rcv_cur)'
    BY <1>0 DEF RecvOK, Recvs
  <1>7. CASE Connects(n, d, out, ev)
    <2>1. /\ o = Seg(n, {"SYN"}, d.snd_iss, 0) /\ n \in Clients /\ inc'[n] = inc[n] + 1
          /\ d.snd_iss = IssOf[n][inc[n] + 1]
      BY <1>7, ConnectsFacts
    <2>2. o.src = n /\ o.flags = {"SYN"} /\ o.seq = d.snd_iss /\ o.ack = 0
      BY <1>1, <2>1, SegFacts, FlagFacts
    <2>3. inc'[n] \in 1..inc'[n] /\ o.seq = IssOf[n][inc'[n]]
      BY <1>1, <2>1, <2>2
    <2>4. UsedIss(n, o.seq)'
      BY <2>3 DEF UsedIss
    <2> QED BY <2>1, <2>2, <2>4 DEF MsgOK, SynOK
  <1>8. CASE Accepts(n, d, out, ev)
    <2>1. /\ o = Seg(n, {"SYN", "ACK"}, d.snd_iss, d.rcv_irs) /\ n \notin Clients /\ inc'[n] = inc[n] + 1
          /\ d.snd_iss = IssOf[n][inc[n] + 1] /\ UsedIss(p, d.rcv_irs)
      BY <1>8, AcceptsFacts
    <2>2. o.src = n /\ o.flags = {"SYN", "ACK"} /\ o.seq = d.snd_iss /\ o.ack = d.rcv_irs
      BY <1>1, <2>1, SegFacts, FlagFacts
    <2>3. inc'[n] \in 1..inc'[n] /\ o.seq = IssOf[n][inc'[n]]
      BY <1>1, <2>1, <2>2
    <2>4. UsedIss(n, o.seq)'
      BY <2>3 DEF UsedIss
    <2>5. UsedIss(p, o.ack)'
      BY <1>0, <1>1, <2>1, <2>2, UsedGrows
    <2> QED BY <1>0, <2>1, <2>2, <2>4, <2>5 DEF MsgOK, SynAckOK
  <1>9. CASE Waits(n, d, out, ev)
    <2>0. c.state \in {"SYN_SENT", "SYN_RCVD"}
      BY <1>9 DEF Waits
    <2>1. UsedIss(n, iss)'
      <3>1. inc[n] \in 1..inc[n] /\ iss = IssOf[n][inc[n]]
        BY <1>1, <1>a, <2>0, SendFacts
      <3>2. UsedIss(n, iss)
        BY <3>1 DEF UsedIss
      <3> QED BY <1>0, <3>2, UsedGrows
    <2>2. CASE c.state = "SYN_SENT" /\ o = Seg(n, {"SYN"}, c.snd_iss, 0)
      <3>1. o.src = n /\ o.flags = {"SYN"} /\ o.seq = iss /\ o.ack = 0
        BY <1>1, <1>a, <2>2, SegFacts, FlagFacts
      <3>2. n \in Clients
        BY <1>0, <2>2 DEF SendOK
      <3> QED BY <2>1, <3>1, <3>2 DEF MsgOK, SynOK
    <2>3. ASSUME NEW ack \in {0, c.rcv_cur}, c.state = "SYN_RCVD", o = Seg(n, {"SYN", "ACK"}, c.snd_iss, ack)
          PROVE  MsgOK(o)'
      <3>1. o.src = n /\ o.flags = {"SYN", "ACK"} /\ o.seq = iss /\ o.ack = ack
        BY <1>1, <1>a, <2>3, SegFacts, FlagFacts
      <3>2. n \notin Clients
        BY <1>0, <2>3 DEF SendOK
      <3>3. UsedIss(p, cur)
        BY <1>0, <1>a, <2>3 DEF RecvOK, Recvs, WindowOK
      <3>4. UsedIss(p, cur)'
        BY <1>0, <3>3, UsedGrows
      <3>5. o.ack = 0 \/ UsedIss(p, o.ack)'
        BY <1>a, <2>3, <3>1, <3>4
      <3> QED BY <1>0, <2>1, <3>1, <3>2, <3>5 DEF MsgOK, SynAckOK
    <2>4. CASE c.state = "SYN_RCVD" /\ o = AckSeg(n, c)
      <3>1. o.src = n /\ o.flags = {"ACK"} /\ o.ack = cur
        BY <1>1, <1>a, <2>4, SegFacts, FlagFacts DEF AckSeg
      <3> QED BY <1>2, <1>5, <2>4, <3>1 DEF PlainAck
    <2>5. CASE c.state = "SYN_RCVD" /\ o.src = n /\ o.flags = {"RST"} /\ o.seq \in 1..256
      <3>1. n \notin Clients
        BY <1>0, <2>5 DEF SendOK
      <3>2. Over(n, o.seq)'
        BY <2>5, <3>1 DEF Over, Low
      <3> QED BY <1>3, <2>5, <3>2
    <2>6. ASSUME o.src = n, NEW m \in From(n), Answer(n, o, m), m.ack # c.snd_iss PROVE MsgOK(o)'
      <3>1. o.flags = {"RST"} /\ o.seq = m.ack + 1 /\ (PlainOK(m) \/ SynAckOK(m))
        BY <1>4, <2>6 DEF Answer
      <3>2. Over(n, m.ack + 1)'
        BY <1>0, <2>0, <2>6, <3>1, AnswerOver
      <3> QED BY <1>3, <2>6, <3>1, <3>2
    <2> QED BY <1>9, <2>2, <2>3, <2>4, <2>5, <2>6 DEF Waits
  <1>10. CASE Opens(n, d, out, ev)
    <2>1. d.state = "OPEN" /\ o = AckSeg(n, d)
      BY <1>10, OpensFacts
    <2>2. o.src = n /\ o.flags = {"ACK"} /\ o.ack = d.rcv_cur
      BY <1>1, <2>1, SegFacts, FlagFacts DEF AckSeg
    <2> QED BY <1>2, <1>6, <2>1, <2>2 DEF PlainAck
  <1>11. CASE Establishes(n, d, out, ev)
    BY <1>2, <1>6, <1>11 DEF Establishes
  <1>12. CASE GoesOn(n, d, out, ev)
    <2>1. /\ o.src = n /\ o.flags \in Plain /\ o.ack = d.rcv_cur /\ d.state = "OPEN"
          /\ "DATA" \in o.flags => o.seq \in (c.snd_iss + 1)..(d.snd_nxt - 1)
          /\ d.snd_iss = c.snd_iss
      BY <1>12 DEF GoesOn
    <2>2. "DATA" \in o.flags => UsedData(n, o.seq)'
      <3> SUFFICES ASSUME "DATA" \in o.flags PROVE UsedData(n, o.seq)'
        OBVIOUS
      <3>1. inc'[n] > 0 /\ d.snd_iss = IssOf[n][inc'[n]] /\ d.snd_nxt - 1 \in Nums(n, inc'[n])
        BY <1>0, <2>1 DEF SendOK, Nums
      <3>2. MaxData[n] \in Nat
        BY ConnAssumption
      <3>3. d.snd_nxt - 1 <= d.snd_iss + MaxData[n]
        BY <1>1, <3>1, <3>2 DEF Nums
      <3>4. o.seq \in (d.snd_iss + 1)..(d.snd_iss + MaxData[n]) /\ o.seq < d.snd_nxt
        BY <1>1, <2>1, <3>2, <3>3
      <3>5. inc'[n] \in 1..inc'[n] /\ o.seq \in (IssOf[n][inc'[n]] + 1)..(IssOf[n][inc'[n]] + MaxData[n])
        BY <1>1, <3>1, <3>4
      <3>6. Reached(n, inc[n], o.seq)'
        BY <1>0, <3>4 DEF Reached
      <3>7. \E i \in 1..inc'[n] : o.seq \in (IssOf[n][i] + 1)..(IssOf[n][i] + MaxData[n]) /\ (i = inc'[n] /\ Live(n)' => o.seq < d.snd_nxt)
        BY <3>4, <3>5
      <3> QED BY <1>0, <3>7 DEF UsedData, Reached
    <2>3. Used(p, o.ack)'
      BY <1>6, <2>1
    <2> QED BY <1>0, <2>1, <2>2, <2>3 DEF MsgOK, PlainOK
  <1>13. CASE Ends(n, d, out, ev)
    <2>0. ~ Live(n)'
      BY <1>0, <1>13 DEF Ends, Dead, Live
    <2>1. CASE o.src = n /\ o.flags \in PlainAck /\ o.ack = c.rcv_cur /\ c.state \in {"SYN_RCVD", "OPEN"}
      BY <1>2, <1>5, <1>a, <2>1
    <2>2. CASE o.src = n /\ o.flags \in {{"RST"}, {"RST", "FIN"}} /\ o.seq = c.snd_nxt /\ c.state # "NONE"
      <3>1. inc[n] > 0 /\ c.snd_nxt - 1 \in Nums(n, inc[n]) /\ inc' = inc
        BY <1>0, <1>13, <2>2 DEF SendOK, Ends
      <3>2. inc'[n] \in 1..inc'[n] /\ o.seq - 1 \in Nums(n, inc'[n])
        BY <1>1, <2>2, <3>1 DEF Nums
      <3>3. Over(n, o.seq)'
        BY <2>0, <3>2 DEF Over, Nums
      <3> QED BY <1>3, <2>2, <3>3
    <2>3. CASE o.flags = {"FIN"}
      BY <2>3 DEF MsgOK
    <2>4. CASE o.src = n /\ o.flags = {"RST", "ACK"} /\ o.seq = 0
      <3>1. Over(n, o.seq)'
        BY <2>4 DEF Over, Low
      <3> QED BY <1>3, <2>4, <3>1
    <2>5. ASSUME o.src = n, NEW m \in From(n), Answer(n, o, m) PROVE MsgOK(o)'
      <3>1. o.flags = {"RST"} /\ o.seq = m.ack + 1 /\ (PlainOK(m) \/ SynAckOK(m))
        BY <1>4, <2>5 DEF Answer
      <3>2. Over(n, m.ack + 1)'
        BY <1>0, <2>0, <2>5, <3>1, AnswerOver
      <3> QED BY <1>3, <2>5, <3>1, <3>2
    <2>6. ASSUME o.src = n, NEW m \in From(n), "SYN" \in m.flags, o.flags = {"RST"}, o.seq = m.ack + 1
          PROVE  MsgOK(o)'
      <3>1. SynOK(m) \/ SynAckOK(m)
        BY <2>6, FromFacts
      <3>2. Over(n, m.ack + 1)'
        BY <1>0, <2>0, <2>6, <3>1, AnswerOver
      <3> QED BY <1>3, <2>6, <3>1, <3>2
    <2> QED BY <1>13, <2>1, <2>2, <2>3, <2>4, <2>5, <2>6 DEF Ends
  <1> QED BY <1>0, <1>7, <1>8, <1>9, <1>10, <1>11, <1>12, <1>13, ClientKinds, ServerKinds

\* All numbers stay numbers that were used.
LEMMA NumberedStep ==
    ASSUME ConnBase, Numbered, ClientServer, IssApart, NEW n \in Node, NEW d \in Record,
           NEW out \in SUBSET Segment, NEW ev \in SUBSET Event, Step(n, d, out, ev)
    PROVE  Numbered'
  <1>1. \A o \in Node : inc'[o] <= Len(IssOf[o]) /\ SendOK(o)' /\ RecvOK(o)'
    BY SendKept, RecvKept
  <1>2. ASSUME NEW m \in net' PROVE MsgOK(m)'
    <2>1. CASE m \in out
      BY <2>1, OutKept
    <2>2. CASE m \in net
      BY <2>2, GrowsStep, MsgGrows, ConnFacts DEF Numbered
    <2> QED BY <2>1, <2>2 DEF Step
  <1> QED BY <1>1, <1>2 DEF Numbered

Acks(n) == {m \in net : m.src = n /\ m.flags \in Plain}
SynAcks(n) == {m \in net : m.src = n /\ m.flags = {"SYN", "ACK"}}

\* Client a has not acknowledged the k-th or a later record of server b, and b has not
\* seen it do so.
NotYet(a, b, k) ==
    /\ \A m \in Acks(a) : \A j \in k..inc[b] : m.ack \notin Nums(b, j)
    /\ conn[b].state = "OPEN" => inc[b] < k

\* An open client is on a record of the server, and has not gone past it.
Opened(a, b) ==
    conn[a].state = "OPEN" =>
      \E k \in 1..inc[b] : conn[a].rcv_irs = IssOf[b][k] /\ NotYet(a, b, k + 1)

\* What a client that waits may be answered is new to it, ...
Offered(a, b) ==
    conn[a].state = "SYN_SENT" =>
      \A m \in SynAcks(b) : m.ack = conn[a].snd_iss =>
          \E k \in 1..inc[b] : m.seq = IssOf[b][k] /\ NotYet(a, b, k)

\* ... also by the record that the server has for it.
Asked(a, b) ==
    conn[a].state = "SYN_SENT" /\ conn[b].state = "SYN_RCVD" /\ conn[b].rcv_irs = conn[a].snd_iss
      => NotYet(a, b, inc[b])

\* The answers of the server's record are to the client that made it.
Answered(b) ==
    conn[b].state \in {"SYN_RCVD", "OPEN"} =>
      \A m \in SynAcks(b) : m.seq = conn[b].snd_iss => m.ack \in {0, conn[b].rcv_irs}

\* What n believes p to have received, p has received.
KnownTo(n, p) ==
    /\ conn[n].snd_una <= conn[p].rcv_cur
    /\ \A m \in Acks(p) : m.ack \in Nums(n, inc[n]) => m.ack <= conn[p].rcv_cur

Matched(a, b) ==
    conn[a].state = "OPEN" /\ Live(b) /\ conn[a].rcv_irs = conn[b].snd_iss =>
      conn[b].rcv_irs = conn[a].snd_iss /\ KnownTo(a, b) /\ KnownTo(b, a)

Joined(a, b) == Opened(a, b) /\ Offered(a, b) /\ Asked(a, b) /\ Answered(b) /\ Matched(a, b)

\* Only the node that takes a step puts something out.
LEMMA OutSrc ==
    ASSUME ConnBase, Numbered, ClientServer, NEW n \in Node, NEW d \in Record,
           NEW out \in SUBSET Segment, NEW ev \in SUBSET Event, Step(n, d, out, ev), NEW o \in out
    PROVE  o.src = n
  <1>0. StepKind(n, d, out, ev) /\ conn[n].snd_iss \in Int /\ conn[n].rcv_cur \in Int /\ conn[n].snd_nxt \in Int
    BY ConnFacts DEF Step, Record
  <1>1. d.snd_nxt \in Int /\ d.rcv_cur \in Int /\ d.snd_iss \in Int /\ d.rcv_irs \in Int
    BY DEF Record
  <1>2. CASE Connects(n, d, out, ev)
    BY <1>1, <1>2, ConnectsFacts, SegFacts, FlagFacts
  <1>3. CASE Accepts(n, d, out, ev)
    BY <1>1, <1>3, AcceptsFacts, SegFacts, FlagFacts
  <1>4. CASE Waits(n, d, out, ev)
    BY <1>0, <1>4 DEF Waits, Seg, AckSeg
  <1>5. CASE Opens(n, d, out, ev)
    BY <1>5, OpensFacts DEF Seg, AckSeg
  <1>6. CASE Establishes(n, d, out, ev)
    BY <1>6 DEF Establishes
  <1>7. CASE GoesOn(n, d, out, ev)
    BY <1>7 DEF GoesOn
  <1>8. CASE Ends(n, d, out, ev)
    BY <1>8 DEF Ends
  <1> QED BY <1>0, <1>2, <1>3, <1>4, <1>5, <1>6, <1>7, <1>8, ClientKinds, ServerKinds

\* The acknowledgements under way after a step.
LEMMA AcksStep ==
    ASSUME ConnBase, Numbered, ClientServer, NEW n \in Node, NEW d \in Record,
           NEW out \in SUBSET Segment, NEW ev \in SUBSET Event, Step(n, d, out, ev)
    PROVE  /\ Acks(Peer(n))' \subseteq Acks(Peer(n)) /\ SynAcks(Peer(n))' \subseteq SynAcks(Peer(n))
           /\ \A m \in Acks(n)' : m \in Acks(n) \/ (m \in out /\ m.flags \in Plain)
           /\ \A m \in SynAcks(n)' : m \in SynAcks(n) \/ (m \in out /\ m.flags = {"SYN", "ACK"})
  <1>1. net' \subseteq net \cup out /\ \A o \in out : o.src = n
    BY OutSrc DEF Step
  <1>2. Peer(n) # n /\ Peer(n)' = Peer(n)
    BY PeerFacts DEF Peer
  <1> QED BY <1>1, <1>2 DEF Acks, SynAcks

\* The step of a record that goes on, whether open or not.
Continues(n, d, out) ==
    LET c == conn[n]
    IN  /\ Live(n) /\ inc' = inc /\ d.snd_iss = c.snd_iss /\ d.rcv_irs = c.rcv_irs
        /\ c.state \in {"SYN_RCVD", "OPEN"} => c.rcv_cur <= d.rcv_cur
        /\ \A o \in out : o.flags \in Plain => o.ack = d.rcv_cur /\ c.state # "SYN_SENT"
        /\ \A o \in out : o.flags = {"SYN", "ACK"} =>
             d.state = "SYN_RCVD" /\ o.seq = d.snd_iss /\ o.ack \in {0, d.rcv_irs}
        /\ \/ d.snd_una = c.snd_una
           \/ \E m \in From(n) : PlainOK(m) /\ d.snd_una = m.ack /\ m.ack \in Nums(n, inc[n])
        /\ \/ d.state = c.state
           \/ /\ c.state = "SYN_RCVD" /\ d.state = "OPEN"
              /\ \E m \in From(n) : PlainOK(m) /\ m.ack = c.snd_iss

\* The three kinds of steps that go on with a record.
LEMMA ContinuesStep ==
    ASSUME ConnBase, Numbered, ClientServer, IssApart, NEW n \in Node, NEW d \in Record,
           NEW out \in SUBSET Segment, NEW ev \in SUBSET Event,
           Waits(n, d, out, ev) \/ Establishes(n, d, out, ev) \/ GoesOn(n, d, out, ev)
    PROVE  Continues(n, d, out)
  <1> DEFINE c == conn[n]
  <1>0. /\ c \in Record /\ c.snd_iss \in Int /\ c.snd_nxt \in Int /\ c.rcv_cur \in Int /\ c.rcv_irs \in Int
        /\ d.rcv_cur \in Int /\ WindowOK(c, told[n])
    BY ConnFacts DEF Record
  <1>1. CASE Waits(n, d, out, ev)
    <2>1. Same(c, d) /\ inc' = inc /\ c.state \in {"SYN_SENT", "SYN_RCVD"} /\ c.rcv_cur = c.rcv_irs
      BY <1>0, <1>1 DEF Waits, WindowOK
    <2>2. ASSUME NEW o \in out
          PROVE  /\ o.flags \in Plain => o.ack = d.rcv_cur /\ c.state # "SYN_SENT"
                 /\ o.flags = {"SYN", "ACK"} =>
                      d.state = "SYN_RCVD" /\ o.seq = d.snd_iss /\ o.ack \in {0, d.rcv_irs}
      <3>1. \/ o = Seg(n, {"SYN"}, c.snd_iss, 0)
            \/ c.state = "SYN_RCVD" /\ \E ack \in {0, c.rcv_cur} : o = Seg(n, {"SYN", "ACK"}, c.snd_iss, ack)
            \/ c.state = "SYN_RCVD" /\ o = Seg(n, {"ACK"}, c.snd_nxt, c.rcv_cur)
            \/ o.flags = {"RST"}
        BY <1>1 DEF Waits, AckSeg, Answer
      <3>2. CASE o = Seg(n, {"SYN"}, c.snd_iss, 0)
        <4>1. o.flags = {"SYN"}
          BY <1>0, <3>2, SegFacts, FlagFacts
        <4> QED BY <4>1 DEF Plain, PlainAck
      <3>3. ASSUME NEW ack \in {0, c.rcv_cur}, c.state = "SYN_RCVD", o = Seg(n, {"SYN", "ACK"}, c.snd_iss, ack)
            PROVE  /\ o.flags = {"SYN", "ACK"} /\ d.state = "SYN_RCVD" /\ o.seq = d.snd_iss
                   /\ o.ack \in {0, d.rcv_irs} /\ o.flags \notin Plain
        <4>1. o.flags = {"SYN", "ACK"} /\ o.seq = c.snd_iss /\ o.ack = ack
          BY <1>0, <3>3, SegFacts, FlagFacts
        <4> QED BY <2>1, <3>3, <4>1 DEF Same, Plain, PlainAck
      <3>4. CASE c.state = "SYN_RCVD" /\ o = Seg(n, {"ACK"}, c.snd_nxt, c.rcv_cur)
        <4>1. o.flags = {"ACK"} /\ o.ack = c.rcv_cur
          BY <1>0, <3>4, SegFacts, FlagFacts
        <4> QED BY <2>1, <3>4, <4>1 DEF Same
      <3>5. CASE o.flags = {"RST"}
        BY <3>5 DEF Plain, PlainAck
      <3> QED BY <3>1, <3>2, <3>3, <3>4, <3>5
    <2> QED BY <1>0, <2>1, <2>2 DEF Continues, Same, Live
  <1>2. CASE Establishes(n, d, out, ev)
    <2>1. /\ c.state = "SYN_RCVD" /\ d.state = "OPEN" /\ inc' = inc /\ d.snd_iss = c.snd_iss
          /\ d.snd_una = c.snd_una
          /\ \A o \in out : o.src = n /\ o.flags \in PlainAck /\ o.ack = d.rcv_cur
      BY <1>2 DEF Establishes
    <2>2. PICK m \in From(n) : /\ m.flags \in {{"ACK"}, {"ACK", "DATA"}} /\ m.ack = c.snd_iss
                               /\ Took(c, d, "DATA" \in m.flags, m.seq)
      BY <1>2 DEF Establishes
    <2>3. PlainOK(m) /\ m.seq \in Int /\ ("DATA" \in m.flags => UsedData(Peer(n), m.seq))
      BY <2>2, FromFacts DEF PlainOK, Segment
    <2>4. d.rcv_irs = c.rcv_irs /\ c.rcv_cur <= d.rcv_cur
      BY <2>1, <2>2, <2>3, TookRecvs
    <2>5. \A o \in out : o.ack = d.rcv_cur /\ o.flags # {"SYN", "ACK"}
      BY <2>1 DEF PlainAck
    <2> QED BY <2>1, <2>2, <2>3, <2>4, <2>5 DEF Continues, Live
  <1>3. CASE GoesOn(n, d, out, ev)
    <2>1. /\ c.state = "OPEN" /\ d.state = "OPEN" /\ inc' = inc /\ d.snd_iss = c.snd_iss
          /\ \A o \in out : o.src = n /\ o.flags \in Plain /\ o.ack = d.rcv_cur
      BY <1>3 DEF GoesOn
    <2>2. PICK m \in From(n) \cup {AckSeg(n, c)} : Takes(n, c, d, m)
      BY <1>3 DEF GoesOn
    <2>3. m \in From(n) => m.seq \in Int /\ ("DATA" \in m.flags => UsedData(Peer(n), m.seq))
      BY FromFacts DEF PlainOK, Segment
    <2>4. m.seq \in Int
      BY <1>0, <2>3, SegFacts, FlagFacts DEF AckSeg
    <2>5. Took(c, d, m \in From(n) /\ "DATA" \in m.flags, m.seq)
      BY <2>2 DEF Takes
    <2>6. d.rcv_irs = c.rcv_irs /\ c.rcv_cur <= d.rcv_cur
      BY <2>1, <2>3, <2>4, <2>5, TookRecvs
    <2>7. \/ d.snd_una = c.snd_una
          \/ \E q \in From(n) : PlainOK(q) /\ d.snd_una = q.ack /\ q.ack \in Nums(n, inc[n])
      <3>1. CASE d.snd_una # c.snd_una
        <4>1. /\ m \in From(n) /\ "ACK" \in m.flags /\ d.snd_una = m.ack
              /\ m.ack \in c.snd_una..(c.snd_nxt - 1) /\ m.flags \cap {"RST", "SYN"} = {}
          BY <2>2, <3>1 DEF Takes
        <4>2. {"RST", "SYN"} \cap m.flags = {}
          BY <4>1
        <4>3. PlainOK(m)
          BY <4>1, <4>2, FromFacts
        <4>4. /\ c.snd_una \in c.snd_iss..(c.snd_nxt - 1) /\ c.snd_nxt - 1 \in c.snd_iss..(c.snd_iss + MaxData[n])
              /\ Nums(n, inc[n]) = c.snd_iss..(c.snd_iss + MaxData[n]) /\ MaxData[n] \in Nat
              /\ c.snd_una \in Int
          BY <2>1, SendFacts
        <4>5. m.ack \in Nums(n, inc[n])
          BY <1>0, <4>1, <4>4
        <4> QED BY <4>1, <4>3, <4>5
      <3> QED BY <3>1
    <2>8. \A o \in out : o.ack = d.rcv_cur /\ o.flags # {"SYN", "ACK"}
      BY <2>1 DEF Plain, PlainAck
    <2> QED BY <2>1, <2>6, <2>7, <2>8 DEF Continues, Live
  <1> QED BY <1>1, <1>2, <1>3

\* What a datagram of Acks(a) acknowledges is a number of one record of its peer.
LEMMA AcksFacts ==
    ASSUME ConnBase, Numbered, IssApart, NEW a \in Node, NEW m \in Acks(a)
    PROVE  /\ m \in From(Peer(a)) /\ m.ack \in Int
           /\ \E i \in 1..inc[Peer(a)] : /\ m.ack \in Nums(Peer(a), i) /\ Reached(Peer(a), i, m.ack)
                                         /\ \A j \in 1..Len(IssOf[Peer(a)]) : m.ack \in Nums(Peer(a), j) => j = i
  <1>0. Peer(a) \in Node /\ Peer(Peer(a)) = a /\ m \in net /\ m.src = a /\ m.flags \in Plain
        /\ inc[Peer(a)] <= Len(IssOf[Peer(a)]) /\ inc[Peer(a)] \in Nat /\ Len(IssOf[Peer(a)]) \in Nat
    BY PeerFacts, ConnFacts, ConnAssumption DEF Acks, Numbered
  <1>1. m \in From(Peer(a))
    BY <1>0 DEF From
  <1>2. PlainOK(m) /\ m.ack \in Int
    <2>1. "ACK" \in m.flags /\ {"RST", "SYN"} \cap m.flags = {}
      BY <1>0 DEF Plain, PlainAck
    <2> QED BY <1>0, <1>1, <2>1, FromFacts DEF Segment
  <1>3. PICK i \in 1..inc[Peer(a)] : m.ack \in Nums(Peer(a), i) /\ Reached(Peer(a), i, m.ack)
    BY <1>0, <1>2 DEF PlainOK, Used
  <1>4. i \in 1..Len(IssOf[Peer(a)])
    BY <1>0
  <1>5. \A j \in 1..Len(IssOf[Peer(a)]) : m.ack \in Nums(Peer(a), j) => j = i
    BY <1>0, <1>3, <1>4, NumsApart
  <1> QED BY <1>1, <1>2, <1>3, <1>5

\* The first number of a record is its own.
LEMMA IssOnce ==
    ASSUME IssApart, NEW n \in Node, NEW i \in 1..Len(IssOf[n]), NEW j \in 1..Len(IssOf[n]),
           IssOf[n][i] = IssOf[n][j]
    PROVE  i = j
  <1>1. IssOf[n][i] \in Nat /\ IssOf[n][j] \in Nat /\ MaxData[n] \in Nat
    BY IssFacts
  <1>2. IssOf[n][i] \in Nums(n, i) /\ IssOf[n][i] \in Nums(n, j)
    BY <1>1 DEF Nums
  <1> QED BY <1>2, NumsApart

\* A step of the server does not make an acknowledgement of the client.
LEMMA ServerNotYet ==
    ASSUME ConnBase, Numbered, ClientServer, IssApart, NEW a \in Node, NEW b \in Node, b = Peer(a),
           b \notin Clients, NEW d \in Record, NEW out \in SUBSET Segment, NEW ev \in SUBSET Event,
           Step(b, d, out, ev), NEW k \in 1..(inc[b] + 1), NotYet(a, b, k)
    PROVE  NotYet(a, b, k)'
  <1>0. /\ Peer(b) = a /\ StepKind(b, d, out, ev) /\ conn'[b] = d /\ inc[b] \in Nat
        /\ inc[b] <= Len(IssOf[b]) /\ Len(IssOf[b]) \in Nat /\ inc'[b] <= Len(IssOf[b])
    <2>1. Len(IssOf[b]) \in Nat
      BY ConnAssumption
    <2>2. inc'[b] <= Len(IssOf[b])
      BY SendKept
    <2> QED BY <2>1, <2>2, PeerFacts, ConnFacts DEF Step, Numbered
  <1>1. Acks(a)' \subseteq Acks(a)
    <2>1. Acks(Peer(b))' \subseteq Acks(Peer(b))
      BY AcksStep
    <2>2. Acks(Peer(b))' = Acks(a)' /\ Acks(Peer(b)) = Acks(a)
      BY <1>0 DEF Acks, Peer
    <2> QED BY <2>1, <2>2
  <1>2. inc'[b] = inc[b] \/ (inc'[b] = inc[b] + 1 /\ d.state = "SYN_RCVD")
    <2>1. CASE Accepts(b, d, out, ev)
      BY <2>1, AcceptsFacts
    <2>2. CASE ~ Accepts(b, d, out, ev)
      BY <1>0, <2>2, ServerKinds DEF Waits, Establishes, GoesOn, Ends
    <2> QED BY <2>1, <2>2
  <1>3. ASSUME NEW m \in Acks(a)', NEW j \in k..inc'[b] PROVE m.ack \notin Nums(b, j)
    <2>1. m \in Acks(a)
      BY <1>1
    <2>2. CASE j \in k..inc[b]
      BY <2>1, <2>2 DEF NotYet
    <2>3. CASE j = inc[b] + 1 /\ inc'[b] = inc[b] + 1
      <3>1. PICK i \in 1..inc[b] : \A q \in 1..Len(IssOf[b]) : m.ack \in Nums(b, q) => q = i
        BY <2>1, AcksFacts
      <3>2. j \in 1..Len(IssOf[b])
        BY <1>0, <2>3
      <3> QED BY <1>0, <2>3, <3>1, <3>2
    <2> QED BY <1>0, <1>2, <2>2, <2>3
  <1>4. d.state = "OPEN" => inc'[b] < k
    <2> SUFFICES ASSUME d.state = "OPEN" PROVE inc'[b] < k
      OBVIOUS
    <2>1. inc'[b] = inc[b] /\ ~ Accepts(b, d, out, ev)
      BY <1>2, AcceptsFacts
    <2>2. CASE GoesOn(b, d, out, ev)
      BY <2>1, <2>2 DEF GoesOn, NotYet
    <2>3. CASE Establishes(b, d, out, ev)
      <3>1. PICK m \in From(b) : m.flags \in {{"ACK"}, {"ACK", "DATA"}} /\ m.ack = conn[b].snd_iss
        BY <2>3 DEF Establishes
      <3>2. m \in Acks(a)
        BY <1>0, <3>1 DEF From, Acks, Plain, PlainAck
      <3>3. conn[b].snd_iss \in Nums(b, inc[b])
        <4>1. conn[b].state # "NONE"
          BY <2>3 DEF Establishes
        <4>2. /\ Nums(b, inc[b]) = conn[b].snd_iss..(conn[b].snd_iss + MaxData[b]) /\ MaxData[b] \in Nat
              /\ conn[b].snd_iss \in Nat
          BY <4>1, SendFacts
        <4> QED BY <4>2
      <3>4. inc[b] \notin k..inc[b]
        BY <3>1, <3>2, <3>3 DEF NotYet
      <3> QED BY <1>0, <2>1, <3>4
    <2>4. CASE Waits(b, d, out, ev)
      BY <2>4 DEF Waits, Same
    <2>5. CASE Ends(b, d, out, ev)
      BY <2>5 DEF Ends, Dead
    <2> QED BY <1>0, <2>1, <2>2, <2>3, <2>4, <2>5, ServerKinds
  <1> QED BY <1>0, <1>3, <1>4 DEF NotYet, Nums

\* A step of the server keeps what the two ends know of each other.
LEMMA ServerJoined ==
    ASSUME ConnBase, Numbered, ClientServer, IssApart, NEW a \in Clients, NEW b \in Node, b = Peer(a),
           Joined(a, b), NEW d \in Record, NEW out \in SUBSET Segment, NEW ev \in SUBSET Event,
           Step(b, d, out, ev)
    PROVE  Joined(a, b)'
  <1>0. /\ a \in Node /\ Peer(b) = a /\ b \notin Clients /\ StepKind(b, d, out, ev) /\ conn'[b] = d
        /\ conn'[a] = conn[a] /\ inc'[a] = inc[a] /\ inc[b] \in Nat /\ inc'[b] \in Nat /\ inc'[b] >= inc[b]
        /\ inc[b] <= Len(IssOf[b]) /\ Len(IssOf[b]) \in Nat /\ SendOK(b)' /\ inc'[b] <= Len(IssOf[b])
        /\ RecvOK(a)
    <2>1. a \in Node
      BY ConnAssumption
    <2>2. Peer(b) = a /\ b \notin Clients
      BY <2>1, PeerFacts DEF ClientServer
    <2>3. Grows(b) /\ SendOK(b)' /\ inc'[b] <= Len(IssOf[b])
      BY GrowsStep, SendKept
    <2>5. Len(IssOf[b]) \in Nat
      BY ConnAssumption
    <2>4. inc'[b] >= inc[b] /\ inc[b] \in Nat /\ inc'[b] \in Nat
      BY <2>3 DEF Grows
    <2> QED BY <2>1, <2>2, <2>3, <2>4, <2>5 DEF Step, Numbered
  <1>1. Acks(a)' \subseteq Acks(a)
    <2>1. Acks(Peer(b))' \subseteq Acks(Peer(b))
      BY AcksStep
    <2>2. Acks(Peer(b))' = Acks(a)' /\ Acks(Peer(b)) = Acks(a)
      BY <1>0 DEF Acks, Peer
    <2> QED BY <2>1, <2>2
  <1>2. \A k \in 1..(inc[b] + 1) : NotYet(a, b, k) => NotYet(a, b, k)'
    BY <1>0, ServerNotYet
  <1>3. Opened(a, b)'
    <2> SUFFICES ASSUME conn[a].state = "OPEN"
                 PROVE  \E k \in 1..inc'[b] : conn[a].rcv_irs = IssOf[b][k] /\ NotYet(a, b, k + 1)'
      BY <1>0 DEF Opened
    <2>1. PICK k \in 1..inc[b] : conn[a].rcv_irs = IssOf[b][k] /\ NotYet(a, b, k + 1)
      BY DEF Joined, Opened
    <2>2. k + 1 \in 1..(inc[b] + 1) /\ k \in 1..inc'[b]
      BY <1>0
    <2> QED BY <1>2, <2>1, <2>2
  <1>4. \A m \in SynAcks(b)' : m \in SynAcks(b) \/
           (d.state = "SYN_RCVD" /\ m.seq = d.snd_iss /\ m.ack \in {0, d.rcv_irs})
    <2>1. SUFFICES ASSUME NEW m \in out, m.flags = {"SYN", "ACK"}
                   PROVE  d.state = "SYN_RCVD" /\ m.seq = d.snd_iss /\ m.ack \in {0, d.rcv_irs}
      BY AcksStep
    <2>2. CASE Accepts(b, d, out, ev)
      BY <2>1, <2>2, AcceptsFacts, SegFacts, FlagFacts
    <2>3. CASE Waits(b, d, out, ev) \/ Establishes(b, d, out, ev) \/ GoesOn(b, d, out, ev)
      <3>1. Continues(b, d, out)
        BY <2>3, ContinuesStep
      <3> QED BY <2>1, <3>1 DEF Continues
    <2>4. CASE Ends(b, d, out, ev)
      BY <2>1, <2>4 DEF Ends, PlainAck, Answer
    <2> QED BY <1>0, <2>2, <2>3, <2>4, ServerKinds
  <1>5. Asked(a, b)'
    <2> SUFFICES ASSUME conn[a].state = "SYN_SENT", d.state = "SYN_RCVD", d.rcv_irs = conn[a].snd_iss
                 PROVE  NotYet(a, b, inc[b])'
      BY <1>0 DEF Asked
    <2>1. CASE Accepts(b, d, out, ev)
      <3>1. inc'[b] = inc[b] + 1 /\ conn[b].state = "NONE"
        BY <2>1, AcceptsFacts, ZenonT(60) DEF Accepts
      <3>2. NotYet(a, b, inc[b] + 1)
        BY <1>0 DEF NotYet
      <3>3. PICK k \in 1..(inc[b] + 1) : k = inc[b] + 1
        <4>1. inc[b] \in Nat
          BY <1>0
        <4> QED BY <4>1
      <3>4. NotYet(a, b, k)'
        BY <1>2, <3>2, <3>3
      <3> QED BY <3>1, <3>3, <3>4 DEF NotYet
    <2>2. CASE Waits(b, d, out, ev) \/ Establishes(b, d, out, ev) \/ GoesOn(b, d, out, ev)
      <3>1. conn[b].state = "SYN_RCVD" /\ inc' = inc /\ conn[b].rcv_irs = d.rcv_irs
        BY <2>2, ContinuesStep DEF Continues
      <3>2. NotYet(a, b, inc[b]) /\ inc[b] > 0
        BY <3>1, SendFacts DEF Joined, Asked
      <3>3. PICK k \in 1..(inc[b] + 1) : k = inc[b]
        BY <1>0, <3>2
      <3>4. NotYet(a, b, k)'
        BY <1>2, <3>2, <3>3
      <3> QED BY <3>1, <3>3, <3>4 DEF NotYet
    <2>3. CASE Ends(b, d, out, ev)
      BY <2>3 DEF Ends, Dead
    <2> QED BY <1>0, <2>1, <2>2, <2>3, ServerKinds
  <1>6. Offered(a, b)'
    <2> SUFFICES ASSUME conn[a].state = "SYN_SENT", NEW m \in SynAcks(b)', m.ack = conn[a].snd_iss
                 PROVE  \E k \in 1..inc'[b] : m.seq = IssOf[b][k] /\ NotYet(a, b, k)'
      BY <1>0 DEF Offered
    <2>1. CASE m \in SynAcks(b)
      <3>1. PICK k \in 1..inc[b] : m.seq = IssOf[b][k] /\ NotYet(a, b, k)
        BY <2>1 DEF Joined, Offered
      <3>2. k \in 1..(inc[b] + 1) /\ k \in 1..inc'[b]
        BY <1>0
      <3> QED BY <1>2, <3>1, <3>2
    <2>2. CASE d.state = "SYN_RCVD" /\ m.seq = d.snd_iss /\ m.ack \in {0, d.rcv_irs}
      <3>1. conn[a].snd_iss >= 1 /\ conn[a].snd_iss \in Nat
        BY <1>0, SendFacts
      <3>2. d.rcv_irs = conn[a].snd_iss
        BY <2>2, <3>1
      <3>3. NotYet(a, b, inc[b])'
        BY <1>0, <1>5, <2>2, <3>2 DEF Asked
      <3>4. inc'[b] > 0 /\ m.seq = IssOf[b][inc'[b]]
        BY <1>0, <2>2 DEF SendOK
      <3>5. PICK k \in 1..inc'[b] : k = inc'[b]
        BY <1>0, <3>4
      <3>6. NotYet(a, b, k)'
        BY <3>3, <3>5 DEF NotYet
      <3> QED BY <3>4, <3>5, <3>6
    <2> QED BY <1>4, <2>1, <2>2
  <1>7. Answered(b)'
    <2> SUFFICES ASSUME d.state \in {"SYN_RCVD", "OPEN"}, NEW m \in SynAcks(b)', m.seq = d.snd_iss
                 PROVE  m.ack \in {0, d.rcv_irs}
      BY <1>0 DEF Answered
    <2>1. CASE m \notin SynAcks(b)
      BY <1>4, <2>1
    <2>2. CASE m \in SynAcks(b) /\ Accepts(b, d, out, ev)
      <3>1. d.snd_iss = IssOf[b][inc[b] + 1] /\ inc[b] + 1 \in 1..Len(IssOf[b])
        BY <2>2, AcceptsFacts
      <3>2. UsedIss(b, m.seq)
        <4>1. m \in From(a) /\ m.flags = {"SYN", "ACK"} /\ m.src = b
          BY <2>2 DEF SynAcks, From
        <4> QED BY <1>0, <4>1, FromFacts DEF SynAckOK
      <3>3. PICK i \in 1..inc[b] : m.seq = IssOf[b][i]
        BY <3>2 DEF UsedIss
      <3>4. i \in 1..Len(IssOf[b]) /\ i # inc[b] + 1
        BY <1>0
      <3> QED BY <3>1, <3>3, <3>4, IssOnce
    <2>3. CASE m \in SynAcks(b) /\ (Waits(b, d, out, ev) \/ Establishes(b, d, out, ev) \/ GoesOn(b, d, out, ev))
      <3>1. Continues(b, d, out)
        BY <2>3, ContinuesStep
      <3>2. conn[b].state \in {"SYN_RCVD", "OPEN"} /\ d.snd_iss = conn[b].snd_iss /\ d.rcv_irs = conn[b].rcv_irs
        BY <3>1 DEF Continues
      <3> QED BY <2>3, <3>2 DEF Joined, Answered
    <2>4. CASE Ends(b, d, out, ev)
      BY <2>4 DEF Ends, Dead
    <2> QED BY <1>0, <2>1, <2>2, <2>3, <2>4, ServerKinds
  <1>8. Matched(a, b)'
    <2> SUFFICES ASSUME conn[a].state = "OPEN", d.state \in {"SYN_SENT", "SYN_RCVD", "OPEN"},
                        conn[a].rcv_irs = d.snd_iss
                 PROVE  d.rcv_irs = conn[a].snd_iss /\ KnownTo(a, b)' /\ KnownTo(b, a)'
      BY <1>0 DEF Matched, Live
    <2>1. CASE Accepts(b, d, out, ev)
      <3>1. d.snd_iss = IssOf[b][inc[b] + 1] /\ inc[b] + 1 \in 1..Len(IssOf[b])
        BY <2>1, AcceptsFacts
      <3>2. PICK i \in 1..inc[b] : conn[a].rcv_irs = IssOf[b][i]
        BY DEF Joined, Opened
      <3>3. i \in 1..Len(IssOf[b]) /\ i # inc[b] + 1
        BY <1>0
      <3> QED BY <3>1, <3>2, <3>3, IssOnce
    <2>2. CASE Waits(b, d, out, ev) \/ Establishes(b, d, out, ev) \/ GoesOn(b, d, out, ev)
      <3>1. Continues(b, d, out)
        BY <2>2, ContinuesStep
      <3>2. /\ Live(b) /\ d.snd_iss = conn[b].snd_iss /\ d.rcv_irs = conn[b].rcv_irs /\ inc' = inc
            /\ conn[b].state # "SYN_SENT"
        BY <1>0, <3>1 DEF Continues, Numbered, SendOK
      <3>3. conn[b].rcv_irs = conn[a].snd_iss /\ KnownTo(a, b) /\ KnownTo(b, a)
        BY <3>2 DEF Joined, Matched
      <3>4. /\ conn[b].rcv_cur <= d.rcv_cur /\ conn[b].rcv_cur \in Int /\ d.rcv_cur \in Int
            /\ conn[a].snd_una \in Int
        <4>1. conn[b] \in Record /\ conn[a] \in Record
          BY <1>0, ConnFacts
        <4>2. conn[b].state \in {"SYN_RCVD", "OPEN"}
          BY <3>2 DEF Live
        <4> QED BY <3>1, <4>1, <4>2 DEF Continues, Record
      <3>5. KnownTo(a, b)'
        <4>1. conn[a].snd_una <= d.rcv_cur
          BY <3>3, <3>4 DEF KnownTo
        <4>2. ASSUME NEW m \in Acks(b)', m.ack \in Nums(a, inc[a]) PROVE m.ack <= d.rcv_cur
          <5>1. CASE m \in Acks(b)
            <6>1. m.ack \in Int
              BY <5>1, AcksFacts
            <6> QED BY <3>3, <3>4, <4>2, <5>1, <6>1 DEF KnownTo
          <5>2. CASE m \in out /\ m.flags \in Plain
            BY <3>1, <3>4, <5>2 DEF Continues
          <5> QED BY <5>1, <5>2, AcksStep
        <4> QED BY <1>0, <4>1, <4>2 DEF KnownTo, Nums
      <3>6. KnownTo(b, a)'
        <4>1. d.snd_una <= conn[a].rcv_cur
          <5>1. CASE d.snd_una = conn[b].snd_una
            BY <3>3, <5>1 DEF KnownTo
          <5>2. ASSUME NEW m \in From(b), PlainOK(m), d.snd_una = m.ack, m.ack \in Nums(b, inc[b])
                PROVE  d.snd_una <= conn[a].rcv_cur
            <6>1. m \in Acks(a)
              BY <1>0, <5>2 DEF From, Acks, PlainOK
            <6> QED BY <3>3, <5>2, <6>1 DEF KnownTo
          <5> QED BY <3>1, <5>1, <5>2 DEF Continues
        <4>2. \A m \in Acks(a)' : m.ack \in Nums(b, inc[b]) => m.ack <= conn[a].rcv_cur
          BY <1>1, <3>3 DEF KnownTo
        <4> QED BY <1>0, <3>2, <4>1, <4>2 DEF KnownTo, Nums
      <3> QED BY <3>2, <3>3, <3>5, <3>6
    <2>3. CASE Ends(b, d, out, ev)
      BY <2>3 DEF Ends, Dead
    <2> QED BY <1>0, <2>1, <2>2, <2>3, ServerKinds
  <1> QED BY <1>3, <1>5, <1>6, <1>7, <1>8 DEF Joined

\* A step of the client does.
LEMMA ClientJoined ==
    ASSUME ConnBase, Numbered, ClientServer, IssApart, NEW a \in Clients, NEW b \in Node, b = Peer(a),
           Joined(a, b), NEW c \in Record, NEW out \in SUBSET Segment, NEW ev \in SUBSET Event,
           Step(a, c, out, ev)
    PROVE  Joined(a, b)'
  <1>0. /\ a \in Node /\ Peer(b) = a /\ b \notin Clients /\ StepKind(a, c, out, ev) /\ conn'[a] = c
        /\ conn'[b] = conn[b] /\ inc'[b] = inc[b] /\ inc[b] \in Nat
        /\ inc[b] <= Len(IssOf[b]) /\ Len(IssOf[b]) \in Nat /\ RecvOK(b) /\ SendOK(b)
        /\ inc[a] <= Len(IssOf[a]) /\ Len(IssOf[a]) \in Nat /\ inc[a] \in Nat
    <2>1. a \in Node
      BY ConnAssumption
    <2>2. Peer(b) = a /\ b \notin Clients
      BY <2>1, PeerFacts DEF ClientServer
    <2>3. Len(IssOf[b]) \in Nat /\ Len(IssOf[a]) \in Nat
      BY <2>1, ConnAssumption
    <2> QED BY <2>1, <2>2, <2>3, ConnFacts DEF Step, Numbered
  <1>1. Acks(b)' \subseteq Acks(b) /\ SynAcks(b)' \subseteq SynAcks(b)
    BY <1>0, AcksStep
  <1>2. \A m \in Acks(a)' : m \in Acks(a) \/ (m \in out /\ m.flags \in Plain)
    BY <1>0, AcksStep
  <1>3. Answered(b)'
    BY <1>0, <1>1 DEF Joined, Answered
  <1>4. ASSUME c.state \notin {"SYN_SENT", "OPEN"} PROVE Joined(a, b)'
    BY <1>0, <1>3, <1>4 DEF Joined, Opened, Offered, Asked, Matched
  <1>5. CASE Connects(a, c, out, ev)
    <2>1. c.state = "SYN_SENT" /\ c.snd_iss = IssOf[a][inc[a] + 1] /\ inc[a] + 1 \in 1..Len(IssOf[a])
      BY <1>0, <1>5, ConnectsFacts
    <2>2. ASSUME UsedIss(a, c.snd_iss) PROVE FALSE
      <3>1. PICK i \in 1..inc[a] : c.snd_iss = IssOf[a][i]
        BY <2>2 DEF UsedIss
      <3>2. i \in 1..Len(IssOf[a]) /\ i # inc[a] + 1
        BY <1>0
      <3> QED BY <1>0, <2>1, <3>1, <3>2, IssOnce
    <2>3. c.snd_iss # 0
      <3>1. IssOf[a][inc[a] + 1] \in Nat /\ IssOf[a][inc[a] + 1] >= Low(a) /\ Low(a) \in {1, 256}
        BY <1>0, <2>1, IssFacts
      <3> QED BY <2>1, <3>1
    <2>4. Offered(a, b)'
      <3> SUFFICES ASSUME NEW m \in SynAcks(b), m.ack = c.snd_iss PROVE FALSE
        BY <1>0, <1>1 DEF Offered
      <3>1. m \in From(a) /\ m.flags = {"SYN", "ACK"}
        BY DEF SynAcks, From
      <3>2. m.ack = 0 \/ UsedIss(a, m.ack)
        BY <1>0, <3>1, FromFacts DEF SynAckOK
      <3> QED BY <2>2, <2>3, <3>2
    <2>5. Asked(a, b)'
      <3> SUFFICES ASSUME conn[b].state = "SYN_RCVD", conn[b].rcv_irs = c.snd_iss PROVE FALSE
        BY <1>0 DEF Asked
      <3> QED BY <1>0, <2>2 DEF RecvOK, Recvs
    <2> QED BY <1>0, <1>3, <2>1, <2>4, <2>5 DEF Joined, Opened, Matched
  <1>6. CASE Waits(a, c, out, ev) /\ conn[a].state = "SYN_SENT"
    <2>1. Continues(a, c, out) /\ c.state = "SYN_SENT"
      BY <1>0, <1>6, ContinuesStep DEF Waits, Same
    <2>2. c.snd_iss = conn[a].snd_iss /\ \A o \in out : o.flags \notin Plain
      BY <1>6, <2>1 DEF Continues
    <2>3. Acks(a)' \subseteq Acks(a)
      BY <1>2, <2>2
    <2>4. ASSUME NEW k, NotYet(a, b, k) PROVE NotYet(a, b, k)'
      BY <1>0, <2>3, <2>4 DEF NotYet, Nums
    <2>5. Offered(a, b)'
      <3> SUFFICES ASSUME NEW m \in SynAcks(b), m.ack = c.snd_iss
                   PROVE  \E k \in 1..inc[b] : m.seq = IssOf[b][k] /\ NotYet(a, b, k)'
        BY <1>0, <1>1 DEF Offered
      <3>1. PICK k \in 1..inc[b] : m.seq = IssOf[b][k] /\ NotYet(a, b, k)
        BY <1>6, <2>2 DEF Joined, Offered
      <3> QED BY <2>4, <3>1
    <2>6. Asked(a, b)'
      <3> SUFFICES ASSUME conn[b].state = "SYN_RCVD", conn[b].rcv_irs = c.snd_iss PROVE NotYet(a, b, inc[b])'
        BY <1>0 DEF Asked
      <3>1. NotYet(a, b, inc[b])
        BY <1>6, <2>2 DEF Joined, Asked
      <3>2. PICK k \in Nat : k = inc[b]
        BY <1>0
      <3>3. NotYet(a, b, k)'
        BY <2>4, <3>1, <3>2
      <3> QED BY <1>0, <3>2, <3>3 DEF NotYet
    <2> QED BY <1>0, <1>3, <2>1, <2>5, <2>6 DEF Joined, Opened, Matched
  <1>7. CASE Opens(a, c, out, ev)
    <2>1. /\ c.state = "OPEN" /\ conn[a].state = "SYN_SENT" /\ inc' = inc
          /\ c.snd_iss = conn[a].snd_iss /\ c.snd_nxt = conn[a].snd_nxt /\ c.snd_una = conn[a].snd_iss
          /\ c.rcv_cur = c.rcv_irs /\ out = {AckSeg(a, c)}
      BY <1>0, <1>7, OpensFacts
    <2>2. PICK m \in From(a) : SynAckOK(m) /\ m.ack = conn[a].snd_iss /\ m.seq = c.rcv_irs
      BY <1>0, <1>7, OpensFacts
    <2>3. m \in SynAcks(b)
      BY <2>2 DEF SynAcks, From, SynAckOK
    <2>4. PICK k \in 1..inc[b] : c.rcv_irs = IssOf[b][k] /\ NotYet(a, b, k)
      BY <2>1, <2>2, <2>3 DEF Joined, Offered
    <2>5. k \in 1..Len(IssOf[b]) /\ k \in Nat
      BY <1>0
    <2>6. IssOf[b][k] \in Nat /\ MaxData[b] \in Nat /\ IssOf[b][k] \in Nums(b, k)
      <3>1. IssOf[b][k] \in Nat /\ MaxData[b] \in Nat
        BY <2>5, IssFacts
      <3> QED BY <3>1 DEF Nums
    <2>7. \A q \in Acks(a)' : q \in Acks(a) \/ q.ack = IssOf[b][k]
      <3>1. AckSeg(a, c).ack = c.rcv_cur
        BY DEF AckSeg, Seg
      <3> QED BY <1>2, <2>1, <2>4, <3>1
    <2>8. NotYet(a, b, k + 1)'
      <3>1. ASSUME NEW q \in Acks(a)', NEW j \in (k + 1)..inc[b] PROVE q.ack \notin Nums(b, j)
        <4>1. j \in k..inc[b] /\ j \in 1..Len(IssOf[b]) /\ j # k
          BY <1>0, <2>5
        <4>2. CASE q \in Acks(a)
          BY <2>4, <4>1, <4>2 DEF NotYet
        <4>3. CASE q.ack = IssOf[b][k]
          BY <2>5, <2>6, <4>1, <4>3, NumsApart
        <4> QED BY <2>7, <4>2, <4>3
      <3>2. conn[b].state = "OPEN" => inc[b] < k + 1
        BY <1>0, <2>4, <2>5 DEF NotYet
      <3> QED BY <1>0, <3>1, <3>2 DEF NotYet, Nums
    <2>9. Opened(a, b)'
      BY <1>0, <2>4, <2>8 DEF Opened
    <2>10. Matched(a, b)'
      <3> SUFFICES ASSUME Live(b), c.rcv_irs = conn[b].snd_iss
                   PROVE  conn[b].rcv_irs = c.snd_iss /\ KnownTo(a, b)' /\ KnownTo(b, a)'
        BY <1>0, <2>1 DEF Matched, Live
      <3>1. /\ conn[b].snd_iss = IssOf[b][inc[b]] /\ inc[b] \in 1..Len(IssOf[b])
            /\ (conn[b].state \in {"SYN_SENT", "SYN_RCVD"} => conn[b].snd_una = conn[b].snd_iss)
        BY SendFacts DEF Live
      <3>2. k = inc[b]
        BY <2>4, <2>5, <3>1, IssOnce
      <3>3. conn[b].state = "SYN_RCVD"
        BY <1>0, <2>4, <3>2 DEF NotYet, Live, SendOK
      <3>4. conn[a].snd_iss >= 1 /\ conn[a].snd_iss \in Nat /\ conn[a].snd_nxt = conn[a].snd_iss + 1
            /\ inc[a] \in 1..Len(IssOf[a])
        BY <1>0, <2>1, SendFacts
      <3>5. conn[b].rcv_irs = c.snd_iss
        <4>1. m.ack \in {0, conn[b].rcv_irs}
          BY <2>2, <2>3, <3>3 DEF Joined, Answered
        <4> QED BY <2>1, <2>2, <3>4, <4>1
      <3>6. conn[b].rcv_cur = c.snd_iss
        BY <3>3, <3>5, ConnFacts DEF WindowOK
      <3>7. KnownTo(a, b)'
        <4>1. ASSUME NEW q \in Acks(b)', q.ack \in Nums(a, inc[a]) PROVE q.ack <= conn[b].rcv_cur
          <5>1. q \in Acks(b)
            BY <1>1
          <5>2. /\ q.ack \in Int
                /\ \E i \in 1..inc[a] : /\ q.ack \in Nums(a, i) /\ Reached(a, i, q.ack)
                                        /\ \A j \in 1..Len(IssOf[a]) : q.ack \in Nums(a, j) => j = i
            BY <1>0, <5>1, AcksFacts
          <5>3. Reached(a, inc[a], q.ack)
            BY <3>4, <4>1, <5>2
          <5>4. q.ack < conn[a].snd_nxt
            BY <2>1, <5>3 DEF Reached, Live
          <5> QED BY <2>1, <3>4, <3>6, <5>2, <5>4
        <4>2. c.snd_una <= conn[b].rcv_cur
          BY <2>1, <3>4, <3>6
        <4> QED BY <1>0, <2>1, <4>1, <4>2 DEF KnownTo, Nums
      <3>8. KnownTo(b, a)'
        <4>1. conn[b].snd_una <= c.rcv_cur
          BY <2>1, <2>4, <2>6, <3>1, <3>3
        <4>2. ASSUME NEW q \in Acks(a)', q.ack \in Nums(b, inc[b]) PROVE q.ack <= c.rcv_cur
          <5>1. CASE q \in Acks(a)
            <6>1. inc[b] \in k..inc[b]
              BY <1>0, <3>2
            <6> QED BY <2>4, <4>2, <5>1, <6>1 DEF NotYet
          <5>2. CASE q.ack = IssOf[b][k]
            BY <2>1, <2>4, <2>6, <5>2
          <5> QED BY <2>7, <5>1, <5>2
        <4> QED BY <1>0, <4>1, <4>2 DEF KnownTo, Nums
      <3> QED BY <3>5, <3>7, <3>8
    <2> QED BY <1>0, <1>3, <2>1, <2>9, <2>10 DEF Joined, Offered, Asked
  <1>8. CASE GoesOn(a, c, out, ev)
    <2>1. Continues(a, c, out) /\ conn[a].state = "OPEN" /\ c.state = "OPEN"
      BY <1>0, <1>8, ContinuesStep DEF GoesOn
    <2>2. /\ c.snd_iss = conn[a].snd_iss /\ c.rcv_irs = conn[a].rcv_irs /\ inc' = inc
          /\ conn[a].rcv_cur <= c.rcv_cur /\ \A o \in out : o.flags \in Plain => o.ack = c.rcv_cur
      BY <2>1 DEF Continues
    <2>3. PICK k \in 1..inc[b] : conn[a].rcv_irs = IssOf[b][k] /\ NotYet(a, b, k + 1)
      BY <2>1 DEF Joined, Opened
    <2>4. k \in 1..Len(IssOf[b]) /\ k \in Nat
      BY <1>0
    <2>5. c.rcv_cur \in Nums(b, k)
      <3>1. Recvs(b, c)
        BY <1>0, <2>1, StepRecvs
      <3> QED BY <2>2, <2>3, <3>1 DEF Recvs, Nums
    <2>6. \A q \in Acks(a)' : q \in Acks(a) \/ q.ack = c.rcv_cur
      BY <1>2, <2>2
    <2>7. NotYet(a, b, k + 1)'
      <3>1. ASSUME NEW q \in Acks(a)', NEW j \in (k + 1)..inc[b] PROVE q.ack \notin Nums(b, j)
        <4>1. j \in 1..Len(IssOf[b]) /\ j # k
          BY <1>0, <2>4
        <4>2. CASE q \in Acks(a)
          BY <2>3, <4>2 DEF NotYet
        <4>3. CASE q.ack = c.rcv_cur
          BY <2>4, <2>5, <4>1, <4>3, NumsApart
        <4> QED BY <2>6, <4>2, <4>3
      <3>2. conn[b].state = "OPEN" => inc[b] < k + 1
        BY <2>3 DEF NotYet
      <3> QED BY <1>0, <3>1, <3>2 DEF NotYet, Nums
    <2>8. Opened(a, b)'
      BY <1>0, <2>2, <2>3, <2>7 DEF Opened
    <2>9. Matched(a, b)'
      <3> SUFFICES ASSUME Live(b), c.rcv_irs = conn[b].snd_iss
                   PROVE  conn[b].rcv_irs = c.snd_iss /\ KnownTo(a, b)' /\ KnownTo(b, a)'
        BY <1>0, <2>1 DEF Matched, Live
      <3>1. conn[b].rcv_irs = conn[a].snd_iss /\ KnownTo(a, b) /\ KnownTo(b, a)
        BY <2>1, <2>2 DEF Joined, Matched
      <3>2. conn[a].rcv_cur \in Int /\ c.rcv_cur \in Int /\ conn[b].snd_una \in Int /\ conn[b].rcv_cur \in Int
        <4>1. conn[a] \in Record /\ conn[b] \in Record
          BY <1>0, ConnFacts
        <4> QED BY <4>1 DEF Record
      <3>3. KnownTo(a, b)'
        <4>1. c.snd_una <= conn[b].rcv_cur
          <5>1. CASE c.snd_una = conn[a].snd_una
            BY <3>1, <5>1 DEF KnownTo
          <5>2. ASSUME NEW m \in From(a), PlainOK(m), c.snd_una = m.ack, m.ack \in Nums(a, inc[a])
                PROVE  c.snd_una <= conn[b].rcv_cur
            <6>1. m \in Acks(b)
              BY <1>0, <5>2 DEF From, Acks, PlainOK
            <6> QED BY <3>1, <5>2, <6>1 DEF KnownTo
          <5> QED BY <2>1, <5>1, <5>2 DEF Continues
        <4>2. \A q \in Acks(b)' : q.ack \in Nums(a, inc[a]) => q.ack <= conn[b].rcv_cur
          BY <1>1, <3>1 DEF KnownTo
        <4> QED BY <1>0, <2>2, <4>1, <4>2 DEF KnownTo, Nums
      <3>4. KnownTo(b, a)'
        <4>1. conn[b].snd_una <= c.rcv_cur
          BY <2>2, <3>1, <3>2 DEF KnownTo
        <4>2. ASSUME NEW q \in Acks(a)', q.ack \in Nums(b, inc[b]) PROVE q.ack <= c.rcv_cur
          <5>1. CASE q \in Acks(a)
            <6>1. q.ack \in Int
              BY <1>0, <5>1, AcksFacts
            <6>2. q.ack <= conn[a].rcv_cur
              BY <3>1, <4>2, <5>1 DEF KnownTo
            <6> QED BY <2>2, <3>2, <6>1, <6>2
          <5>2. CASE q.ack = c.rcv_cur
            BY <3>2, <5>2
          <5> QED BY <2>6, <5>1, <5>2
        <4> QED BY <1>0, <4>1, <4>2 DEF KnownTo, Nums
      <3> QED BY <2>2, <3>1, <3>3, <3>4
    <2> QED BY <1>0, <1>3, <2>1, <2>8, <2>9 DEF Joined, Offered, Asked
  <1>9. CASE Ends(a, c, out, ev)
    BY <1>4, <1>9 DEF Ends, Dead
  <1> QED BY <1>0, <1>5, <1>6, <1>7, <1>8, <1>9, ClientKinds

-----------------------------------------------------------------------------
\* The events of an open record after a step.
LEMMA ToldStep ==
    ASSUME ConnBase, Numbered, ClientServer, IssApart, OpenIsTold, NEW n \in Node, NEW d \in Record,
           NEW out \in SUBSET Segment, NEW ev \in SUBSET Event, Step(n, d, out, ev)
    PROVE  OpenIsTold'
  <1>0. /\ conn'[n] = d /\ told'[n] = Told(n, d, ev) /\ StepKind(n, d, out, ev)
        /\ conn'[Peer(n)] = conn[Peer(n)] /\ told'[Peer(n)] = told[Peer(n)]
    BY DEF Step
  <1>1. WindowOK(conn[n], told[n]) /\ conn[n] \in Record /\ SendOK(n)
    BY ConnFacts DEF Numbered
  <1>2. ASSUME d.state = "OPEN"
        PROVE  /\ "ACCEPTED" \in told'[n] <=> d.is_pasv
               /\ "CONNECTED" \in told'[n] <=> ~ d.is_pasv
    <2>1. told'[n] = told[n] \cup ev
      BY <1>0, <1>2 DEF Told
    <2>2. CASE Opens(n, d, out, ev)
      <3>1. told[n] = {} /\ conn[n].state = "SYN_SENT" /\ ev = {"CONNECTED"}
        BY <1>1, <2>2 DEF Opens, WindowOK
      <3>2. ~ conn[n].is_pasv
        BY <1>1, <3>1 DEF SendOK
      <3>3. d.is_pasv = conn[n].is_pasv
        BY <1>1, <2>2 DEF Opens, Record
      <3> QED BY <2>1, <3>1, <3>2, <3>3
    <2>3. CASE Establishes(n, d, out, ev)
      <3>1. /\ told[n] = {} /\ conn[n].state = "SYN_RCVD" /\ ev \subseteq {"ACCEPTED", "READY2READ"}
            /\ conn[n].is_pasv => "ACCEPTED" \in ev
            /\ d.is_pasv = conn[n].is_pasv
        BY <1>1, <2>3 DEF Establishes, WindowOK
      <3>2. conn[n].is_pasv
        BY <1>1, <3>1 DEF SendOK
      <3> QED BY <2>1, <3>1, <3>2
    <2>4. CASE GoesOn(n, d, out, ev)
      <3>1. conn[n].state = "OPEN" /\ d.is_pasv = conn[n].is_pasv /\ ev \subseteq {"READY2READ"}
        BY <2>4 DEF GoesOn
      <3>2. /\ "ACCEPTED" \in told[n] <=> conn[n].is_pasv
            /\ "CONNECTED" \in told[n] <=> ~ conn[n].is_pasv
        BY <3>1 DEF OpenIsTold
      <3> QED BY <2>1, <3>1, <3>2
    <2>5. CASE Connects(n, d, out, ev)
      BY <1>2, <2>5, ConnectsFacts
    <2>6. CASE Accepts(n, d, out, ev)
      BY <1>2, <2>6, AcceptsFacts
    <2>7. CASE Waits(n, d, out, ev) \/ Ends(n, d, out, ev)
      BY <1>2, <2>7 DEF Waits, Same, Ends, Dead
    <2> QED BY <1>0, <2>2, <2>3, <2>4, <2>5, <2>6, <2>7, ClientKinds, ServerKinds
  <1>3. ASSUME NEW o \in Node, conn'[o].state = "OPEN"
        PROVE  /\ "ACCEPTED" \in told'[o] <=> conn'[o].is_pasv
               /\ "CONNECTED" \in told'[o] <=> ~ conn'[o].is_pasv
    <2>1. CASE o = n
      BY <1>0, <1>2, <1>3, <2>1
    <2>2. CASE o = Peer(n)
      BY <1>0, <1>3, <2>2 DEF OpenIsTold
    <2> QED BY <2>1, <2>2, PeerFacts
  <1> QED BY <1>3 DEF OpenIsTold

\* The inductive invariant.
ConnInv == ConnBase /\ Numbered /\ OpenIsTold /\ \A a \in Clients : Joined(a, Peer(a))

\* The inductive invariant holds at the start, ...
LEMMA ConnInvInit == ConnInit => ConnInv
  <1> SUFFICES ASSUME ConnInit PROVE ConnInv
    OBVIOUS
  <1>1. ConnBase
    BY BaseInit
  <1>2. net = {} /\ \A n \in Node : conn[n] = None /\ inc[n] = 0
    BY DEF ConnInit
  <1>3. None.state = "NONE"
    BY DEF None
  <1>4. \A n \in Node : inc[n] <= Len(IssOf[n])
    <2>1. \A n \in Node : Len(IssOf[n]) \in Nat
      BY ConnAssumption
    <2> QED BY <1>2, <2>1
  <1>5. \A n \in Node : SendOK(n) /\ RecvOK(n)
    BY <1>2, <1>3 DEF SendOK, RecvOK
  <1>6. Numbered
    BY <1>2, <1>4, <1>5 DEF Numbered
  <1>7. OpenIsTold
    BY <1>2, <1>3 DEF OpenIsTold
  <1>8. ASSUME NEW a \in Clients PROVE Joined(a, Peer(a))
    <2>1. a \in Node /\ Peer(a) \in Node
      BY PeerFacts, ConnAssumption
    <2>2. conn[a].state = "NONE" /\ conn[Peer(a)].state = "NONE"
      BY <1>2, <1>3, <2>1
    <2> QED BY <2>2 DEF Joined, Opened, Offered, Asked, Answered, Matched
  <1> QED BY <1>1, <1>6, <1>7, <1>8 DEF ConnInv

\* ... every step keeps it, ...
LEMMA ConnInvStep ==
    ASSUME ClientServer, IssApart, ConnInv, [ConnNext]_connvars PROVE ConnInv'
  <1>0. ConnBase /\ Numbered /\ OpenIsTold /\ \A a \in Clients : Joined(a, Peer(a))
    BY DEF ConnInv
  <1>1. ConnBase'
    BY <1>0, BaseStep
  <1>2. CASE UNCHANGED <<conn, inc, told, net>>
    <2>1. Numbered'
      <3>1. ASSUME NEW n \in Node PROVE Grows(n) /\ conn[n] \in Record /\ inc[n] \in Nat
        <4>1. conn[n] \in Record /\ inc[n] \in Nat /\ conn'[n] = conn[n] /\ inc'[n] = inc[n]
          BY <1>0, <1>2, ConnFacts
        <4> QED BY <4>1 DEF Grows, Live, Record
      <3>2. ASSUME NEW m \in net' PROVE MsgOK(m)'
        <4>1. net' = net
          BY <1>2
        <4>2. m \in net /\ m \in Segment /\ MsgOK(m)
          BY <1>0, <4>1 DEF Numbered, ConnBase, ConnTypeOK
        <4> QED BY <3>1, <4>2, MsgGrows
      <3>3. ASSUME NEW n \in Node PROVE inc'[n] <= Len(IssOf[n]) /\ SendOK(n)'
        BY <1>0, <1>2 DEF Numbered, SendOK, Nums, Peer
      <3>4. ASSUME NEW n \in Node, conn[n].state \in {"SYN_RCVD", "OPEN"} PROVE Recvs(Peer(n), conn[n])'
        <4>1. PICK p \in Node, c \in Record :
                p = Peer(n) /\ Peer(n)' = p /\ c = conn[n] /\ conn'[n] = c /\ Recvs(p, c)
          BY <1>0, <1>2, <3>1, <3>4, PeerFacts DEF Numbered, RecvOK, Peer
        <4>2. c.rcv_irs \in Int /\ c.rcv_cur \in Int /\ \A x \in c.held : x \in Int
          BY DEF Record
        <4>3. Recvs(p, c)'
          BY <3>1, <4>1, <4>2, UsedGrows DEF Recvs
        <4> QED BY <4>1, <4>3
      <3>5. ASSUME NEW n \in Node PROVE RecvOK(n)'
        BY <1>2, <3>4 DEF RecvOK
      <3> QED BY <3>2, <3>3, <3>5 DEF Numbered
    <2>2. OpenIsTold'
      BY <1>0, <1>2 DEF OpenIsTold
    <2>3. ASSUME NEW a \in Clients PROVE Joined(a, Peer(a))'
      <3>1. Joined(a, Peer(a))
        BY <1>0
      <3>2. conn' = conn /\ inc' = inc /\ net' = net /\ Peer(a)' = Peer(a)
        BY <1>2 DEF Peer
      <3>3. Opened(a, Peer(a))'
        BY <3>1, <3>2 DEF Joined, Opened, NotYet, Acks, Nums
      <3>4. Offered(a, Peer(a))'
        BY <3>1, <3>2 DEF Joined, Offered, NotYet, Acks, SynAcks, Nums
      <3>5. Asked(a, Peer(a))'
        BY <3>1, <3>2 DEF Joined, Asked, NotYet, Acks, Nums
      <3>6. Answered(Peer(a))'
        BY <3>1, <3>2 DEF Joined, Answered, SynAcks
      <3>7. Matched(a, Peer(a))'
        BY <3>1, <3>2 DEF Joined, Matched, KnownTo, Acks, Nums, Live
      <3> QED BY <3>3, <3>4, <3>5, <3>6, <3>7 DEF Joined
    <2> QED BY <1>1, <2>1, <2>2, <2>3 DEF ConnInv
  <1>3. ASSUME NEW n \in Node, Stepped(n) PROVE ConnInv'
    <2>1. PICK d \in Record, out \in SUBSET Segment, ev \in SUBSET Event : Step(n, d, out, ev)
      BY <1>0, <1>3, SteppedStep
    <2>2. Numbered' /\ OpenIsTold'
      BY <1>0, <2>1, NumberedStep, ToldStep
    <2>3. ASSUME NEW a \in Clients PROVE Joined(a, Peer(a))'
      <3>1. PICK b \in Node : b = Peer(a) /\ Peer(a)' = b /\ Joined(a, b)
        <4>1. a \in Node /\ Peer(a) \in Node
          BY PeerFacts, ConnAssumption
        <4> QED BY <1>0, <4>1 DEF Peer
      <3>2. n = a \/ n = b
        <4>1. a \in Node
          BY ConnAssumption
        <4> QED BY <3>1, <4>1, PeerFacts
      <3>3. CASE n = a
        <4>1. Step(a, d, out, ev)
          BY <2>1, <3>3
        <4>2. Joined(a, b)'
          BY <1>0, <3>1, <4>1, ClientJoined
        <4> QED BY <3>1, <4>2
      <3>4. CASE n = b
        <4>1. Step(b, d, out, ev)
          BY <2>1, <3>4
        <4>2. Joined(a, b)'
          BY <1>0, <3>1, <4>1, ServerJoined
        <4> QED BY <3>1, <4>2
      <3> QED BY <3>2, <3>3, <3>4
    <2> QED BY <1>1, <2>2, <2>3 DEF ConnInv
  <1> QED BY <1>0, <1>2, <1>3, StepKinds

-----------------------------------------------------------------------------
(* What the invariant says of two open records. *)

\* A client and its server, both open: they have each other's numbers.
LEMMA OpenPair ==
    ASSUME ConnInv, ClientServer, IssApart, NEW a \in Clients, NEW b \in Node, b = Peer(a),
           conn[a].state = "OPEN", conn[b].state = "OPEN"
    PROVE  /\ conn[a].rcv_irs = conn[b].snd_iss /\ conn[b].rcv_irs = conn[a].snd_iss
           /\ conn[a].snd_una <= conn[b].rcv_cur /\ conn[b].snd_una <= conn[a].rcv_cur
  <1>0. ConnBase /\ Numbered /\ Joined(a, b)
    BY DEF ConnInv
  <1>1. inc[b] \in Nat /\ conn[b].snd_iss = IssOf[b][inc[b]]
    BY <1>0, SendFacts
  <1>2. PICK k \in 1..inc[b] : conn[a].rcv_irs = IssOf[b][k] /\ NotYet(a, b, k + 1)
    BY <1>0 DEF Joined, Opened
  <1>3. inc[b] < k + 1
    BY <1>2 DEF NotYet
  <1>4. k = inc[b]
    BY <1>1, <1>3
  <1>5. conn[a].rcv_irs = conn[b].snd_iss
    BY <1>1, <1>2, <1>4
  <1> QED BY <1>0, <1>5 DEF Joined, Matched, Live, KnownTo

\* What an open record has received, its open peer has sent.
LEMMA OpenPairOf ==
    ASSUME ConnInv, ClientServer, IssApart, NEW n \in Node, NEW p \in Node, p = Peer(n),
           conn[n].state = "OPEN", conn[p].state = "OPEN"
    PROVE  /\ conn[n].rcv_irs = conn[p].snd_iss
           /\ conn[p].snd_una <= conn[n].rcv_cur
           /\ conn[n].rcv_cur < conn[p].snd_nxt
           /\ conn[n].rcv_cur \in conn[p].snd_iss..(conn[p].snd_iss + MaxData[p])
           /\ conn[n].rcv_cur \in Int
  <1>0. ConnBase /\ Numbered
    BY DEF ConnInv
  <1>1. conn[n].rcv_irs = conn[p].snd_iss /\ conn[p].snd_una <= conn[n].rcv_cur
    <2>1. CASE n \in Clients
      BY <2>1, OpenPair
    <2>2. CASE p \in Clients
      <3>1. n = Peer(p)
        BY PeerFacts
      <3> QED BY <2>2, <3>1, OpenPair
    <2>3. n \in Clients \/ p \in Clients
      BY <1>0, SendFacts
    <2> QED BY <2>1, <2>2, <2>3
  <1>2. Recvs(p, conn[n]) /\ conn[n].rcv_cur \in Int
    BY <1>0, ConnFacts DEF Numbered, RecvOK, Record
  <1>3. conn[n].rcv_cur \in conn[p].snd_iss..(conn[p].snd_iss + MaxData[p])
    BY <1>1, <1>2 DEF Recvs
  <1>4. /\ inc[p] \in 1..Len(IssOf[p]) /\ inc[p] \in Nat /\ Len(IssOf[p]) \in Nat
        /\ Nums(p, inc[p]) = conn[p].snd_iss..(conn[p].snd_iss + MaxData[p])
    <2>1. Len(IssOf[p]) \in Nat
      BY ConnAssumption
    <2> QED BY <1>0, <2>1, SendFacts
  <1>5. PICK i \in 1..inc[p] : conn[n].rcv_cur \in Nums(p, i) /\ Reached(p, i, conn[n].rcv_cur)
    BY <1>2 DEF Recvs, Used
  <1>6. i \in 1..Len(IssOf[p]) /\ conn[n].rcv_cur \in Nums(p, inc[p])
    BY <1>3, <1>4
  <1>7. i = inc[p]
    BY <1>4, <1>5, <1>6, NumsApart
  <1>8. conn[n].rcv_cur < conn[p].snd_nxt
    BY <1>5, <1>7 DEF Reached, Live
  <1> QED BY <1>1, <1>2, <1>3, <1>8

\* No number of a SYN or a reset that the open peer has sent is in the window.
LEMMA NoReset ==
    ASSUME ConnInv, ClientServer, IssApart, NEW n \in Node, NEW p \in Node, p = Peer(n),
           conn[n].state = "OPEN", conn[p].state = "OPEN",
           NEW m \in From(n), {"RST", "SYN"} \cap m.flags # {}
    PROVE  ~ InWindow(conn[n], m.seq)
  <1>0. ConnBase /\ Numbered
    BY DEF ConnInv
  <1>1. m \in Segment /\ m.src = p /\ m.seq \in Int /\ (SynOK(m) \/ SynAckOK(m) \/ ResetOK(m))
    BY <1>0, FromFacts DEF Segment
  <1> DEFINE u == conn[p].snd_iss
             k == MaxData[p]
             w == 2 * RcvMaxDefault
             cur == conn[n].rcv_cur
  <1>2. cur \in u..(u + k) /\ cur \in Int
    BY OpenPairOf
  <1>3. /\ inc[p] \in 1..Len(IssOf[p]) /\ inc[p] \in Nat /\ u = IssOf[p][inc[p]] /\ u \in Nat
        /\ u >= Low(p) /\ k \in Nat
    BY <1>0, SendFacts
  <1>4. Len(IssOf[p]) \in Nat /\ DOMAIN IssOf[p] = 1..Len(IssOf[p]) /\ w \in Nat /\ RcvMaxDefault \in Nat
        /\ Low(p) \in Nat
    BY ConnAssumption DEF Low
  <1>5. SUFFICES ASSUME m.seq - cur - 1 \in 0..(w - 1) PROVE FALSE
    BY DEF InWindow
  <1>6. m.seq > u /\ m.seq <= u + k + w
    <2>1. /\ m.seq \in Int /\ cur \in Int /\ u \in Int /\ k \in Int /\ w \in Int
          /\ cur >= u /\ cur <= u + k
      BY <1>1, <1>2, <1>3, <1>4
    <2>2. m.seq - cur - 1 \in 0..(w - 1)
      BY <1>5
    <2> HIDE DEF u, k, w, cur
    <2> QED BY <2>1, <2>2
  <1>7. ASSUME NEW i \in 1..inc[p], i # inc[p], NEW x \in IssOf[p][i]..(IssOf[p][i] + k + 1), x = m.seq
        PROVE  FALSE
    <2>1. i \in DOMAIN IssOf[p] /\ inc[p] \in DOMAIN IssOf[p] /\ i < inc[p]
      BY <1>3, <1>4, <1>7
    <2>2. IssOf[p][i] \in Nat
      BY <2>1, ConnAssumption
    <2>3. u > IssOf[p][i] + k \/ IssOf[p][i] > u + k + w
      BY <1>3, <2>1 DEF IssApart
    <2> DEFINE v == IssOf[p][i]
    <2>4. v \in Nat /\ x \in v..(v + k + 1) /\ (u > v + k \/ v > u + k + w)
      BY <2>2, <2>3
    <2>5. x > u /\ x <= u + k + w
      BY <1>6, <1>7
    <2>6. u \in Nat /\ k \in Nat /\ w \in Nat
      BY <1>3, <1>4
    <2> HIDE DEF u, k, w, v
    <2> QED BY <2>4, <2>5, <2>6
  <1>8. ASSUME UsedIss(p, m.seq) PROVE FALSE
    <2>1. PICK i \in 1..inc[p] : m.seq = IssOf[p][i]
      BY <1>8 DEF UsedIss
    <2>2. i # inc[p]
      BY <1>3, <1>6, <2>1
    <2>3. m.seq \in IssOf[p][i]..(IssOf[p][i] + k + 1)
      BY <1>1, <1>3, <2>1
    <2> QED BY <1>7, <2>2, <2>3
  <1>9. ASSUME Over(p, m.seq) PROVE FALSE
    <2>1. m.seq \notin 0..Low(p)
      BY <1>1, <1>3, <1>4, <1>6
    <2>2. PICK i \in 1..inc[p] : m.seq - 1 \in Nums(p, i) /\ (i = inc[p] => ~ Live(p))
      BY <1>9, <2>1 DEF Over
    <2>3. i # inc[p]
      BY <2>2 DEF Live
    <2>4. IssOf[p][i] \in Nat
      <3>1. i \in 1..Len(IssOf[p])
        BY <1>3, <1>4
      <3> QED BY <3>1, IssFacts
    <2>5. m.seq \in IssOf[p][i]..(IssOf[p][i] + k + 1)
      BY <1>1, <1>3, <2>2, <2>4 DEF Nums
    <2> QED BY <1>7, <2>3, <2>5
  <1> QED BY <1>1, <1>8, <1>9 DEF SynOK, SynAckOK, ResetOK

\* One step of two open records.
NoResetAt(n) ==
    LET c == conn[n]  p == conn[Peer(n)]
    IN  c.state = "OPEN" /\ p.state = "OPEN" /\ "RESET" \in told'[n] => "RESET" \in told[n]

\* No step of a node with two open ends tells it of a reset.
LEMMA NoResetStep ==
    ASSUME ConnInv, ClientServer, IssApart, [ConnNext]_connvars, NEW n \in Node PROVE NoResetAt(n)
  <1>0. ConnBase /\ Numbered
    BY DEF ConnInv
  <1> SUFFICES ASSUME conn[n].state = "OPEN", conn[Peer(n)].state = "OPEN", "RESET" \in told'[n],
                      "RESET" \notin told[n]
               PROVE  FALSE
    BY DEF NoResetAt
  <1>1. CASE UNCHANGED <<conn, inc, told, net>>
    BY <1>1
  <1>2. ASSUME NEW o \in Node, Stepped(o), o # n PROVE FALSE
    BY <1>0, <1>2, OthersKeep
  <1>3. CASE Stepped(n)
    <2>1. PICK d \in Record, out \in SUBSET Segment, ev \in SUBSET Event : Step(n, d, out, ev)
      BY <1>0, <1>3, SteppedStep
    <2>2. StepKind(n, d, out, ev) /\ told'[n] = Told(n, d, ev)
      BY <2>1 DEF Step
    <2>3. "RESET" \in ev
      BY <2>2 DEF Told
    <2>4. Ends(n, d, out, ev)
      BY <2>2, <2>3 DEF StepKind, Connects, Accepts, Waits, Crosses, Opens, Establishes, GoesOn
    <2>5. PICK m \in From(n) : {"RST", "SYN"} \cap m.flags # {} /\ InWindow(conn[n], m.seq)
      BY <2>3, <2>4 DEF Ends
    <2>6. Peer(n) \in Node
      BY PeerFacts
    <2> QED BY <2>5, <2>6, NoReset
  <1> QED BY <1>0, <1>1, <1>2, <1>3, StepKinds

\* ... and it implies what the run checks.
LEMMA ConnInvOpen ==
    ASSUME ConnInv, ClientServer, IssApart PROVE OpenInv
  <1>1. ConnTypeOK /\ OpenIsTold
    BY DEF ConnInv, ConnBase
  <1>2. ASSUME NEW n \in Node, conn[n].state = "OPEN", conn[Peer(n)].state = "OPEN"
        PROVE  /\ conn[n].rcv_irs = conn[Peer(n)].snd_iss
               /\ conn[n].rcv_cur < conn[Peer(n)].snd_nxt
               /\ conn[Peer(n)].snd_una <= conn[n].rcv_cur
    <2>1. Peer(n) \in Node
      BY PeerFacts
    <2> QED BY <1>2, <2>1, OpenPairOf
  <1>3. OpenTogether
    BY <1>2 DEF OpenTogether
  <1> QED BY <1>1, <1>3 DEF OpenInv

\* Two open records that face each other are the two ends of one connection, and their
\* applications have been told so: for any number of records, segments and repeated,
\* lost or reordered datagrams, of a client and a server whose numbers are apart.
THEOREM ConnOpen == ASSUME ClientServer, IssApart PROVE ConnSpec => []OpenInv
  <1>1. ConnInv /\ [ConnNext]_connvars => ConnInv'
    BY ConnInvStep
  <1>2. ConnInv => OpenInv
    BY ConnInvOpen
  <1> QED BY <1>1, <1>2, ConnInvInit, PTL DEF ConnSpec

\* No late or repeated datagram ends a connection that both ends keep open.
THEOREM ConnNoSpuriousReset == ASSUME ClientServer, IssApart PROVE ConnSpec => NoSpuriousReset
  <1>1. ConnInv /\ [ConnNext]_connvars => ConnInv'
    BY ConnInvStep
  <1>2. ConnInv /\ [ConnNext]_connvars => [\A n \in Node : NoResetAt(n)]_connvars
    BY NoResetStep
  <1>3. NoSpuriousReset <=> [][\A n \in Node : NoResetAt(n)]_connvars
    BY DEF NoSpuriousReset, NoResetAt
  <1> QED BY <1>1, <1>2, <1>3, ConnInvInit, PTL DEF ConnSpec
=============================================================================
