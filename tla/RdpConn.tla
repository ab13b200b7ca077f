------------------------------- MODULE RdpConn -------------------------------
(***************************************************************************)
(* The life of an rdp connection between two nodes (libcage/rdp.cpp):      *)
(* connect() and listen(), the three way handshake, resets and refusals,   *)
(* close() with its RST / RST|FIN / FIN exchange, the retries of           *)
(* timer_rdp, and the events the application is told.                      *)
(*                                                                         *)
(* There is one pair of ports, so a node has at most one connection record *)
(* at a time: NONE means that the address is not in m_addr2conn.  A node   *)
(* may go through several records; each has its own initial sequence       *)
(* number.  The windows are those of RdpStream, here reduced to SND.UNA,   *)
(* SND.NXT, RCV.CUR, RCV.ACK and the numbers held out of order.  Sequence  *)
(* numbers are integers far apart enough that wrapping cannot be seen.     *)
(***************************************************************************)
EXTENDS Integers, Sequences, FiniteSets

CONSTANTS
    Node,       \* the two nodes
    Clients,    \* the nodes whose application calls connect() ...
    Servers,    \* ... and listen()
    IssOf,      \* IssOf[n][i] is what m_rnd() gives the i-th record of n
    MaxData,    \* MaxData[n]: the data segments a record of n sends (a bound)
    RcvMaxDefault,  \* rcv_max_default
    MaxTout,    \* m_max_retrans: the give-up limit of syn_tout and rst_tout
    Dup         \* whether a datagram may be delivered again

ASSUME ConnAssumption ==
    /\ IsFiniteSet(Node) /\ Cardinality(Node) = 2
    /\ Clients \cup Servers \subseteq Node
    /\ IssOf \in [Node -> Seq(Nat)]
    /\ MaxData \in [Node -> Nat]
    /\ RcvMaxDefault \in Nat \ {0}
    /\ MaxTout \in Nat \ {0}
    /\ Dup \in BOOLEAN

VARIABLES
    conn,       \* the record of each node
    listening,  \* whether the port is in m_listening
    inc,        \* how many records each node has had
    told,       \* the events invoke_event() has given for the current record
    net         \* the datagrams under way

connvars == <<conn, listening, inc, told, net>>
-----------------------------------------------------------------------------
Peer(n) == CHOOSE x \in Node : x # n

Flag  == {"SYN", "ACK", "RST", "FIN", "EAK", "DATA"}
Event == {"ACCEPTED", "CONNECTED", "REFUSED", "RESET", "FAILED", "READY2READ", "BROKEN"}
State == {"NONE", "CLOSED", "SYN_SENT", "SYN_RCVD", "OPEN",
          "CLOSE_WAIT_ACTIVE", "CLOSE_WAIT_PASV"}

Seg(n, flags, seq, ack) == [src |-> n, flags |-> flags, seq |-> seq, ack |-> ack]

\* tout is syn_tout before the connection is open and rst_tout after; late says
\* that more than tout has passed since syn_time or rst_time was set.  Where a
\* datagram may come at any time, so may the timer: late is then always TRUE.
None == [state |-> "NONE", is_pasv |-> FALSE, snd_iss |-> 0, snd_nxt |-> 0, snd_una |-> 0,
         rcv_cur |-> 0, rcv_irs |-> 0, rcv_ack |-> 0, held |-> {}, unread |-> 0, rt_sec |-> <<>>,
         tout |-> 0, late |-> Dup, is_closed |-> FALSE, is_retry_rst |-> FALSE]

NewCon(n, state, pasv, irs) ==
    LET iss == IssOf[n][inc[n] + 1]
    IN  [None EXCEPT !.state = state, !.is_pasv = pasv, !.snd_iss = iss,
                     !.snd_nxt = iss + 1, !.snd_una = iss, !.rcv_cur = irs,
                     !.rcv_irs = irs, !.rcv_ack = irs, !.tout = 1,
                     !.rt_sec = [i \in 1..MaxData[n] |-> 1]]

\* The step of node n that leaves it with record c, outputs out and invokes the
\* events ev.  before is what remains of the datagrams that were under way.
Do(n, before, c, out, ev) ==
    /\ conn' = [conn EXCEPT ![n] = c]
    /\ told' = [told EXCEPT ![n] = IF c.state = "NONE" THEN {} ELSE @ \cup ev]
    /\ net' = before \cup out

Left(m) == IF Dup THEN net ELSE net \ {m}
-----------------------------------------------------------------------------
(* The windows. *)

AckSeg(n, c) == Seg(n, {"ACK"}, c.snd_nxt, c.rcv_cur)
DataSeg(n, c, seq) == Seg(n, {"ACK", "DATA"}, seq, c.rcv_cur)

\* Mutant: the window starts at RCV.CUR, so what was received last is taken again.
InWindow_FromCur(c, seq) == seq - c.rcv_cur \in 0..(2 * RcvMaxDefault)

\* seq - RCV.CUR - 1 < RCV.MAX * 2 in unsigned arithmetic.
InWindow(c, seq) == seq - c.rcv_cur - 1 \in 0..(2 * RcvMaxDefault - 1)

\* delayed_ack().  Whether the held segments were acked before is left open.
DelayedAcks(n, c) ==
    {IF eak \/ c.rcv_cur # c.rcv_ack
     THEN {Seg(n, IF eak THEN {"ACK", "EAK"} ELSE {"ACK"}, c.snd_nxt, c.rcv_cur)}
     ELSE {} : eak \in {b \in BOOLEAN : b => c.held # {}}}

\* rwnd_recv_data(), before its acknowledgement.
rwnd_recv_data(c, seq) ==
    LET got == c.held \cup {seq}
        cur == CHOOSE x \in c.rcv_cur..(c.rcv_cur + 2 * RcvMaxDefault) :
                  (c.rcv_cur + 1)..x \subseteq got /\ x + 1 \notin got
    IN  [c EXCEPT !.rcv_cur = cur, !.held = {x \in got : x > cur},
                  !.unread = @ + cur - c.rcv_cur]

\* Data in a segment: rwnd_recv_data() with its acknowledgement, and the event.
TakeData(n, before, c, seq, ev) ==
    LET d == rwnd_recv_data(c, seq)
        e == IF d.unread > 0 THEN ev \cup {"READY2READ"} ELSE ev
    IN  IF d.rcv_cur - d.rcv_ack > RcvMaxDefault \div 4
        THEN \E out \in DelayedAcks(n, d) :
                Do(n, before, [d EXCEPT !.rcv_ack = d.rcv_cur], out, e)
        ELSE Do(n, before, d, {}, e)
-----------------------------------------------------------------------------
(* The application. *)

connect(n) ==
    /\ n \in Clients
    /\ conn[n].state = "NONE"
    /\ inc[n] < Len(IssOf[n])
    /\ LET c == NewCon(n, "SYN_SENT", FALSE, 0)
       IN  Do(n, net, c, {Seg(n, {"SYN"}, c.snd_iss, 0)}, {})
    /\ inc' = [inc EXCEPT ![n] = @ + 1]
    /\ UNCHANGED listening

listen(n) ==
    /\ n \in Servers
    /\ ~ listening[n]
    /\ listening' = [listening EXCEPT ![n] = TRUE]
    /\ UNCHANGED <<conn, inc, told, net>>

\* close() of a listening descriptor.
close_listening(n) ==
    /\ listening[n]
    /\ listening' = [listening EXCEPT ![n] = FALSE]
    /\ UNCHANGED <<conn, inc, told, net>>

\* close() in state OPEN: delayed_ack(), then the first RST.
CloseOpen(n, before, c, ev) ==
    \E acks \in DelayedAcks(n, c) :
        Do(n, before,
           [c EXCEPT !.state = "CLOSE_WAIT_ACTIVE", !.rcv_ack = c.rcv_cur, !.tout = 1,
                     !.late = Dup, !.is_closed = TRUE, !.is_retry_rst = TRUE],
           acks \cup {Seg(n, {"RST"}, c.snd_nxt, 0)}, ev)

\* close() of a connection whose descriptor the application has.  Inside a
\* callback the erasure waits for the end of the callback (m_desc_closed).
close(n) ==
    LET c == conn[n]
    IN  /\ c.is_pasv => "ACCEPTED" \in told[n]
        /\ \/ c.state = "OPEN" /\ CloseOpen(n, net, c, {})
           \/ /\ c.state = "CLOSE_WAIT_PASV" /\ ~ c.is_closed
              /\ Do(n, net, [c EXCEPT !.is_closed = TRUE], {}, {})
           \/ c.state = "CLOSED" /\ Do(n, net, None, {}, {})
           \/ /\ c.state \in {"SYN_SENT", "SYN_RCVD"}
              /\ Do(n, net, None, {Seg(n, {"RST"}, c.snd_nxt, 0)}, {})
        /\ UNCHANGED <<listening, inc>>

send(n) ==
    LET c == conn[n]
    IN  /\ c.state = "OPEN"
        /\ c.snd_nxt - c.snd_una < RcvMaxDefault
        /\ c.snd_nxt - c.snd_iss <= MaxData[n]
        /\ Do(n, net, [c EXCEPT !.snd_nxt = @ + 1], {DataSeg(n, c, c.snd_nxt)}, {})
        /\ UNCHANGED <<listening, inc>>

receive(n) ==
    /\ conn[n].unread > 0
    /\ \E k \in 1..conn[n].unread :
         Do(n, net, [conn[n] EXCEPT !.unread = @ - k], {}, {})
    /\ UNCHANGED <<listening, inc>>
-----------------------------------------------------------------------------
(* timer_rdp. *)

\* More than syn_tout or rst_tout seconds have passed.
Elapse(n) ==
    /\ conn[n].state \in {"SYN_SENT", "SYN_RCVD", "CLOSE_WAIT_ACTIVE", "CLOSE_WAIT_PASV"}
    /\ ~ conn[n].late
    /\ Do(n, net, [conn[n] EXCEPT !.late = TRUE], {}, {})
    /\ UNCHANGED <<listening, inc>>

\* Mutant: the timeout is not doubled.
Backoff_Same(c) == [c EXCEPT !.late = Dup]

\* After a retry.
Backoff(c) == [c EXCEPT !.tout = 2 * @, !.late = Dup]

SynTimer(n) ==
    LET c == conn[n]
    IN  /\ c.state \in {"SYN_SENT", "SYN_RCVD"}
        /\ \/ /\ c.tout >= MaxTout
              /\ IF c.is_pasv THEN Do(n, net, None, {}, {})
                              ELSE Do(n, net, [c EXCEPT !.state = "CLOSED"], {}, {"FAILED"})
           \/ /\ c.tout < MaxTout /\ c.late
              /\ Do(n, net, Backoff(c),
                    {IF c.state = "SYN_SENT" THEN Seg(n, {"SYN"}, c.snd_iss, 0)
                     ELSE Seg(n, {"SYN", "ACK"}, c.snd_iss, c.rcv_cur)}, {})
        /\ UNCHANGED <<listening, inc>>

RstTimer(n) ==
    LET c == conn[n]
    IN  /\ c.state \in {"CLOSE_WAIT_ACTIVE", "CLOSE_WAIT_PASV"}
        /\ \/ /\ c.tout >= MaxTout
              /\ Do(n, net, IF c.is_closed THEN None ELSE [c EXCEPT !.state = "CLOSED"],
                    {}, {})
           \/ /\ c.tout < MaxTout /\ c.late
              /\ Do(n, net, Backoff(c),
                    IF ~ c.is_retry_rst THEN {}
                    ELSE IF c.state = "CLOSE_WAIT_ACTIVE"
                    THEN {Seg(n, {"RST"}, c.snd_nxt, 0)}
                    ELSE {Seg(n, {"RST", "FIN"}, c.snd_nxt, 0)}, {})
        /\ UNCHANGED <<listening, inc>>

\* Mutant: the application is told, but the state stays.
Break_StaysOpen(n) == Do(n, net, conn[n], {}, {"BROKEN"})

\* retransmit() gives up.
Break(n) == Do(n, net, [conn[n] EXCEPT !.state = "CLOSED"], {}, {"BROKEN"})

\* retransmit(), for one unacknowledged segment: its timer has run out, or it
\* has been retried for too long.  Or the delayed acknowledgement.
OpenTimer(n) ==
    LET c == conn[n]
    IN  /\ c.state = "OPEN"
        /\ \/ \E i \in DOMAIN c.rt_sec :
                /\ c.snd_iss + i \in (c.snd_una + 1)..(c.snd_nxt - 1)
                /\ IF c.rt_sec[i] > MaxTout
                   THEN Break(n)
                   ELSE Do(n, net, [c EXCEPT !.rt_sec[i] = 2 * @],
                           {DataSeg(n, c, c.snd_iss + i)}, {})
           \/ \E out \in DelayedAcks(n, c) \ {{}} :
                 Do(n, net, [c EXCEPT !.rcv_ack = c.rcv_cur], out, {})
        /\ UNCHANGED <<listening, inc>>
-----------------------------------------------------------------------------
(* input_dgram(): one action for each in_state_ handler. *)

in_state_close_wait_active(n, m) ==
    LET c == conn[n]
    IN  /\ c.state = "CLOSE_WAIT_ACTIVE"
        /\ IF {"RST", "FIN"} \subseteq m.flags
           THEN Do(n, Left(m), [c EXCEPT !.is_retry_rst = FALSE],
                   {Seg(n, {"FIN"}, c.snd_nxt, 0)}, {})
           ELSE IF "ACK" \in m.flags
           THEN Do(n, Left(m), [c EXCEPT !.late = Dup], {Seg(n, {"RST"}, c.snd_nxt, 0)}, {})
           ELSE Do(n, Left(m), c, {}, {})
        /\ UNCHANGED <<listening, inc>>

in_state_close_wait_pasv(n, m) ==
    LET c == conn[n]
    IN  /\ c.state = "CLOSE_WAIT_PASV"
        /\ IF "FIN" \in m.flags
           THEN Do(n, Left(m), [c EXCEPT !.is_retry_rst = FALSE], {}, {})
           ELSE IF "RST" \in m.flags
           THEN Do(n, Left(m), [c EXCEPT !.late = Dup],
                   {Seg(n, {"RST", "FIN"}, c.snd_nxt, 0)}, {})
           ELSE Do(n, Left(m), c, {}, {})
        /\ UNCHANGED <<listening, inc>>

in_state_closed(n, m) ==
    LET c == conn[n]
    IN  /\ c.state = "CLOSED" \/ (c.state = "NONE" /\ ~ listening[n])
        /\ Do(n, Left(m), c,
              IF "RST" \in m.flags THEN {}
              ELSE IF "ACK" \in m.flags THEN {Seg(n, {"RST"}, m.ack + 1, 0)}
              ELSE {Seg(n, {"RST", "ACK"}, 0, m.seq)}, {})
        /\ UNCHANGED <<listening, inc>>

in_state_listen(n, m) ==
    /\ conn[n].state = "NONE" /\ listening[n]
    /\ UNCHANGED listening
    /\ \/ /\ "RST" \in m.flags \/ m.flags = {"FIN"}
          /\ Do(n, Left(m), None, {}, {}) /\ UNCHANGED inc
       \/ /\ "RST" \notin m.flags /\ "ACK" \in m.flags
          /\ Do(n, Left(m), None, {Seg(n, {"RST"}, m.ack + 1, 0)}, {})
          /\ UNCHANGED inc
       \/ /\ m.flags = {"SYN"} /\ inc[n] < Len(IssOf[n])
          /\ LET c == NewCon(n, "SYN_RCVD", TRUE, m.seq)
             IN  Do(n, Left(m), c, {Seg(n, {"SYN", "ACK"}, c.snd_iss, c.rcv_cur)}, {})
          /\ inc' = [inc EXCEPT ![n] = @ + 1]

\* Mutant: the acknowledgement is not compared.
WrongAck_Never(c, m) == FALSE

\* An acknowledgement of something else than our SYN.
WrongAck(c, m) == "ACK" \in m.flags /\ "RST" \notin m.flags /\ m.ack # c.snd_iss

in_state_syn_sent(n, m) ==
    LET c == conn[n]
        syn == [c EXCEPT !.rcv_cur = m.seq, !.rcv_irs = m.seq, !.rcv_ack = m.seq]
        opened == [syn EXCEPT !.state = "OPEN", !.snd_una = m.ack]
        rcvd == [syn EXCEPT !.state = "SYN_RCVD", !.tout = 1, !.late = Dup]
    IN  /\ c.state = "SYN_SENT"
        /\ \/ WrongAck(c, m) /\ Do(n, Left(m), c, {Seg(n, {"RST"}, m.ack + 1, 0)}, {})
           \/ /\ {"RST", "ACK"} \subseteq m.flags
              /\ Do(n, Left(m), [c EXCEPT !.state = "CLOSED"], {}, {"REFUSED"})
           \/ /\ ~ WrongAck(c, m) /\ m.flags = {"SYN", "ACK"}
              /\ Do(n, Left(m), opened, {AckSeg(n, opened)}, {"CONNECTED"})
           \/ /\ m.flags = {"SYN"}
              /\ Do(n, Left(m), rcvd, {Seg(n, {"SYN", "ACK"}, rcvd.snd_iss, rcvd.rcv_cur)}, {})
           \/ /\ ~ WrongAck(c, m) /\ ~ {"RST", "ACK"} \subseteq m.flags /\ "SYN" \notin m.flags
              /\ Do(n, Left(m), c, {}, {})
        /\ UNCHANGED <<listening, inc>>

\* A passive record that fails is erased, an active one stays until close().
Fail(n, m, out, ev) ==
    IF conn[n].is_pasv THEN Do(n, Left(m), None, out, {})
                       ELSE Do(n, Left(m), [conn[n] EXCEPT !.state = "CLOSED"], out, {ev})

\* The acknowledgement of our SYN: the application that listens is told, one
\* that connects is not.  Without a listener the connection is closed again.
Establish(n, m) ==
    LET c == [conn[n] EXCEPT !.state = "OPEN"]
        ev == IF c.is_pasv THEN {"ACCEPTED"} ELSE {}
    IN  \/ c.is_pasv /\ ~ listening[n] /\ CloseOpen(n, Left(m), c, {})
        \/ /\ ~ c.is_pasv \/ listening[n]
           /\ IF "DATA" \in m.flags THEN TakeData(n, Left(m), c, m.seq, ev)
                                    ELSE Do(n, Left(m), c, {}, ev)

\* A SYN with the number of the one that made the record is answered by a
\* SYN|ACK whose acknum is left at 0; the reset that answers extended acks goes
\* through a uint8_t.
in_state_syn_rcvd(n, m) ==
    LET c == conn[n]
        again == "SYN" \in m.flags /\ m.seq = c.rcv_cur
        acceptable == m.seq - c.rcv_irs \in 1..(c.rcv_cur + 2 * RcvMaxDefault - c.rcv_irs)
        has(f) == f \in m.flags
    IN  /\ c.state = "SYN_RCVD"
        /\ \/ /\ again
              /\ Do(n, Left(m), [c EXCEPT !.late = Dup],
                    {Seg(n, {"SYN", "ACK"}, c.snd_iss, 0)}, {})
           \/ /\ ~ again /\ ~ acceptable
              /\ Do(n, Left(m), [c EXCEPT !.rcv_ack = c.rcv_cur], {AckSeg(n, c)}, {})
           \/ /\ ~ again /\ acceptable
              /\ \/ has("RST") /\ Fail(n, m, {}, "REFUSED")
                 \/ /\ ~ has("RST") /\ has("SYN")
                    /\ Fail(n, m, {Seg(n, {"RST"}, m.ack + 1, 0)}, "RESET")
                 \/ /\ has("EAK")
                    /\ Do(n, Left(m), c, {Seg(n, {"RST"}, (m.ack % 256) + 1, 0)}, {})
                 \/ /\ m.flags \in {{"ACK"}, {"ACK", "DATA"}}
                    /\ IF ~ WrongAck(c, m) THEN Establish(n, m)
                       ELSE Do(n, Left(m), c, {Seg(n, {"RST"}, m.ack + 1, 0)}, {})
                 \/ m.flags = {"FIN"} /\ Do(n, Left(m), c, {}, {})
        /\ UNCHANGED <<listening, inc>>

\* recv_ack().
Acknowledged(c, m) ==
    IF "ACK" \in m.flags /\ m.ack - c.snd_una \in 0..(c.snd_nxt - c.snd_una - 1)
    THEN [c EXCEPT !.snd_una = m.ack] ELSE c

\* The answer to a SYN is written behind the SYN itself, which is sent back with
\* its ports as they were: it does not belong to this connection.
in_state_open(n, m) ==
    LET c == conn[n]
    IN  /\ c.state = "OPEN"
        /\ \/ /\ ~ InWindow(c, m.seq)
              /\ Do(n, Left(m), [c EXCEPT !.rcv_ack = c.rcv_cur], {AckSeg(n, c)}, {})
           \/ /\ InWindow(c, m.seq) /\ "RST" \in m.flags
              /\ \E acks \in DelayedAcks(n, c) :
                    Do(n, Left(m),
                       [c EXCEPT !.state = "CLOSE_WAIT_PASV", !.rcv_ack = c.rcv_cur,
                                 !.tout = 1, !.late = Dup, !.is_retry_rst = TRUE],
                       acks \cup {Seg(n, {"RST", "FIN"}, c.snd_nxt, 0)}, {"RESET"})
           \/ /\ InWindow(c, m.seq) /\ "RST" \notin m.flags /\ "SYN" \in m.flags
              /\ Do(n, Left(m), [c EXCEPT !.state = "CLOSED"], {}, {"RESET"})
           \/ /\ InWindow(c, m.seq) /\ {"RST", "SYN"} \cap m.flags = {}
              /\ IF "DATA" \in m.flags
                 THEN TakeData(n, Left(m), Acknowledged(c, m), m.seq, {})
                 ELSE Do(n, Left(m), Acknowledged(c, m), {}, {})
        /\ UNCHANGED <<listening, inc>>

input_dgram(n) ==
    \E m \in net :
        /\ m.src = Peer(n)
        /\ \/ in_state_close_wait_active(n, m)
           \/ in_state_close_wait_pasv(n, m)
           \/ in_state_closed(n, m)
           \/ in_state_listen(n, m)
           \/ in_state_syn_sent(n, m)
           \/ in_state_syn_rcvd(n, m)
           \/ in_state_open(n, m)
-----------------------------------------------------------------------------
(* The specification. *)

ConnInit ==
    /\ conn = [n \in Node |-> None]
    /\ listening = [n \in Node |-> FALSE]
    /\ inc = [n \in Node |-> 0]
    /\ told = [n \in Node |-> {}]
    /\ net = {}

Timer(n) == Elapse(n) \/ SynTimer(n) \/ RstTimer(n)

ConnNext ==
    \E n \in Node :
        \/ connect(n) \/ listen(n) \/ close_listening(n) \/ close(n)
        \/ send(n) \/ receive(n)
        \/ Timer(n) \/ OpenTimer(n)
        \/ input_dgram(n)

ConnSpec == ConnInit /\ [][ConnNext]_connvars

\* timer_rdp runs every 300 ms.  A retry is fair once it is late; a handler that
\* refreshes syn_time or rst_time takes that away again.
ConnFairSpec ==
    /\ ConnSpec
    /\ \A n \in Node : /\ WF_connvars(Elapse(n)) /\ WF_connvars(SynTimer(n))
                       /\ WF_connvars(RstTimer(n))
-----------------------------------------------------------------------------
(* Properties. *)

Record == [state: State, is_pasv: BOOLEAN, snd_iss: Int, snd_nxt: Int, snd_una: Int,
           rcv_cur: Int, rcv_irs: Int, rcv_ack: Int, held: SUBSET Int, unread: Nat,
           rt_sec: Seq(Nat),
           tout: Nat, late: BOOLEAN, is_closed: BOOLEAN, is_retry_rst: BOOLEAN]
Segment == [src: Node, flags: SUBSET Flag, seq: Int, ack: Int]

ConnTypeOK ==
    /\ conn \in [Node -> Record]
    /\ listening \in [Node -> BOOLEAN]
    /\ inc \in [Node -> Nat]
    /\ told \in [Node -> SUBSET Event]
    /\ net \subseteq Segment

\* What the proofs assume of the two applications: at most one end calls
\* connect() with this pair of ports, since connect() takes its own port at
\* random and goes to one of the few that are listened on.
ClientServer == \A n \in Clients : Peer(n) \notin Clients

\* What they assume of m_rnd(): the numbers of one record and the window that
\* follows them are not those of another record of the same node, and none is
\* so small that a reset without a number of its own (0, or the 8 bits of the
\* one that answers extended acks) could fall behind it.
IssApart ==
    \A n \in Node : \A i \in DOMAIN IssOf[n] :
        /\ IssOf[n][i] >= IF n \in Clients THEN 1 ELSE 256
        /\ \A j \in DOMAIN IssOf[n] : i < j =>
              \/ IssOf[n][j] > IssOf[n][i] + MaxData[n]
              \/ IssOf[n][i] > IssOf[n][j] + MaxData[n] + 2 * RcvMaxDefault

Terminal == {"REFUSED", "RESET", "FAILED", "BROKEN"}

\* Two open records that face each other are the two ends of one connection,
\* whatever handshakes, resets and old datagrams came before: each has the
\* other's initial number, and neither has data the other did not send.
OpenTogether ==
    \A n \in Node :
        LET c == conn[n]  p == conn[Peer(n)]
        IN  c.state = "OPEN" /\ p.state = "OPEN" =>
              /\ c.rcv_irs = p.snd_iss
              /\ c.rcv_cur < p.snd_nxt
              /\ p.snd_una <= c.rcv_cur

\* An application whose connection is open has been told so.
OpenIsTold ==
    \A n \in Node : conn[n].state = "OPEN" =>
        ("ACCEPTED" \in told[n] <=> conn[n].is_pasv)
        /\ ("CONNECTED" \in told[n] <=> ~ conn[n].is_pasv)

\* What an open record and its application know of the connection is right.
OpenInv == ConnTypeOK /\ OpenTogether /\ OpenIsTold

\* At most one event ends a connection, and the record then takes no data, nor
\* does it come back to life.
EndsOnce ==
    [][\A n \in Node : told[n] \cap Terminal # {} /\ inc'[n] = inc[n] =>
          /\ told'[n] \in {told[n], {}}
          /\ conn'[n].state \in {"CLOSE_WAIT_PASV", "CLOSED", "NONE"}
          /\ conn'[n].state # "NONE" => conn'[n].rcv_cur = conn[n].rcv_cur]_connvars

\* No reset out of thin air: as long as the peer keeps its end of an open
\* connection open, late or repeated datagrams do not end ours.
NoSpuriousReset ==
    [][\A n \in Node :
          LET c == conn[n]  p == conn[Peer(n)]
          IN  c.state = "OPEN" /\ p.state = "OPEN" /\ "RESET" \in told'[n]
                => "RESET" \in told[n]]_connvars

\* connect() and an accepted SYN come to an end.
HandshakeEnds ==
    \A n \in Node : conn[n].state \in {"SYN_SENT", "SYN_RCVD"}
                      ~> conn[n].state \notin {"SYN_SENT", "SYN_RCVD"}

\* A descriptor the application has closed is given back.
ClosedIsReleased == \A n \in Node : conn[n].is_closed ~> ~ conn[n].is_closed
=============================================================================
