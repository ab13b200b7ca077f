------------------------------ MODULE DhtQuery -------------------------------
(***************************************************************************)
(* The lookups of the DHT (libcage/dht.cpp): find_node() as in the tunnel  *)
(* network (DtunQuery), and find_value(), which asks for holders of an     *)
(* identifier and gets the values of the key from the first that answers,  *)
(* over an RDP connection.  Holders that answer meanwhile wait in ids.     *)
(* While there is a connection nobody else is asked.  sweep_rdp() gives up *)
(* connections on which nothing comes any more.                            *)
(*                                                                         *)
(* A datagram may be lost, late and, MaxDups times, delivered again.  One  *)
(* to a node whose address is not cached is sent when dtun::request() has  *)
(* got the address (Dgram): to the lookup that is a late or a lost one.    *)
(* m_is_use_rdp is true: nothing calls set_enabled_rdp().                  *)
(***************************************************************************)
EXTENDS Lookup

CONSTANTS
    Stored,         \* Stored[p]: the values of the key that p has ...
    HasId,          \* ... and the peers that have values of keys of Dst
    MaxDups         \* how many datagrams are delivered again

rdp_get_port == 101

ASSUME DhtQueryAssumption ==
    /\ DOMAIN Stored = Peers /\ HasId \subseteq Peers
    /\ \A p \in Peers : IsFiniteSet(Stored[p]) /\ (Stored[p] # {} => p \in HasId)
    /\ MaxDups \in Nat

VARIABLES
    m_query,    \* the queries
    table,      \* the nodes in the routing table
    conn,       \* conn[n]: the RDP connection of the query n
    net,        \* the datagrams under way
    dups,       \* how many more of them are delivered again
    undef       \* sweep_rdp() went on from a query that it had removed

vars == <<m_query, table, conn, net, dups, undef>>
-----------------------------------------------------------------------------
\* active: whether m_query has the nonce.  The last six are history: what the
\* replies told, whether a question timed out, whether a connection ended before
\* all was read, whether a holder had to wait, how often func was called, with what.
NoQuery == [active |-> FALSE, kind |-> "none", dst |-> Zero, nodes |-> <<>>, sent |-> {},
            timers |-> {}, num_query |-> 0, is_rdp_con |-> FALSE, ids |-> <<>>, vset |-> {},
            told |-> {}, expired |-> FALSE, broken |-> FALSE, waited |-> FALSE,
            calls |-> 0, found |-> FALSE]

\* peer, dport: where to; desc: rdp_desc is not -1; left: the values that the peer has not sent yet.
NoConn == [peer |-> Zero, dport |-> 0, desc |-> FALSE, connected |-> FALSE, left |-> {}]

\* m is delivered, and left is what is under way then.
Deliver(m, left) ==
    /\ left = net => dups > 0
    /\ dups' = IF left = net THEN dups - 1 ELSE dups
-----------------------------------------------------------------------------
(* The lookup. *)

\* Mutant: the lookup goes on while there is a connection.
Holds_Never(q) == FALSE

\* The early return of send_find().
Holds(q) == q.kind = "value" /\ q.is_rdp_con

\* send_find(): the query as it is afterwards, and whom it asks.
Asking(q) == IF Holds(q) THEN {} ELSE ToAsk(q)

Asked(q) ==
    LET ask == Asking(q)
        r == [q EXCEPT !.timers = @ \cup ask, !.sent = @ \cup ask,
                       !.num_query = @ + Cardinality(ask)]
    IN  IF r.num_query = 0 /\ ~ Holds(q) THEN Finish(r, FALSE) ELSE r

send_find(n, q, before) ==
    /\ m_query' = [m_query EXCEPT ![n] = Asked(q)]
    /\ net' = before \cup {Question(n, q, p) : p \in Asking(q)}

\* find_node() of an address: the identifier of that node is not known.
find_node_boot(n, p) ==
    LET q == [NoQuery EXCEPT !.active = TRUE, !.kind = "boot", !.dst = m_id, !.sent = {m_id},
                             !.timers = {Zero}, !.num_query = 1]
    IN  /\ m_query' = [m_query EXCEPT ![n] = q]
        /\ net' = net \cup {Question(n, q, p)}
        /\ UNCHANGED <<table, conn, dups, undef>>

\* find_node() and find_value() of an identifier, by find_nv().
find_nv(n, kind) ==
    /\ send_find(n, [NoQuery EXCEPT !.active = TRUE, !.kind = kind, !.dst = Dst, !.sent = {m_id},
                                    !.nodes = lookup(Dst, table \cup {m_id})], net)
    /\ UNCHANGED <<table, conn, dups, undef>>

\* The early return of both behind a NAT (m_nat.get_state(), see NatDetector).
find_early(n, kind) ==
    /\ m_query' = [m_query EXCEPT ![n] = Finish([NoQuery EXCEPT !.kind = kind], FALSE)]
    /\ UNCHANGED <<table, conn, net, dups, undef>>

Find(n) ==
    /\ m_query[n] = NoQuery
    /\ \/ "boot" \in Kinds /\ \E p \in Peers : find_node_boot(n, p)
       \/ \E kind \in Kinds \ {"boot"} : find_nv(n, kind) \/ find_early(n, kind)

\* The node that is silent is taken out of the list, which has it once at most.
timer_query(n, id) ==
    LET q == m_query[n]
    IN  /\ q.active /\ id \in q.timers
        /\ send_find(n, [q EXCEPT !.sent = @ \cup {id}, !.num_query = @ - 1,
                                  !.timers = @ \ {id}, !.expired = TRUE,
                                  !.nodes = IF id = Zero THEN @
                                            ELSE RemoveFirst(@, id)], net)
        /\ table' = table \ {id}
        /\ UNCHANGED <<conn, dups, undef>>

\* A reply that no timer waits for is not taken, but its sender is added.
recv_find_node_reply(n, m, left) ==
    LET q == m_query[n]
        timer == TimerOf(q, m.peer)
    IN  /\ q.active /\ q.dst = m.dst /\ q.kind # "value"
        /\ IF timer \in q.timers
           THEN send_find(n, [q EXCEPT !.timers = @ \ {timer}, !.sent = @ \cup {m.peer},
                                       !.num_query = @ - 1, !.told = @ \cup ToSet(m.nodes),
                                       !.nodes = Merge(q, m)], left)
           ELSE net' = left /\ UNCHANGED m_query
        /\ table' = table \cup {m.peer}
        /\ UNCHANGED conn

\* Mutant: a reply is counted though no timer waits for it.
Counted_Always(q, p) ==
    [q EXCEPT !.timers = @ \ {p}, !.sent = @ \cup {p}, !.num_query = @ - 1]

\* The question that the reply answers is closed, if it is still open.
Counted(q, p) ==
    IF p \notin q.timers THEN q
    ELSE [q EXCEPT !.timers = @ \ {p}, !.sent = @ \cup {p}, !.num_query = @ - 1]

\* rdp::connect(): a descriptor is given for any remote port, unless the local one is
\* named and there is a connection of the two to that node.
Connect(n, sport, p, dport) ==
    LET used == sport # 0 /\ \E o \in Nonces \ {n} : conn[o].peer = p /\ conn[o].dport = dport
    IN  conn' = [conn EXCEPT ![n] = [peer |-> p, dport |-> dport, desc |-> ~ used,
                                     connected |-> FALSE, left |-> Stored[p]]]

recv_find_value_reply(n, m, left) ==
    LET q == m_query[n]
        r == Counted(q, m.peer)
    IN  /\ q.active /\ q.dst = m.dst /\ q.kind = "value"
        /\ table' = IF m.peer \in q.timers THEN table \cup {m.peer} ELSE table
        /\ \/ /\ m.flag = "data_are_nul" /\ q.is_rdp_con
              /\ m_query' = [m_query EXCEPT ![n] = [r EXCEPT !.ids = Append(@, m.peer),
                                                             !.waited = TRUE]]
              /\ net' = left
              /\ UNCHANGED conn
           \/ /\ m.flag = "data_are_nul" /\ ~ q.is_rdp_con
              /\ m_query' = [m_query EXCEPT ![n] = [r EXCEPT !.is_rdp_con = TRUE]]
              /\ Connect(n, 0, m.peer, rdp_get_port)
              /\ net' = left
           \/ /\ m.flag = "data_are_nodes"
              /\ send_find(n, [r EXCEPT !.told = @ \cup ToSet(m.nodes), !.nodes = Merge(q, m)],
                           left)
              /\ UNCHANGED conn

RecvReply ==
    \E m \in net : \E left \in {net, net \ {m}} :
        /\ m.type = "reply"
        /\ Deliver(m, left)
        /\ recv_find_node_reply(m.nonce, m, left) \/ recv_find_value_reply(m.nonce, m, left)
        /\ UNCHANGED undef
-----------------------------------------------------------------------------
(* The connection to a holder. *)

\* rdp_get_func: CONNECTED.  Nobody listens at port 0.
Connected(n) ==
    /\ conn[n].dport = rdp_get_port /\ ~ conn[n].connected
    /\ conn' = [conn EXCEPT ![n].connected = TRUE]
    /\ UNCHANGED <<m_query, table, net, dups, undef>>

\* READY2READ: read_hdr() and read_val() take a value; rdp_recv_get_func sends one
\* for each dht_get_next, of those that read_val() of the holder put aside.
ReadVal(n) ==
    /\ conn[n].connected
    /\ \E v \in conn[n].left :
         /\ m_query' = [m_query EXCEPT ![n].vset = @ \cup {v}]
         /\ conn' = [conn EXCEPT ![n].left = @ \ {v}]
    /\ UNCHANGED <<table, net, dups, undef>>

\* Mutant: the callback is called and the query goes on.
Closed_Open(n, q) ==
    IF q.vset # {} THEN [q EXCEPT !.calls = @ + 1, !.found = TRUE]
    ELSE IF q.ids # <<>> THEN [q EXCEPT !.ids = Tail(@)]
    ELSE Asked([q EXCEPT !.is_rdp_con = FALSE])

\* The query after its connection was closed.
Closed(n, q) ==
    IF q.vset # {} THEN Finish(q, TRUE)
    ELSE IF q.ids # <<>> THEN [q EXCEPT !.ids = Tail(@)]
    ELSE Asked([q EXCEPT !.is_rdp_con = FALSE])

\* close_rdp().  The connection to the next holder is asked for with its ports
\* exchanged.
close_rdp(n, q) ==
    LET free == [q EXCEPT !.is_rdp_con = FALSE]
        next == q.vset = {} /\ q.ids # <<>>
    IN  /\ m_query' = [m_query EXCEPT ![n] = Closed(n, q)]
        /\ IF next THEN Connect(n, rdp_get_port, Head(q.ids), 0)
           ELSE conn' = [conn EXCEPT ![n] = NoConn]
        /\ net' = IF q.vset = {} /\ ~ next
                  THEN net \cup {Question(n, q, p) : p \in Asking(free)} ELSE net
        /\ UNCHANGED <<table, dups>>

\* read_hdr(): the header without a value, which ends the values.
ReadEnd(n) ==
    /\ conn[n].connected /\ conn[n].left = {}
    /\ close_rdp(n, m_query[n])
    /\ UNCHANGED undef

\* Any other event ends the connection.
ConnEnds(n) ==
    /\ conn[n].desc
    /\ close_rdp(n, [m_query[n] EXCEPT !.broken = TRUE])
    /\ UNCHANGED undef

\* sweep_rdp(): nothing came for rdp_timeout.  If the query ends in send_find(), the
\* iterator that is advanced next is gone.
sweep_rdp(n) ==
    LET q == [m_query[n] EXCEPT !.broken = TRUE]
    IN  /\ q.active /\ q.is_rdp_con
        /\ close_rdp(n, q)
        /\ undef' = (undef \/ (q.vset = {} /\ q.ids = <<>> /\ ~ Closed(n, q).active))
-----------------------------------------------------------------------------
(* The peers. *)

\* recv_find_node(), recv_find_value() of a peer.  It answers from its own table,
\* to which it adds the asking node.
recv_find(m) ==
    IF m.kind = "value" /\ m.peer \in HasId THEN Answer(m, <<>>, "data_are_nul")
    ELSE Answer(m, lookup(m.dst, PeerTable[m.peer] \cup {m.peer, m_id}), "data_are_nodes")

RecvFind ==
    /\ \E m \in net : \E left \in {net, net \ {m}} :
         m.type = "find" /\ Deliver(m, left) /\ net' = left \cup {recv_find(m)}
    /\ UNCHANGED <<m_query, table, conn, undef>>
-----------------------------------------------------------------------------
Init ==
    /\ m_query = [n \in Nonces |-> NoQuery]
    /\ table \in MyTables
    /\ conn = [n \in Nonces |-> NoConn]
    /\ net = {}
    /\ dups = MaxDups
    /\ undef = FALSE

Timers == \E n \in Nonces : \E id \in m_query[n].timers : timer_query(n, id)
Sweep == \E n \in Nonces : sweep_rdp(n)

Next ==
    \/ \E n \in Nonces : Find(n)
    \/ Timers
    \/ RecvReply
    \/ RecvFind
    \/ \E n \in Nonces : Connected(n) \/ ReadVal(n) \/ ReadEnd(n) \/ ConnEnds(n)
    \/ Sweep

Spec == Init /\ [][Next]_vars

\* libevent calls the timers that are due: those of the questions, and the fast timer.
FairSpec == Spec /\ WF_vars(Timers) /\ WF_vars(Sweep)
-----------------------------------------------------------------------------
(* Properties. *)

\* An open query waits for a question that is open or for a connection, so that
\* something will wake it again, and num_query counts the questions that are open.
Awaited ==
    \A n \in Nonces :
        LET q == m_query[n]
        IN  /\ q.active => /\ q.num_query = Cardinality(q.timers) /\ q.num_query <= MaxQuery
                           /\ q.num_query > 0 \/ conn[n] # NoConn
            /\ q.active /\ q.is_rdp_con <=> conn[n] # NoConn

\* func is called once for every query, and not before the query is over.
CalledOnce ==
    \A n \in Nonces :
        LET q == m_query[n]
        IN  q.calls = (IF q.active \/ q.kind = "none" THEN 0 ELSE 1)

\* What a query that nobody let down ends with, if it found no value: all its nodes
\* were asked, and of all the nodes it was told none is closer than they are.
Converged ==
    \A n \in Nonces :
        LET q == m_query[n]
        IN  q.kind # "none" /\ ~ q.active /\ ~ q.expired /\ ~ q.found =>
              /\ q.timers = {}
              /\ ToSet(q.nodes) \subseteq q.sent
              /\ q.nodes = lookup(q.dst, ToSet(q.nodes) \cup q.told)

\* The bookkeeping of every query, and what a lookup gives its caller, are right.
QueryInv == Awaited /\ CalledOnce /\ Converged

\* get() gives all the values of one of the nodes that were asked, or none if none of
\* them has a value; except that a connection may have ended before its end, a
\* question been given up, and that holders that had to wait are not reached.
GetExact ==
    \A n \in Nonces :
        LET q == m_query[n]
            have == {p \in q.sent \cap HasId : Stored[p] # {}}
        IN  q.kind = "value" /\ ~ q.active =>
              /\ q.found => q.vset # {} /\ \E p \in have : q.vset \subseteq Stored[p]
              /\ ~ q.broken /\ q.found => \E p \in have : q.vset = Stored[p]
              /\ ~ q.broken /\ ~ q.expired /\ ~ q.waited /\ ~ q.found => have = {}

\* Every query comes to an end, however its connection hangs.
QueryEnds == \A n \in Nonces : m_query[n].active ~> ~ m_query[n].active
=============================================================================
