------------------------------ MODULE DtunQuery ------------------------------
(***************************************************************************)
(* The iterative lookups of the tunnel network (libcage/dtun.cpp): a node  *)
(* asks the closest nodes it knows for closer ones, at most max_query of   *)
(* them at a time, until all of the closest num_find_node nodes were asked *)
(* or, in find_value(), one of them has a registration of the wanted node. *)
(* Each question has a timer; a node that lets it run out is taken out of  *)
(* the list and of the routing table.                                      *)
(*                                                                         *)
(* The peers run the same code (recv_find_node, recv_find_value).  The     *)
(* routing tables are the sets of their nodes, and lookup() is what        *)
(* RtTable shows it to be.  A datagram may be lost, late and, with Dup,    *)
(* delivered again.                                                        *)
(***************************************************************************)
EXTENDS Lookup

CONSTANTS
    Holders,        \* the peers with a registration of Dst
    Global,         \* whether the node calls itself global
    Dup             \* whether a datagram may be delivered again

ASSUME DtunAssumption ==
    /\ Holders \subseteq Peers
    /\ Global \in BOOLEAN
    /\ Dup \in BOOLEAN

VARIABLES
    dtun_query,     \* m_query: the queries
    dtun_table,     \* the nodes in the routing table
    tables,         \* those in the routing tables of the peers
    dtun_net        \* the datagrams under way

dtunvars == <<dtun_query, dtun_table, tables, dtun_net>>
-----------------------------------------------------------------------------
\* active: whether m_query has the nonce.  The last five are history: what the
\* replies told, whether a question timed out, whether a reply came that no timer
\* waited for, how often func was called, and with what.
NoDtunQuery ==
    [active |-> FALSE, kind |-> "none", dst |-> Zero, nodes |-> <<>>, sent |-> {},
     timers |-> {}, num_query |-> 0,
     told |-> {}, expired |-> FALSE, late |-> FALSE, calls |-> 0, found |-> FALSE]

Left(m) == IF Dup THEN dtun_net ELSE dtun_net \ {m}
-----------------------------------------------------------------------------
(* The node that asks. *)

\* send_find(): the query ends, with the nodes it has or without a value, when
\* no question is open.  before is what remains of the datagrams under way.
dtun_send_find(n, q, before) ==
    LET ask == ToAsk(q)
        r == [q EXCEPT !.timers = @ \cup ask, !.sent = @ \cup ask,
                       !.num_query = @ + Cardinality(ask)]
    IN  /\ dtun_query' = [dtun_query EXCEPT ![n] = IF r.num_query = 0 THEN Finish(r, FALSE) ELSE r]
        /\ dtun_net' = before \cup {Question(n, q, p) : p \in ask}

\* find_node() of an address: the identifier of that node is not known.
dtun_find_node_boot(n, p) ==
    LET q == [NoDtunQuery EXCEPT !.active = TRUE, !.kind = "boot", !.dst = m_id, !.sent = {m_id},
                                 !.timers = {Zero}, !.num_query = 1]
    IN  /\ dtun_query' = [dtun_query EXCEPT ![n] = q]
        /\ dtun_net' = dtun_net \cup {Question(n, q, p)}
        /\ UNCHANGED <<dtun_table, tables>>

\* find_node() and find_value() of an identifier, by find_nv().
dtun_find_nv(n, kind) ==
    LET q == [NoDtunQuery EXCEPT !.active = TRUE, !.kind = kind, !.dst = Dst, !.sent = {m_id},
                                 !.nodes = lookup(Dst, dtun_table \cup {m_id})]
    IN  /\ \/ /\ Len(q.nodes) = 1
              /\ dtun_query' = [dtun_query EXCEPT ![n] = Finish(q, FALSE)]
              /\ UNCHANGED dtun_net
           \/ Len(q.nodes) # 1 /\ dtun_send_find(n, q, dtun_net)
        /\ UNCHANGED <<dtun_table, tables>>

DtunFind(n) ==
    /\ dtun_query[n] = NoDtunQuery
    /\ \/ "boot" \in Kinds /\ \E p \in Peers : dtun_find_node_boot(n, p)
       \/ \E kind \in Kinds \ {"boot"} : dtun_find_nv(n, kind)

\* Mutant: the node that is silent is still counted.
dtun_timer_query_KeepCount(n, id) ==
    LET q == dtun_query[n]
    IN  /\ q.active /\ id \in q.timers
        /\ dtun_send_find(n, [q EXCEPT !.sent = @ \cup {id}, !.timers = @ \ {id}, !.expired = TRUE,
                                       !.nodes = RemoveFirst(@, id)], dtun_net)
        /\ dtun_table' = dtun_table \ {id}
        /\ UNCHANGED tables

\* The node that is silent is taken out of the list, which has it once at most.
dtun_timer_query(n, id) ==
    LET q == dtun_query[n]
    IN  /\ q.active /\ id \in q.timers
        /\ dtun_send_find(n, [q EXCEPT !.sent = @ \cup {id}, !.num_query = @ - 1,
                                       !.timers = @ \ {id}, !.expired = TRUE,
                                       !.nodes = IF id = Zero THEN @
                                                 ELSE RemoveFirst(@, id)], dtun_net)
        /\ dtun_table' = dtun_table \ {id}
        /\ UNCHANGED tables

\* Mutant: a reply is taken whether or not a timer waits for it.
dtun_recv_find_node_reply_Unasked(n, m) ==
    LET q == dtun_query[n]
    IN  /\ q.active /\ q.dst = m.dst /\ q.kind # "value"
        /\ dtun_send_find(n, [q EXCEPT !.timers = @ \ {TimerOf(q, m.peer)},
                                       !.sent = @ \cup {m.peer}, !.num_query = @ - 1,
                                       !.told = @ \cup ToSet(m.nodes), !.nodes = Merge(q, m)],
                          Left(m))
        /\ dtun_table' = dtun_table \cup {m.peer}

dtun_recv_find_node_reply(n, m) ==
    LET q == dtun_query[n]
    IN  /\ q.active /\ q.dst = m.dst /\ q.kind # "value"
        /\ TimerOf(q, m.peer) \in q.timers
        /\ dtun_send_find(n, [q EXCEPT !.timers = @ \ {TimerOf(q, m.peer)},
                                       !.sent = @ \cup {m.peer}, !.num_query = @ - 1,
                                       !.told = @ \cup ToSet(m.nodes), !.nodes = Merge(q, m)],
                          Left(m))
        /\ dtun_table' = dtun_table \cup {m.peer}

\* It is not asked whether a timer waits for the reply.
dtun_recv_find_value_reply(n, m) ==
    LET q == dtun_query[n]
        r == [q EXCEPT !.timers = @ \ {m.peer}, !.sent = @ \cup {m.peer},
                       !.num_query = @ - 1, !.late = @ \/ m.peer \notin q.timers]
    IN  /\ q.active /\ q.dst = m.dst /\ q.kind = "value"
        /\ IF m.flag
           THEN /\ dtun_query' = [dtun_query EXCEPT ![n] = Finish(r, TRUE)]
                /\ dtun_net' = Left(m)
           ELSE dtun_send_find(n, [r EXCEPT !.told = @ \cup ToSet(m.nodes), !.nodes = Merge(q, m)],
                               Left(m))
        /\ dtun_table' = dtun_table \cup {m.peer}

DtunRecvReply ==
    \E m \in dtun_net :
        /\ m.type = "reply"
        /\ dtun_recv_find_node_reply(m.nonce, m) \/ dtun_recv_find_value_reply(m.nonce, m)
        /\ UNCHANGED tables
-----------------------------------------------------------------------------
(* The peers. *)

\* recv_find_node(): a peer that is not global does not answer, and one that is
\* adds the asking node if that is global.
recv_find_node(m) ==
    /\ dtun_net' = Left(m) \cup {Answer(m, lookup(m.dst, tables[m.peer] \cup {m.peer}), FALSE)}
    /\ tables' = IF Global THEN [tables EXCEPT ![m.peer] = @ \cup {m_id}] ELSE tables

\* recv_find_value(): a peer with a registration of the wanted node tells it.  The
\* asking node is not added: its state is compared in the other byte order.
recv_find_value(m) ==
    /\ dtun_net' = Left(m) \cup
                     {IF m.peer \in Holders THEN Answer(m, <<Dst>>, TRUE)
                      ELSE Answer(m, lookup(m.dst, tables[m.peer] \cup {m.peer}), FALSE)}
    /\ UNCHANGED tables

DtunRecvFind ==
    /\ \E m \in dtun_net : /\ m.type = "find"
                           /\ \/ m.kind # "value" /\ recv_find_node(m)
                              \/ m.kind = "value" /\ recv_find_value(m)
    /\ UNCHANGED <<dtun_query, dtun_table>>
-----------------------------------------------------------------------------
DtunInit ==
    /\ dtun_query = [n \in Nonces |-> NoDtunQuery]
    /\ dtun_table \in MyTables
    /\ tables = PeerTable
    /\ dtun_net = {}

DtunTimers == \E n \in Nonces : \E id \in dtun_query[n].timers : dtun_timer_query(n, id)

DtunNext ==
    \/ \E n \in Nonces : DtunFind(n)
    \/ DtunTimers
    \/ DtunRecvReply
    \/ DtunRecvFind

DtunSpec == DtunInit /\ [][DtunNext]_dtunvars

\* libevent calls a timer that is due.
DtunFairSpec == DtunSpec /\ WF_dtunvars(DtunTimers)
-----------------------------------------------------------------------------
(* Properties. *)

DtunQueries ==
    [active: BOOLEAN, kind: {"none", "boot", "node", "value"}, dst: Id,
     nodes: Seq(Id), sent: SUBSET Id, timers: SUBSET Id, num_query: Nat,
     told: SUBSET Id, expired: BOOLEAN, late: BOOLEAN, calls: Nat, found: BOOLEAN]

\* The list of a query is sorted, has no node twice and at most num_find_node.
DtunTypeOK ==
    /\ dtun_query \in [Nonces -> DtunQueries]
    /\ \A n \in Nonces :
         dtun_query[n].nodes = lookup(dtun_query[n].dst, ToSet(dtun_query[n].nodes))
    /\ dtun_table \subseteq Peers
    /\ tables \in [Peers -> SUBSET Id]

\* An open query waits for somebody, so that something will wake it again, and
\* num_query counts the questions that are open; it says too few only after
\* find_value() has got a reply that no timer waited for.
NumQueryExact ==
    \A n \in Nonces :
        LET q == dtun_query[n]
        IN  q.active =>
              /\ q.num_query \in 1..Cardinality(q.timers)
              /\ ~ q.late => q.num_query = Cardinality(q.timers) /\ q.num_query <= MaxQuery

\* func is called once for every query, and not before the query is over.
DtunCalledOnce ==
    \A n \in Nonces :
        LET q == dtun_query[n]
        IN  q.calls = (IF q.active \/ q.kind = "none" THEN 0 ELSE 1)

\* The bookkeeping of every query is right: its list, its count and its end.
DtunQueryInv == DtunTypeOK /\ NumQueryExact /\ DtunCalledOnce

\* What a query that nobody let down ends with: all its nodes were asked, and of
\* all the nodes it was told none is closer than they are.
DtunConverged ==
    \A n \in Nonces :
        LET q == dtun_query[n]
        IN  q.kind # "none" /\ ~ q.active /\ ~ q.expired /\ ~ q.late /\ ~ q.found =>
              /\ q.timers = {}
              /\ ToSet(q.nodes) \subseteq q.sent
              /\ q.nodes = lookup(q.dst, ToSet(q.nodes) \cup q.told)

\* find_value() does not end without the value while a node that has it was asked
\* and did not let its timer run out.
FoundIfAsked ==
    \A n \in Nonces :
        LET q == dtun_query[n]
        IN  q.kind = "value" /\ ~ q.active /\ ~ q.late /\ ~ q.expired
            /\ q.sent \cap Holders # {} => q.found

\* What a query gives its caller is what it should have found.
ResultExact == DtunConverged /\ FoundIfAsked

\* Every query comes to an end.
DtunQueryEnds == \A n \in Nonces : dtun_query[n].active ~> ~ dtun_query[n].active
=============================================================================
