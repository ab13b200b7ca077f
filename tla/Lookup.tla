------------------------------- MODULE Lookup --------------------------------
(***************************************************************************)
(* What the lookups of the tunnel network (DtunQuery) and of the DHT       *)
(* (DhtQuery) have in common: libcage/dht.cpp repeats this part of         *)
(* libcage/dtun.cpp.  q is a query, n its nonce.                           *)
(***************************************************************************)
EXTENDS NodeId, SequencesExt

CONSTANTS
    Peers,          \* the nodes other than m_id, which asks
    MyTables,       \* what its routing table may be at the start ...
    PeerTable,      \* ... and those of the peers
    Dst,            \* the identifier that is looked for
    Kinds,          \* what is asked: "boot", "node" or "value"
    NumFindNode,    \* num_find_node
    MaxQuery,       \* max_query
    Nonces          \* the nonces of the queries

Zero == {}

ASSUME LookupAssumption ==
    /\ Peers \subseteq Id \ {Zero, m_id} /\ m_id # Zero
    /\ MyTables \subseteq SUBSET Peers
    /\ PeerTable \in [Peers -> SUBSET Peers]
    /\ Dst \in Id
    /\ Kinds \subseteq {"boot", "node", "value"}
    /\ NumFindNode \in Nat \ {0, 1}
    /\ MaxQuery \in Nat \ {0}
-----------------------------------------------------------------------------
\* The nodes of a routing table that a query begins with or a reply carries.
lookup(id, nodes) == Closest(id, nodes, NumFindNode)

Question(n, q, p) == [type |-> "find", nonce |-> n, kind |-> q.kind, dst |-> q.dst, peer |-> p]
Answer(m, nodes, flag) ==
    [type |-> "reply", nonce |-> m.nonce, kind |-> m.kind, dst |-> m.dst, peer |-> m.peer,
     nodes |-> nodes, flag |-> flag]

\* func is called and the query removed from m_query; its timers are stopped.
Finish(q, found) == [q EXCEPT !.active = FALSE, !.calls = @ + 1, !.found = found]

\* The nodes that send_find() asks: the nearest that were not asked, up to max_query.
ToAsk(q) ==
    LET unsent == {k \in DOMAIN q.nodes : q.nodes[k] \notin q.sent}
        before(k) == {j \in unsent : j < k}
    IN  {q.nodes[k] : k \in {k \in unsent : Cardinality(before(k)) < MaxQuery - q.num_query}}

\* Mutant: what was known before the reply is forgotten.
Merge_Replace(q, m) == m.nodes

\* The nodes of the reply are put between those of the query.  read_nodes_inet()
\* leaves none of them out: m_peers knows no node as timed out (see Peers).
Merge(q, m) == merge_nodes(q.dst, q.nodes, m.nodes, NumFindNode)

\* The timer of the reply: that of its sender, or the one of find_node_boot.
TimerOf(q, id) == IF id \in q.timers THEN id ELSE Zero
=============================================================================
