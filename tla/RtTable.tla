------------------------------- MODULE RtTable -------------------------------
(***************************************************************************)
(* The routing table of a node (libcage/rttable.cpp): for every bit a row  *)
(* of at most max_entry nodes that differ from this node first in that     *)
(* bit.  A node that does not fit makes the table ping the oldest one of   *)
(* the row, which is replaced when it does not answer.                     *)
(*                                                                         *)
(* dht and dtun add a node for what they receive, and remove one whose     *)
(* answer to a query is late: any node, at any time, also while the ping   *)
(* of its row is under way.                                                *)
(***************************************************************************)
EXTENDS NodeId, SequencesExt

CONSTANTS
    MaxEntry,   \* max_entry
    MaxNum,     \* the largest num of a lookup (a bound)
    Domain      \* the domain of the addresses

ASSUME RtAssumption ==
    /\ MaxEntry \in Nat \ {0}
    /\ MaxNum \in Nat
    /\ Domain \in {"inet", "inet6"}

VARIABLES
    m_table,        \* the rows; an empty one is not in the map
    m_nodes,        \* the identifiers in the table
    m_ping_wait,    \* the pings under way: row, pinged node, node that waits
    m_ping_send,    \* the rows with a ping under way
    raced,          \* history: a row lost a node while its ping was under way
    rt_undef        \* pop_front() was called on an empty list

rtvars == <<m_table, m_nodes, m_ping_wait, m_ping_send, raced, rt_undef>>
-----------------------------------------------------------------------------
Rows == 0..(Bits - 1)

\* id2i(), -1 for this node itself.
id2i(id) == IF id = m_id THEN -1 ELSE Max(Xor(m_id, id))

Entries(row) == {row[k] : k \in DOMAIN row}

\* A node in the row that m_nodes does not have goes to the back.
add(id) ==
    LET i == id2i(id)  row == m_table[i]
    IN  /\ id # m_id /\ ~ rt_undef
        /\ id \notin m_nodes
        /\ \/ /\ id \in Entries(row)
              /\ LET k == SelectInSeq(row, LAMBDA x : x = id)
                 IN  m_table' = [m_table EXCEPT ![i] = Append(RemoveAt(row, k), id)]
              /\ UNCHANGED <<m_nodes, m_ping_wait, m_ping_send>>
           \/ /\ id \notin Entries(row) /\ Len(row) < MaxEntry
              /\ m_table' = [m_table EXCEPT ![i] = Append(row, id)]
              /\ m_nodes' = m_nodes \cup {id}
              /\ UNCHANGED <<m_ping_wait, m_ping_send>>
           \/ /\ id \notin Entries(row) /\ Len(row) >= MaxEntry
              /\ i \notin m_ping_send
              /\ m_ping_wait' = m_ping_wait \cup {[i |-> i, old |-> Head(row), new |-> id]}
              /\ m_ping_send' = m_ping_send \cup {i}
              /\ UNCHANGED <<m_table, m_nodes>>
        /\ UNCHANGED <<raced, rt_undef>>

\* Mutant: the node stays in m_nodes.
remove_KeepNode(id) ==
    /\ ~ rt_undef /\ id \in m_nodes
    /\ m_table' = [m_table EXCEPT ![id2i(id)] = SelectSeq(@, LAMBDA x : x # id)]
    /\ raced' = (raced \/ id2i(id) \in m_ping_send)
    /\ UNCHANGED <<m_nodes, m_ping_wait, m_ping_send, rt_undef>>

\* The first entry of the node is erased.
remove(id) ==
    LET row == m_table[id2i(id)]
        k == SelectInSeq(row, LAMBDA x : x = id)
    IN  /\ ~ rt_undef /\ id \in m_nodes
        /\ m_table' = [m_table EXCEPT ![id2i(id)] = IF k = 0 THEN row ELSE RemoveAt(row, k)]
        /\ m_nodes' = m_nodes \ {id}
        /\ raced' = (raced \/ id2i(id) \in m_ping_send)
        /\ UNCHANGED <<m_ping_wait, m_ping_send, rt_undef>>

\* row.pop_front(); row.push_back(id).  What pop_front() does to an empty list
\* is undefined: nothing is said of the table after it.
Rotate(i, id) ==
    IF m_table[i] = <<>>
    THEN rt_undef' = TRUE /\ UNCHANGED m_table
    ELSE m_table' = [m_table EXCEPT ![i] = Append(Tail(@), id)] /\ UNCHANGED rt_undef

EndPing(w) ==
    /\ m_ping_wait' = m_ping_wait \ {w}
    /\ m_ping_send' = m_ping_send \ {w.i}

\* No answer came in ping_timeout seconds.
timer_ping(w) ==
    /\ ~ rt_undef
    /\ Rotate(w.i, w.new)
    /\ m_nodes' = (m_nodes \ {w.old}) \cup {w.new}
    /\ EndPing(w)
    /\ UNCHANGED raced

\* An answer from the pinged node.  The comparison of IPv6 addresses compares no
\* byte and takes that for a difference, so that the answer is dropped.
recv_ping_reply(w) ==
    /\ ~ rt_undef
    /\ Domain = "inet"
    /\ Rotate(w.i, w.old)
    /\ EndPing(w)
    /\ UNCHANGED <<m_nodes, raced>>
-----------------------------------------------------------------------------
(* lookup(). *)

Row(i) == IF i = -1 THEN <<m_id>> ELSE m_table[i]

\* The places of the rows is, their number, and the node in a place.
Slots(is) == UNION {{i} \X (DOMAIN Row(i)) : i \in is}
Size(is) == Cardinality(Slots(is))
At(s) == Row(s[1])[s[2]]

\* Mutant: the rows that lead away from id are not looked at.
LookupRows_OneWay(id, num) ==
    LET towards == Xor(m_id, id)
        n(i) == Size({j \in towards : j > i})
    IN  {i \in towards : n(i) < num} \cup (IF n(-1) < num THEN {-1} ELSE {})

\* id2i4lookup() goes from id to this node (-1), clearing the highest bit first,
\* and id2i4lookupR() through the other rows from the lowest; each until it has
\* seen num nodes.
LookupRows(id, num) ==
    LET towards == Xor(m_id, id)
        n(i) == Size({j \in towards : j > i})
        rest(i) == Size({j \in Rows \ towards : j < i})
    IN  {i \in towards : n(i) < num}
        \cup (IF n(-1) < num THEN {-1} ELSE {})
        \cup {i \in Rows \ towards : n(-1) + 1 < num /\ rest(i) < num - n(-1) - 1}

\* The nodes of these rows, sorted and cut off: the k-th is the one in the place
\* that has k - 1 others before it.
rttable_lookup(id, num) ==
    LET found == Slots(LookupRows(id, num))
        upto(s) == {t \in found : \/ Closer(id, At(t), At(s))
                                  \/ At(t) = At(s) /\ t[2] <= s[2]}
        rank == [s \in found |-> Cardinality(upto(s))]
    IN  [k \in 1..Min({num, Cardinality(found)}) |-> At(CHOOSE s \in found : rank[s] = k)]
-----------------------------------------------------------------------------
RtInit ==
    /\ m_table = [i \in Rows |-> <<>>]
    /\ m_nodes = {}
    /\ m_ping_wait = {}
    /\ m_ping_send = {}
    /\ raced = FALSE
    /\ rt_undef = FALSE

RtNext ==
    \/ \E id \in Id : add(id) \/ remove(id)
    \/ \E w \in m_ping_wait : timer_ping(w) \/ recv_ping_reply(w)

RtSpec == RtInit /\ [][RtNext]_rtvars
-----------------------------------------------------------------------------
(* Properties. *)

Ping == [i: Rows, old: Id, new: Id]

\* No row grows beyond max_entry, whatever the order of adds, removals, answers
\* and timeouts, and every node is in the row of its distance.
RtTypeOK ==
    /\ m_table \in [Rows -> Seq(Id)]
    /\ \A i \in Rows : /\ Len(m_table[i]) <= MaxEntry
                       /\ \A a \in Entries(m_table[i]) : id2i(a) = i
    /\ m_nodes \subseteq Id
    /\ m_ping_wait \subseteq Ping
    /\ m_ping_send \subseteq Rows
    /\ raced \in BOOLEAN
    /\ rt_undef \in BOOLEAN

\* m_ping_send is the rows of m_ping_wait, so that no row is left locked; there
\* is one ping for a row, between two of its nodes.
OnePing ==
    /\ m_ping_send = {w.i : w \in m_ping_wait}
    /\ \A w \in m_ping_wait :
         /\ id2i(w.old) = w.i /\ id2i(w.new) = w.i /\ w.old # w.new
         /\ \A v \in m_ping_wait : v.i = w.i => v = w

\* m_nodes is what the table has, each node once, and the pinged node is still at
\* the front of its row: as long as no node was removed from a row whose ping was
\* under way.  (Such a removal makes the answer or the timeout pop another node.)
NodesExact ==
    ~ raced =>
        /\ ~ rt_undef
        /\ m_nodes = UNION {Entries(m_table[i]) : i \in Rows}
        /\ \A i \in Rows : IsInjective(m_table[i])
        /\ \A w \in m_ping_wait : /\ Len(m_table[w.i]) = MaxEntry
                                  /\ Head(m_table[w.i]) = w.old
                                  /\ w.new \notin m_nodes

\* The table, m_nodes and the pings agree, whatever the order of the calls.
TableInv == RtTypeOK /\ OnePing /\ NodesExact

\* lookup() finds the nodes closest to id, this node among them, although it
\* looks at few rows.
LookupExact ==
    ~ raced =>
        \A id \in Id, num \in 1..MaxNum :
            rttable_lookup(id, num) = Closest(id, m_nodes \cup {m_id}, num)
=============================================================================
