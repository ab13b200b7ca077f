-------------------------------- MODULE Dgram --------------------------------
(***************************************************************************)
(* Datagrams to a node that is known by its identifier (libcage/dgram.cpp, *)
(* the requests of dtun.cpp, the address cache of peers.cpp).  A datagram  *)
(* to a node whose address is not cached waits in a queue while the node   *)
(* is asked to answer: find_value() finds a holder of its registration,    *)
(* the holder passes the request on, and the answer, sent by the wanted    *)
(* node itself, shows the address.  Without the tunnel network a           *)
(* find_node() of the DHT takes the place of the request.                  *)
(*                                                                         *)
(* find_value() and find_node() end once each, with an answer or without   *)
(* (DtunQuery); the table of the holder changes as DtunRegister says.      *)
(***************************************************************************)
EXTENDS Integers, Sequences, FiniteSets

CONSTANTS
    Nodes,      \* the nodes that datagrams are sent to
    Addrs,      \* the addresses they may have
    NoAddr,     \* no address
    Retry,      \* request_retry
    MaxMsg,     \* how many datagrams are sent to a node (a bound)
    MaxReq,     \* how many nonces are drawn (a bound)
    Dup         \* whether a message may be delivered again

ASSUME DgramAssumption ==
    /\ NoAddr \notin Addrs \cup Nodes
    /\ Retry \in Nat \ {0}
    /\ MaxMsg \in Nat
    /\ MaxReq \in Nat
    /\ Dup \in BOOLEAN

VARIABLES
    domain,         \* the domain of the socket
    m_is_enabled,   \* whether dtun is used: set_enabled() is called by open() only
    m_queue,        \* m_queue[d]: the datagrams that wait for the address of d
    m_requesting,   \* the nodes that are asked for
    m_map,          \* the address cache of peers
    m_request,      \* the requests of dtun
    drawn,          \* how many nonces m_rnd() has given; it gives none twice
    found,          \* the requests whose timer_req is set
    finding,        \* the requests whose find_value() has not called back ...
    finding_node,   \* ... and the nodes whose find_node() has not
    undef,          \* a callback used a request that is not there any more
    pushed,         \* pushed[d]: how many datagrams were given to send_dgram()
    sent,           \* sent[d]: the datagrams sent to d, and where to
    where,          \* the addresses of the nodes
    registered,     \* what the holder has about them
    net             \* the messages under way

dgram == <<m_queue, m_requesting, pushed, sent>>
dtun == <<m_request, drawn, found, finding>>
remote == <<domain, m_is_enabled, where, registered>>
vars == <<dgram, dtun, m_map, finding_node, undef, remote, net>>
-----------------------------------------------------------------------------
Nonce == 1..MaxReq
NoRequest == [dst |-> NoAddr, retry |-> 0]

Request(n, d) == [type |-> "request", nonce |-> n, dst |-> d, addr |-> NoAddr]
RequestBy(m) == [m EXCEPT !.type = "request_by", !.addr = registered[m.dst]]
RequestReply(m) == [m EXCEPT !.type = "reply"]

Left(m) == IF Dup THEN net ELSE net \ {m}
-----------------------------------------------------------------------------
(* peers. *)

\* add_node(): a node that is in the map keeps its address, because insert() of
\* a bimap leaves an old entry alone; the session decides only about its age.
\* The test of the domain refuses every IPv6 address.
add_node(d, a) ==
    IF domain = "inet" /\ m_map[d] = NoAddr THEN [m_map EXCEPT ![d] = a] ELSE m_map

\* refresh(): an entry is older than map_ttl.
refresh ==
    /\ \E d \in Nodes : m_map[d] # NoAddr /\ m_map' = [m_map EXCEPT ![d] = NoAddr]
    /\ UNCHANGED <<dgram, dtun, finding_node, undef, remote, net>>
-----------------------------------------------------------------------------
(* dgram. *)

\* Mutant: the datagrams are sent from the back of the queue.
send_queue_Backwards(d, queue, map) ==
    IF map[d] = NoAddr
    THEN /\ m_queue' = [m_queue EXCEPT ![d] = <<>>]
         /\ UNCHANGED sent
    ELSE /\ m_queue' = [m_queue EXCEPT ![d] = <<>>]
         /\ sent' = [sent EXCEPT ![d] =
                @ \o [k \in DOMAIN queue |-> [msg |-> queue[Len(queue) + 1 - k], to |-> map[d]]]]

\* send_queue(): the queue is emptied, to the address of the map or, when there
\* is none, to nowhere.
send_queue(d, queue, map) ==
    IF map[d] = NoAddr
    THEN /\ m_queue' = [m_queue EXCEPT ![d] = <<>>]
         /\ UNCHANGED sent
    ELSE /\ m_queue' = [m_queue EXCEPT ![d] = <<>>]
         /\ sent' = [sent EXCEPT ![d] =
                @ \o [k \in DOMAIN queue |-> [msg |-> queue[k], to |-> map[d]]]]

\* Mutant: the queue of a request that failed is kept.
RequestFailed_KeepQueue(d) ==
    /\ m_requesting' = m_requesting \ {d}
    /\ UNCHANGED <<m_queue, sent>>

\* request_func(false).
RequestFailed(d) ==
    /\ m_queue' = [m_queue EXCEPT ![d] = <<>>]
    /\ m_requesting' = m_requesting \ {d}
    /\ UNCHANGED sent

\* request_func(true), and find_node_func, which does the same with the address
\* of the map or without one.
RequestEnds(d, map) ==
    /\ send_queue(d, m_queue[d], map)
    /\ m_requesting' = m_requesting \ {d}

\* Mutant: the node is put into m_requesting after the request was made, which
\* may already have called back.
AskFor_Late(d, queue) ==
    /\ m_requesting' = m_requesting \cup {d}
    /\ \/ /\ m_queue' = [m_queue EXCEPT ![d] = <<>>]
          /\ UNCHANGED <<dtun, finding_node>>
       \/ /\ m_is_enabled
          /\ drawn < MaxReq
          /\ drawn' = drawn + 1
          /\ m_request' = [m_request EXCEPT ![drawn + 1] = [dst |-> d, retry |-> Retry]]
          /\ finding' = finding \cup {drawn + 1}
          /\ m_queue' = [m_queue EXCEPT ![d] = queue]
          /\ UNCHANGED <<found, finding_node>>
       \/ /\ ~ m_is_enabled
          /\ finding_node' = finding_node \cup {d}
          /\ m_queue' = [m_queue EXCEPT ![d] = queue]
          /\ UNCHANGED dtun
    /\ UNCHANGED sent

\* dtun::request() or dht::find_node().  When the routing table is empty, or the
\* state of the node does not let it use the DHT, they call back at once: the
\* queue is dropped before they return.
AskFor(d, queue) ==
    /\ \/ /\ m_queue' = [m_queue EXCEPT ![d] = <<>>]
          /\ UNCHANGED <<m_requesting, dtun, finding_node>>
       \/ /\ m_is_enabled
          /\ drawn < MaxReq
          /\ drawn' = drawn + 1
          /\ m_request' = [m_request EXCEPT ![drawn + 1] = [dst |-> d, retry |-> Retry]]
          /\ finding' = finding \cup {drawn + 1}
          /\ m_requesting' = m_requesting \cup {d}
          /\ m_queue' = [m_queue EXCEPT ![d] = queue]
          /\ UNCHANGED <<found, finding_node>>
       \/ /\ ~ m_is_enabled
          /\ finding_node' = finding_node \cup {d}
          /\ m_requesting' = m_requesting \cup {d}
          /\ m_queue' = [m_queue EXCEPT ![d] = queue]
          /\ UNCHANGED dtun
    /\ UNCHANGED sent

\* send_dgram(): push2queue() and request().
send_dgram(d) ==
    LET queue == Append(m_queue[d], pushed[d] + 1)
    IN  /\ pushed[d] < MaxMsg
        /\ pushed' = [pushed EXCEPT ![d] = @ + 1]
        /\ \/ /\ d \in m_requesting
              /\ m_queue' = [m_queue EXCEPT ![d] = queue]
              /\ UNCHANGED <<m_requesting, sent, dtun, finding_node>>
           \/ /\ d \notin m_requesting /\ m_map[d] # NoAddr
              /\ send_queue(d, queue, m_map)
              /\ UNCHANGED <<m_requesting, dtun, finding_node>>
           \/ /\ d \notin m_requesting /\ m_map[d] = NoAddr
              /\ AskFor(d, queue)
        /\ UNCHANGED <<m_map, undef, remote, net>>

\* recv_dgram(), and every other message of the node itself: its address is put
\* into the map.
recv_dgram(d) ==
    /\ m_map' = add_node(d, where[d])
    /\ UNCHANGED <<dgram, dtun, finding_node, undef, remote, net>>
-----------------------------------------------------------------------------
(* The requests of dtun. *)

Erase(n) == m_request' = [m_request EXCEPT ![n] = NoRequest]

\* request_find_value() without a result: find_value() is called again, which
\* may fail at once and use up what is left of the retries.
FindFails(n) ==
    LET q == m_request[n]
    IN  /\ n \in finding
        /\ undef' = (undef \/ q = NoRequest)
        /\ \/ /\ q.retry > 1
              /\ m_request' = [m_request EXCEPT ![n].retry = @ - 1]
              /\ UNCHANGED <<finding, m_queue, m_requesting, sent>>
           \/ /\ finding' = finding \ {n}
              /\ Erase(n)
              /\ RequestFailed(q.dst)
        /\ UNCHANGED <<found, drawn, pushed, m_map, finding_node, remote, net>>

\* request_find_value() with a result.
FindSucceeds(n) ==
    LET q == m_request[n]
    IN  /\ n \in finding
        /\ undef' = (undef \/ q = NoRequest)
        /\ finding' = finding \ {n}
        /\ found' = found \cup {n}
        /\ net' = net \cup {Request(n, q.dst)}
        /\ UNCHANGED <<m_request, drawn, dgram, m_map, finding_node, remote>>

\* timer_request.
timer_request(n) ==
    LET q == m_request[n]
    IN  /\ n \in found
        /\ undef' = (undef \/ q = NoRequest)
        /\ found' = found \ {n}
        /\ Erase(n)
        /\ RequestFailed(q.dst)
        /\ UNCHANGED <<drawn, finding, pushed, m_map, finding_node, remote, net>>

recv_request_reply(m) ==
    /\ m_request[m.nonce].dst = m.dst
    /\ Erase(m.nonce)
    /\ found' = found \ {m.nonce}
    /\ m_map' = add_node(m.dst, m.addr)
    /\ RequestEnds(m.dst, m_map')
    /\ UNCHANGED <<drawn, finding, pushed>>

RecvReply ==
    /\ \E m \in net :
         /\ m.type = "reply"
         /\ recv_request_reply(m)
         /\ net' = Left(m)
    /\ UNCHANGED <<finding_node, undef, remote>>

\* find_node_func: the DHT has looked for the node.
find_node_func(d) ==
    /\ d \in finding_node
    /\ finding_node' = finding_node \ {d}
    /\ RequestEnds(d, m_map)
    /\ UNCHANGED <<pushed, dtun, m_map, undef, remote, net>>
-----------------------------------------------------------------------------
(* The holder and the wanted node. *)

\* The holder passes the request on to the address that it has.
recv_request ==
    /\ \E m \in net :
         /\ m.type = "request"
         /\ net' = Left(m) \cup (IF registered[m.dst] = NoAddr THEN {} ELSE {RequestBy(m)})
    /\ UNCHANGED <<dgram, dtun, m_map, finding_node, undef, remote>>

\* The node gets it if this is its address, and answers.
recv_request_by ==
    /\ \E m \in net :
         /\ m.type = "request_by"
         /\ net' = Left(m) \cup (IF where[m.dst] = m.addr THEN {RequestReply(m)} ELSE {})
    /\ UNCHANGED <<dgram, dtun, m_map, finding_node, undef, remote>>

\* A node gets another address, or is registered or forgotten by the holder.
RemoteChange ==
    /\ \E d \in Nodes :
         \/ \E a \in Addrs : where' = [where EXCEPT ![d] = a] /\ UNCHANGED registered
         \/ /\ registered' = [registered EXCEPT ![d] = IF @ = NoAddr THEN where[d] ELSE NoAddr]
            /\ UNCHANGED where
    /\ UNCHANGED <<dgram, dtun, m_map, finding_node, undef, domain, m_is_enabled, net>>
-----------------------------------------------------------------------------
Init ==
    /\ domain \in {"inet", "inet6"}
    /\ m_is_enabled \in BOOLEAN
    /\ domain = "inet6" => ~ m_is_enabled
    /\ m_queue = [d \in Nodes |-> <<>>]
    /\ m_requesting = {}
    /\ m_map = [d \in Nodes |-> NoAddr]
    /\ m_request = [n \in Nonce |-> NoRequest]
    /\ drawn = 0
    /\ found = {}
    /\ finding = {}
    /\ finding_node = {}
    /\ undef = FALSE
    /\ pushed = [d \in Nodes |-> 0]
    /\ sent = [d \in Nodes |-> <<>>]
    /\ where \in [Nodes -> Addrs]
    /\ registered = [d \in Nodes |-> NoAddr]
    /\ net = {}

FindEnds == \E n \in finding : FindFails(n) \/ FindSucceeds(n)
RequestTimeout == \E n \in found : timer_request(n)
FindNodeEnds == \E d \in finding_node : find_node_func(d)

Next ==
    \/ \E d \in Nodes : send_dgram(d) \/ recv_dgram(d)
    \/ refresh
    \/ FindEnds
    \/ RequestTimeout
    \/ RecvReply
    \/ FindNodeEnds
    \/ recv_request
    \/ recv_request_by
    \/ RemoteChange

Spec == Init /\ [][Next]_vars

\* A lookup comes to an end (QueryEnds of DtunQuery), and libevent calls a timer
\* that is due.
FairSpec == /\ Spec
            /\ WF_vars(FindEnds)
            /\ WF_vars(RequestTimeout)
            /\ WF_vars(FindNodeEnds)
-----------------------------------------------------------------------------
(* Properties. *)

Message == [type: {"request", "request_by", "reply"}, nonce: Nonce, dst: Nodes,
            addr: Addrs \cup {NoAddr}]

TypeOK ==
    /\ domain \in {"inet", "inet6"}
    /\ m_is_enabled \in BOOLEAN
    /\ m_queue \in [Nodes -> Seq(1..MaxMsg)]
    /\ m_requesting \subseteq Nodes
    /\ m_map \in [Nodes -> Addrs \cup {NoAddr}]
    /\ m_request \in [Nonce -> [dst: Nodes, retry: 1..Retry] \cup {NoRequest}]
    /\ drawn \in 0..MaxReq
    /\ found \subseteq Nonce
    /\ finding \subseteq Nonce
    /\ finding_node \subseteq Nodes
    /\ undef \in BOOLEAN
    /\ pushed \in [Nodes -> 0..MaxMsg]
    /\ sent \in [Nodes -> Seq([msg: 1..MaxMsg, to: Addrs])]
    /\ where \in [Nodes -> Addrs]
    /\ registered \in [Nodes -> Addrs \cup {NoAddr}]
    /\ net \subseteq Message

\* Every open request waits for exactly one thing, its find_value() or its timer,
\* and neither is left behind by a request that is over: no callback finds its
\* request gone.
RequestAwaited ==
    /\ ~ undef
    /\ finding \cap found = {}
    /\ finding \cup found = {n \in Nonce : m_request[n] # NoRequest}

\* A datagram waits only while its node is asked for, once, so that something
\* will send or drop it, and a node is asked for only while a lookup is open.
QueueAwaited ==
    \A d \in Nodes :
        /\ m_queue[d] # <<>> => d \in m_requesting
        /\ d \in m_requesting <=> (d \in finding_node \/ \E n \in Nonce : m_request[n].dst = d)
        /\ Cardinality({n \in Nonce : m_request[n].dst = d})
             + (IF d \in finding_node THEN 1 ELSE 0) <= 1

\* Whatever is open has exactly one thing that will end it.
AwaitInv == TypeOK /\ RequestAwaited /\ QueueAwaited

\* The datagrams to a node leave in the order in which they were given, none of
\* them twice, and one that waits leaves after all that left before.
InOrder ==
    \A d \in Nodes :
        LET all == [k \in DOMAIN sent[d] |-> sent[d][k].msg] \o m_queue[d]
        IN  \A j, k \in DOMAIN all : j < k => all[j] < all[k]

\* No datagram waits for ever.
QueueEmptied == \A d \in Nodes : m_queue[d] # <<>> ~> m_queue[d] = <<>>
=============================================================================
