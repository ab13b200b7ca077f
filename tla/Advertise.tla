------------------------------ MODULE Advertise ------------------------------
(***************************************************************************)
(* How a node makes itself known to another (libcage/advertise.cpp): it    *)
(* sends its session, the other adds it to its peers and answers, and it   *)
(* adds the other.  Both caches are those of Peers: m_map[Here] is the     *)
(* entry of the node at the other, m_map[There] the entry of the other at  *)
(* the node.  The node moves and starts again; messages are lost, late and *)
(* delivered twice; and the other hears of the node by other protocols,    *)
(* which name no session.                                                  *)
(***************************************************************************)
EXTENDS Peers

CONSTANTS
    Here, There,    \* the node and the one it advertises to
    Home,           \* the address of There
    MaxNonce,       \* how many advertisements may be under way (a bound)
    MaxMove,        \* how often the node gets another address (a bound)
    MaxDups         \* how often a message is delivered again (a bound)

\* The first session; every start has another.
First == 1

ASSUME AdvertiseAssumption ==
    /\ Nodes = {Here, There} /\ Here # There
    /\ Home \in Inet
    /\ First \in Sessions
    /\ MaxNonce \in Nat \ {0} /\ MaxMove \in Nat /\ MaxDups \in Nat

VARIABLES
    addr, session,  \* the address of Here, and its m_register_session
    m_advertising,  \* the nonces whose timer is set
    m_advertised,   \* whether There is in m_advertised
    net,            \* the messages under way
    moves, dups     \* how much of the bounds is used

avars == <<addr, session, m_advertising, m_advertised, net, moves, dups>>
allvars == <<vars, avars>>
-----------------------------------------------------------------------------
Nonce == 1..MaxNonce

Message(type, n) == [type |-> type, nonce |-> n, session |-> session, addr |-> addr]

\* m arrives and is used up, or arrives again later.
Arrives(m, sent) ==
    \/ net' = (net \ {m}) \cup sent /\ UNCHANGED dups
    \/ dups < MaxDups /\ dups' = dups + 1 /\ net' = net \cup sent

\* Whether add_node() returns true.
Added(d, a, s) ==
    a \in Inet /\ (m_map[d] = NoEntry \/ m_map[d].session \in {s, 0} \/ SameAddr(m_map[d], a))
-----------------------------------------------------------------------------
\* advertise_to(), by dgram and proxy.  Its test compares the time of the last call with
\* half of advertise_ttl and never holds, so that every call advertises.  (The messages
\* of an earlier use of the nonce have gone.)
advertise_to(n) ==
    /\ n \notin m_advertising
    /\ m_advertising' = m_advertising \cup {n}
    /\ m_advertised' = TRUE
    /\ net' = {m \in net : m.nonce # n} \cup {Message("advertise", n)}
    /\ UNCHANGED <<vars, addr, session, moves, dups>>

timer_advertise(n) ==
    /\ n \in m_advertising
    /\ m_advertising' = m_advertising \ {n}
    /\ UNCHANGED <<vars, addr, session, m_advertised, net, moves, dups>>

recv_advertise(m) ==
    /\ m.type = "advertise"
    /\ add_node(Here, m.addr, m.session)
    /\ Arrives(m, IF Added(Here, m.addr, m.session) THEN {[m EXCEPT !.type = "reply"]} ELSE {})
    /\ UNCHANGED <<addr, session, m_advertising, m_advertised, moves>>

\* A reply reaches the node only where it still is.
recv_advertise_reply(m) ==
    /\ m.type = "reply" /\ m.addr = addr
    /\ Arrives(m, {})
    /\ \/ /\ m.nonce \notin m_advertising
          /\ UNCHANGED <<vars, m_advertising>>
       \/ /\ m.nonce \in m_advertising
          /\ m_advertising' = m_advertising \ {m.nonce}
          /\ add_node(There, Home, First)
    /\ UNCHANGED <<addr, session, m_advertised, moves>>

\* refresh() of advertise, by timer_refresh.
refresh_advertised ==
    /\ m_advertised
    /\ m_advertised' = FALSE
    /\ UNCHANGED <<vars, addr, session, m_advertising, net, moves, dups>>
-----------------------------------------------------------------------------
\* The other hears of the node by another protocol.
Hear == add_node(Here, addr, 0) /\ UNCHANGED avars

\* The other waits for it in vain; the caches are refreshed; time passes.
PeersStep == (add_timeout(Here) \/ refresh \/ Tick) /\ UNCHANGED avars

Move ==
    /\ moves < MaxMove
    /\ moves' = moves + 1
    /\ addr' \in Addrs \ {addr, Home}
    /\ UNCHANGED <<vars, session, m_advertising, m_advertised, net, dups>>

\* The node starts again, with empty caches; before or after it may move.
Restart ==
    /\ session + 1 \in Sessions
    /\ session' = session + 1
    /\ m_map' = [m_map EXCEPT ![There] = NoEntry]
    /\ m_advertising' = {}
    /\ m_advertised' = FALSE
    /\ UNCHANGED <<m_timeout, wait, heard, addr, net, moves, dups>>

Lose ==
    /\ \E m \in net : net' = net \ {m}
    /\ UNCHANGED <<vars, addr, session, m_advertising, m_advertised, moves, dups>>
-----------------------------------------------------------------------------
AdvertiseInit ==
    /\ Init
    /\ addr \in Addrs \ {Home}
    /\ session = First
    /\ m_advertising = {}
    /\ m_advertised = FALSE
    /\ net = {}
    /\ moves = 0 /\ dups = 0

AdvertiseNext ==
    \/ \E n \in Nonce : advertise_to(n) \/ timer_advertise(n)
    \/ \E m \in net : recv_advertise(m) \/ recv_advertise_reply(m)
    \/ refresh_advertised
    \/ Hear
    \/ PeersStep
    \/ Move
    \/ Restart
    \/ Lose

AdvertiseSpec == AdvertiseInit /\ [][AdvertiseNext]_allvars

RecvCurrent ==
    \E m \in net : m.addr = addr /\ m.session = session /\ recv_advertise(m)

\* The timers are called and time passes; the node has something to send to the other
\* again and again, and of advertisements sent for ever some arrive.
AdvertiseFairSpec ==
    /\ AdvertiseSpec
    /\ WF_allvars(\E n \in Nonce : advertise_to(n))
    /\ WF_allvars(\E n \in Nonce : timer_advertise(n))
    /\ SF_allvars(RecvCurrent)
    /\ WF_allvars(refresh /\ UNCHANGED avars)
    /\ WF_allvars(Tick /\ UNCHANGED avars)
-----------------------------------------------------------------------------
(* Properties. *)

\* Whatever the node went through, the other gets to know its address, again and again,
\* although its cache refuses other sessions and keeps the address it has: as long as
\* the node has an IPv4 address, since the test of the domain in peers::add_node()
\* refuses the others.
PeerFollows == []<>(addr \in Inet6 \/ m_map[Here].addr = addr)
=============================================================================
