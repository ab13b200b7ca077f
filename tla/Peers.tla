-------------------------------- MODULE Peers --------------------------------
(***************************************************************************)
(* The cache of the addresses of other nodes (libcage/peers.cpp), which    *)
(* every protocol of libcage fills with what it hears and reads before it  *)
(* sends.  Times are kept as ages, in ticks: an entry is added at age 0    *)
(* and grows older until refresh(), called by a timer, finds it older than *)
(* map_ttl.  remove_id(), remove_addr() and add_node_force() have no       *)
(* caller.                                                                 *)
(***************************************************************************)
EXTENDS Naturals

CONSTANTS
    Nodes,          \* the nodes that are heard of
    Inet, Inet6,    \* the addresses they are heard from, by domain
    Sessions,       \* the sessions they name; 0 is none
    MapTtl,         \* map_ttl
    TimeoutTtl,     \* timeout_ttl
    Interval        \* the longest time between two calls of refresh()

NoAddr == "none"
Addrs == Inet \cup Inet6

ASSUME PeersAssumption ==
    /\ Inet \cap Inet6 = {} /\ NoAddr \notin Addrs
    /\ Sessions \subseteq Nat /\ 0 \in Sessions
    /\ MapTtl \in Nat
    /\ TimeoutTtl \in Nat
    /\ Interval \in Nat \ {0}

VARIABLES
    m_map,      \* the entry of each node
    m_timeout,  \* the ages in m_timeout; TimeoutTtl + Interval + 1 for none
    wait,       \* how long ago refresh() was called
    heard       \* history: heard[d][a], how long ago d was heard from a, up to Never

vars == <<m_map, m_timeout, wait, heard>>
-----------------------------------------------------------------------------
Entry == [addr: Addrs, t: 0..(MapTtl + Interval), session: Sessions]
NoEntry == [addr |-> NoAddr, t |-> 0, session |-> 0]

NoTimeout == TimeoutTtl + Interval + 1
Never == MapTtl + Interval + 1
Older(t, max) == IF t < max THEN t + 1 ELSE t

\* insert() of a bimap leaves the entry of a node it has alone, its time too.
Insert(d, a, s) ==
    IF m_map[d] = NoEntry THEN [addr |-> a, t |-> 0, session |-> s] ELSE m_map[d]

\* Mutant: the time of the entry is brought up to date whatever the address.
SameAddr_Any(e, a) == TRUE

\* Whether the entry of a node in another session is for the same address.
SameAddr(e, a) == e.addr = a

\* add_node(): the test of the domain refuses every IPv6 address.
add_node(d, a, s) ==
    LET e == m_map[d]
        taken == e = NoEntry \/ e.session \in {s, 0}
    IN  /\ \/ /\ a \in Inet6
              /\ UNCHANGED <<m_map, m_timeout>>
           \/ /\ a \in Inet /\ taken
              /\ m_map' = [m_map EXCEPT ![d] = Insert(d, a, s)]
              /\ m_timeout' = [m_timeout EXCEPT ![d] = NoTimeout]
           \/ /\ a \in Inet /\ ~ taken /\ SameAddr(e, a)
              /\ m_map' = [m_map EXCEPT ![d].t = 0]
              /\ m_timeout' = [m_timeout EXCEPT ![d] = NoTimeout]
           \/ /\ a \in Inet /\ ~ taken /\ ~ SameAddr(e, a)
              /\ UNCHANGED <<m_map, m_timeout>>
        /\ heard' = [heard EXCEPT ![d][a] = 0]
        /\ UNCHANGED wait

\* add_timeout(), when a node did not answer: it returns unless the node is in
\* m_timeout already, in which case insert() changes nothing.  Nobody gets there.
add_timeout(d) ==
    /\ IF m_timeout[d] = NoTimeout THEN UNCHANGED m_map
       ELSE m_map' = [m_map EXCEPT ![d] = NoEntry]
    /\ UNCHANGED <<m_timeout, wait, heard>>

\* refresh(), by timer_func.
refresh ==
    /\ m_timeout' = [d \in Nodes |-> IF m_timeout[d] > TimeoutTtl THEN NoTimeout ELSE m_timeout[d]]
    /\ m_map' = [d \in Nodes |-> IF m_map[d].t > MapTtl THEN NoEntry ELSE m_map[d]]
    /\ wait' = 0
    /\ UNCHANGED heard

\* Time passes, as long as the timer is not late.
Tick ==
    /\ wait < Interval
    /\ wait' = wait + 1
    /\ m_map' = [d \in Nodes |-> IF m_map[d] = NoEntry THEN NoEntry
                                 ELSE [m_map[d] EXCEPT !.t = @ + 1]]
    /\ m_timeout' = [d \in Nodes |-> Older(m_timeout[d], NoTimeout)]
    /\ heard' = [d \in Nodes |-> [a \in Addrs |-> Older(heard[d][a], Never)]]
-----------------------------------------------------------------------------
Init ==
    /\ m_map = [d \in Nodes |-> NoEntry]
    /\ m_timeout = [d \in Nodes |-> NoTimeout]
    /\ wait = 0
    /\ heard = [d \in Nodes |-> [a \in Addrs |-> Never]]

Next ==
    \/ \E d \in Nodes, a \in Addrs, s \in Sessions : add_node(d, a, s)
    \/ \E d \in Nodes : add_timeout(d)
    \/ refresh
    \/ Tick

Spec == Init /\ [][Next]_vars
-----------------------------------------------------------------------------
(* Properties. *)

TypeOK ==
    /\ m_map \in [Nodes -> Entry \cup {NoEntry}]
    /\ m_timeout \in [Nodes -> 0..NoTimeout]
    /\ wait \in 0..Interval
    /\ heard \in [Nodes -> [Addrs -> 0..Never]]

\* An address in the map was reported no longer ago than the age of its entry
\* says: no report of another address keeps it alive, and none outlives map_ttl
\* by more than one period of the timer.
AgeIsHonest ==
    \A d \in Nodes : m_map[d] # NoEntry =>
        /\ heard[d][m_map[d].addr] <= m_map[d].t
        /\ m_map[d].t <= MapTtl + Interval
=============================================================================
