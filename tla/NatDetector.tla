----------------------------- MODULE NatDetector -----------------------------
(***************************************************************************)
(* How a node finds out what stands between it and the network             *)
(* (libcage/natdetector.cpp).  detect() and the periodic timer_nat send an *)
(* echo to one peer; its reply makes the node open a second socket and ask *)
(* the peer to answer there (echo_redirect).  An answer means that the     *)
(* node is global, silence that it is behind a NAT, whose kind two further *)
(* echoes tell by the ports their replies report.                          *)
(*                                                                         *)
(* The peers run the same code (recv_echo, recv_echo_redirect).  What a    *)
(* NAT does to a datagram is external: it lets nothing in at a port from   *)
(* which nothing went out, and a symmetric one uses another port for every *)
(* destination.                                                            *)
(***************************************************************************)
EXTENDS Naturals

CONSTANTS
    Peers,      \* the other nodes, each with an IP address of its own
    PortOf,     \* PortOf[p]: the port a symmetric NAT uses towards p
    ConePort,   \* the port any other path uses
    MaxNonce,   \* how many nonces are drawn (a bound)
    Dup,        \* whether a datagram may be delivered again
    Stray       \* what else may arrive at the second socket: "length", a
                \* datagram of another length, or "type", one of another type

ASSUME NatAssumption ==
    /\ PortOf \in [Peers -> Nat \ {0}]
    /\ \A p, q \in Peers : PortOf[p] = PortOf[q] => p = q
    /\ ConePort \in Nat \ {0}
    /\ MaxNonce \in Nat
    /\ Dup \in BOOLEAN
    /\ Stray \subseteq {"length", "type"}

VARIABLES
    m_state,
    m_timers,   \* the pending echo timers: the nonce and the function called
    m_udps,     \* the nonces of the open second sockets
    m_reply,    \* m_reply[nonce]: the port of the first reply, 0 before it
    timer_nat,  \* whether timer_nat is set
    drawn,      \* how many nonces m_rnd() has given; it gives no nonce twice
    started,    \* whether detect() was called
    registered, \* whether proxy::register_node() was called
    joined,     \* whether join_dht() found a peer and called dht::find_node()
    known,      \* the addresses in m_peers
    path,       \* what is between the node and the network
    domain,     \* the domain of the socket
    net,        \* the datagrams under way
    misled      \* whether a datagram of another type closed a second socket
                \* (a history variable: the code keeps no such flag)

own == <<m_state, m_timers, m_udps, m_reply, timer_nat, drawn, started, registered,
         joined>>
vars == <<own, known, path, domain, net, misled>>
-----------------------------------------------------------------------------
State == {"undefined", "echo_wait1", "echo_redirect_wait", "global", "nat",
          "echo_wait2", "cone_nat", "symmetric_nat"}
Waiting == {"echo_wait1", "echo_redirect_wait", "echo_wait2"}
Final == {"global", "cone_nat", "symmetric_nat"}
Nonce == 1..MaxNonce

\* The port from which the datagrams of the node reach peer p.
Port(p) == IF path = "symmetric" THEN PortOf[p] ELSE ConePort

Echo(p, nonce) == [type |-> "echo", peer |-> p, nonce |-> nonce, port |-> 0]
EchoReply(p, nonce) == [type |-> "echo_reply", peer |-> p, nonce |-> nonce, port |-> Port(p)]
Redirect(p, nonce) == [type |-> "redirect", peer |-> p, nonce |-> nonce, port |-> 0]
RedirectReply(p, nonce) ==
    [type |-> "redirect_reply", peer |-> p, nonce |-> nonce, port |-> Port(p)]

Left(m) == IF Dup THEN net ELSE net \ {m}

HasTimer(nonce) == \E t \in m_timers : t.nonce = nonce
WithoutTimer(nonce) == {t \in m_timers : t.nonce # nonce}
-----------------------------------------------------------------------------
(* The node. *)

\* join_dht() gives up when it knows no peer.
join_dht == joined' = (joined \/ known # {})

\* detect_nat() with get_echo(), in state undefined, to peer p.
detect_nat(p) ==
    /\ m_state = "undefined"
    /\ drawn < MaxNonce
    /\ drawn' = drawn + 1
    /\ m_timers' = m_timers \cup {[nonce |-> drawn + 1, func |-> "echo_wait1"]}
    /\ m_state' = "echo_wait1"
    /\ net' = net \cup {Echo(p, drawn + 1)}
    /\ UNCHANGED <<m_udps, m_reply>>

\* detect_nat_type(), in state nat, to two peers with different addresses.
detect_nat_type(p, q) ==
    /\ m_state = "nat"
    /\ drawn < MaxNonce
    /\ drawn' = drawn + 1
    /\ m_timers' = m_timers \cup {[nonce |-> drawn + 1, func |-> "echo_wait2"]}
    /\ m_reply' = [m_reply EXCEPT ![drawn + 1] = 0]
    /\ m_state' = "echo_wait2"
    /\ net' = net \cup {Echo(p, drawn + 1), Echo(q, drawn + 1)}
    /\ UNCHANGED m_udps

\* detect(), called by cage::join(): it leaves detect_nat() out unless the state
\* is undefined, and sets timer_nat anew.
detect ==
    /\ \/ /\ domain = "inet6"
          /\ m_state' = "global"
          /\ UNCHANGED <<m_timers, m_udps, m_reply, timer_nat, drawn, net>>
       \/ /\ domain = "inet" /\ m_state \notin Final
          /\ timer_nat' = TRUE
          /\ \/ \E p \in Peers : detect_nat(p)
             \/ /\ m_state # "undefined"
                /\ UNCHANGED <<m_state, m_timers, m_udps, m_reply, drawn, net>>
    /\ started' = TRUE
    /\ UNCHANGED <<registered, joined, known, path, domain, misled>>

\* timer_nat, every timer_interval until the state is final.
timer_nat_fires ==
    /\ timer_nat
    /\ timer_nat' = (m_state \notin Final)
    /\ \/ \E p \in known : detect_nat(p)
       \/ \E p, q \in known : p # q /\ detect_nat_type(p, q)
       \/ /\ \/ m_state \in Final \cup Waiting
             \/ known = {}
             \/ m_state = "nat" /\ \A p, q \in known : p = q
          /\ UNCHANGED <<m_state, m_timers, m_udps, m_reply, drawn, net>>
    /\ UNCHANGED <<started, registered, joined, known, path, domain, misled>>

timer_echo_wait1 ==
    /\ \E t \in m_timers : t.func = "echo_wait1" /\ m_timers' = WithoutTimer(t.nonce)
    /\ m_state' = "undefined"
    /\ UNCHANGED <<m_udps, m_reply, timer_nat, drawn, started, registered, joined,
                   known, path, domain, misled, net>>

timer_echo_wait2 ==
    /\ \E t \in m_timers :
         /\ t.func = "echo_wait2"
         /\ m_timers' = WithoutTimer(t.nonce)
         /\ m_reply' = [m_reply EXCEPT ![t.nonce] = 0]
    /\ m_state' = "nat"
    /\ UNCHANGED <<m_udps, timer_nat, drawn, started, registered, joined, known,
                   path, domain, misled, net>>

\* Mutant: the timer of the echo stays set.
recv_echo_reply_wait1_KeepTimer(m) ==
    /\ HasTimer(m.nonce)
    /\ drawn < MaxNonce
    /\ drawn' = drawn + 1
    /\ m_udps' = m_udps \cup {drawn + 1}
    /\ m_state' = "echo_redirect_wait"
    /\ net' = Left(m) \cup {Redirect(m.peer, drawn + 1)}
    /\ UNCHANGED <<m_timers, m_reply, registered, joined>>

recv_echo_reply_wait1(m) ==
    /\ HasTimer(m.nonce)
    /\ drawn < MaxNonce
    /\ drawn' = drawn + 1
    /\ m_timers' = WithoutTimer(m.nonce)
    /\ m_udps' = m_udps \cup {drawn + 1}
    /\ m_state' = "echo_redirect_wait"
    /\ net' = Left(m) \cup {Redirect(m.peer, drawn + 1)}
    /\ UNCHANGED <<m_reply, registered, joined>>

\* Mutant: the second reply need not report the same port.
recv_echo_reply_wait2_AnyPort(m) ==
    /\ HasTimer(m.nonce)
    /\ \/ /\ m_reply[m.nonce] = 0
          /\ m_reply' = [m_reply EXCEPT ![m.nonce] = m.port]
          /\ UNCHANGED <<m_state, m_timers, registered, joined>>
       \/ /\ m_reply[m.nonce] # 0
          /\ m_reply' = [m_reply EXCEPT ![m.nonce] = 0]
          /\ m_timers' = WithoutTimer(m.nonce)
          /\ m_state' = "cone_nat" /\ join_dht /\ UNCHANGED registered
    /\ net' = Left(m)
    /\ UNCHANGED <<m_udps, drawn>>

\* The first reply is kept, the second compared with it.
recv_echo_reply_wait2(m) ==
    /\ HasTimer(m.nonce)
    /\ \/ /\ m_reply[m.nonce] = 0
          /\ m_reply' = [m_reply EXCEPT ![m.nonce] = m.port]
          /\ UNCHANGED <<m_state, m_timers, registered, joined>>
       \/ /\ m_reply[m.nonce] # 0
          /\ m_reply' = [m_reply EXCEPT ![m.nonce] = 0]
          /\ m_timers' = WithoutTimer(m.nonce)
          /\ IF m_reply[m.nonce] = m.port
             THEN m_state' = "cone_nat" /\ join_dht /\ UNCHANGED registered
             ELSE m_state' = "symmetric_nat" /\ registered' = TRUE /\ UNCHANGED joined
    /\ net' = Left(m)
    /\ UNCHANGED <<m_udps, drawn>>

recv_echo_reply ==
    /\ \E m \in net :
         /\ m.type = "echo_reply"
         /\ \/ m_state = "echo_wait1" /\ recv_echo_reply_wait1(m)
            \/ m_state = "echo_wait2" /\ recv_echo_reply_wait2(m)
            \/ /\ m_state \in {"echo_wait1", "echo_wait2"} => ~ HasTimer(m.nonce)
               /\ net' = Left(m)
               /\ UNCHANGED <<m_state, m_timers, m_udps, m_reply, drawn, registered, joined>>
    /\ UNCHANGED <<timer_nat, started, known, path, domain, misled>>

\* Mutant: the socket is closed and nothing else.
udp_timeout_Silent ==
    /\ \E n \in m_udps : m_udps' = m_udps \ {n}
    /\ UNCHANGED <<m_state, m_timers, m_reply, timer_nat, drawn, started, registered, joined,
                   known, path, domain, misled, net>>

\* udp_receiver of a second socket: nothing came in echo_timeout seconds.
udp_timeout ==
    /\ \E n \in m_udps : m_udps' = m_udps \ {n}
    /\ m_state' = "nat"
    /\ UNCHANGED <<m_timers, m_reply, timer_nat, drawn, started, registered, joined,
                   known, path, domain, misled, net>>

recv_echo_redirect_reply(nonce) ==
    IF m_state = "echo_redirect_wait" /\ nonce \in m_udps
    THEN m_state' = "global" /\ join_dht
    ELSE m_state' = "undefined" /\ UNCHANGED joined

\* udp_receiver of a second socket: something came.  The port may have belonged
\* to an earlier socket, so that an old reply may come here too.
udp_receiver ==
    /\ \E n \in m_udps :
         /\ m_udps' = m_udps \ {n}
         /\ \/ \E m \in net : /\ m.type = "redirect_reply"
                              /\ recv_echo_redirect_reply(m.nonce)
                              /\ net' = Left(m)
                              /\ UNCHANGED misled
            \/ "length" \in Stray /\ m_state' = "undefined" /\ UNCHANGED <<joined, net, misled>>
            \/ "type" \in Stray /\ misled' = TRUE /\ UNCHANGED <<m_state, joined, net>>
    /\ UNCHANGED <<m_timers, m_reply, timer_nat, drawn, started, registered,
                   known, path, domain>>
-----------------------------------------------------------------------------
(* The peers, and the network. *)

recv_echo ==
    /\ \E m \in net : m.type = "echo" /\ net' = Left(m) \cup {EchoReply(m.peer, m.nonce)}
    /\ UNCHANGED <<own, known, path, domain, misled>>

\* The reply goes to the port of the second socket: a NAT drops it.
recv_echo_redirect ==
    /\ \E m \in net :
         /\ m.type = "redirect"
         /\ net' = Left(m) \cup
                     (IF path = "none" THEN {RedirectReply(m.peer, m.nonce)} ELSE {})
    /\ UNCHANGED <<own, known, path, domain, misled>>

\* m_peers learns and forgets addresses.
PeersChange ==
    /\ known' \in SUBSET Peers
    /\ UNCHANGED <<own, path, domain, misled, net>>
-----------------------------------------------------------------------------
(* The specification. *)

Init ==
    /\ m_state = "undefined"
    /\ m_timers = {}
    /\ m_udps = {}
    /\ m_reply = [n \in Nonce |-> 0]
    /\ timer_nat = FALSE
    /\ drawn = 0
    /\ started = FALSE
    /\ registered = FALSE
    /\ joined = FALSE
    /\ known = {}
    /\ path \in {"none", "cone", "symmetric"}
    /\ domain \in {"inet", "inet6"}
    /\ net = {}
    /\ misled = FALSE

Next ==
    \/ detect
    \/ timer_nat_fires
    \/ timer_echo_wait1
    \/ timer_echo_wait2
    \/ recv_echo_reply
    \/ udp_timeout
    \/ udp_receiver
    \/ recv_echo
    \/ recv_echo_redirect
    \/ PeersChange

Spec == Init /\ [][Next]_vars

\* libevent calls a timer that is due.
FairSpec == /\ Spec
            /\ WF_vars(timer_echo_wait1)
            /\ WF_vars(timer_echo_wait2)
            /\ WF_vars(udp_timeout)
-----------------------------------------------------------------------------
(* Properties. *)

Datagram == [type: {"echo", "echo_reply", "redirect", "redirect_reply"},
             peer: Peers, nonce: Nonce, port: Nat]

TypeOK ==
    /\ m_state \in State
    /\ m_timers \subseteq [nonce: Nonce, func: {"echo_wait1", "echo_wait2"}]
    /\ m_udps \subseteq Nonce
    /\ m_reply \in [Nonce -> Nat]
    /\ timer_nat \in BOOLEAN
    /\ drawn \in 0..MaxNonce
    /\ started \in BOOLEAN
    /\ registered \in BOOLEAN
    /\ joined \in BOOLEAN
    /\ known \subseteq Peers
    /\ path \in {"none", "cone", "symmetric"}
    /\ domain \in {"inet", "inet6"}
    /\ net \subseteq Datagram
    /\ misled \in BOOLEAN

\* What get_state() tells the DHT and the proxy is true of the network, whatever
\* was lost, late or reordered: a node that calls itself global can be reached,
\* one that calls itself symmetric is behind a symmetric NAT and one that joins
\* as a cone is not.  (A global node whose answer was lost may end as cone_nat.)
Sound ==
    /\ m_state = "global" /\ domain = "inet" => path = "none"
    /\ m_state = "symmetric_nat" => path = "symmetric"
    /\ m_state = "cone_nat" => path # "symmetric"

\* A state is waited in only with the timer or the socket that ends the wait, and
\* nothing else is pending: a late timer or reply of an earlier attempt, which
\* would set m_state whatever it is now, cannot be there.  (The one way out is a
\* datagram of another type at a second socket: the socket is closed and the
\* state left as it is.)
OnePending ==
    /\ m_timers = {} => m_state \notin {"echo_wait1", "echo_wait2"}
    /\ \A t \in m_timers : m_timers = {t} /\ m_state = t.func
    /\ \A n \in m_udps : m_udps = {n} /\ m_state = "echo_redirect_wait"
    /\ m_udps = {} => m_state # "echo_redirect_wait" \/ misled

\* Detection goes on until it has an answer: once detect() was called, timer_nat
\* is set as long as the state is not final.
RetryArmed == started /\ m_state \notin Final => timer_nat

\* An answer is kept: no timer, late reply or stray datagram takes it away.  The
\* node registers at a proxy only with the answer symmetric_nat, and detection
\* makes it join the DHT only with one of the others.
FinalStays == [][/\ m_state \in Final /\ domain = "inet" => m_state' = m_state
                 /\ registered' => m_state' = "symmetric_nat"
                 /\ joined' => m_state' \in {"global", "cone_nat"}]_vars

\* Every wait comes to an end, unless a datagram of another type closed the socket
\* that was waited for.
WaitEnds == m_state \in Waiting ~> (m_state \notin Waiting \/ misled)
=============================================================================
