---------------------------- MODULE DtunRegister ----------------------------
(***************************************************************************)
(* How the holders of a registration keep up with a node (register_node,   *)
(* recv_register and refresh of libcage/dtun.cpp).  Every node registers   *)
(* itself again and again at the nodes closest to its identifier.  A       *)
(* holder takes over another address only from the same session; a node    *)
(* that has restarted with another address has to wait until the entry of  *)
(* its former self is older than registered_ttl.                           *)
(***************************************************************************)
EXTENDS Naturals

CONSTANTS
    Addrs,      \* the addresses the node may have
    Ttl,        \* registered_ttl, in ticks
    MaxSession, \* how often the node starts (a bound)
    MaxMove,    \* how often it gets another address (a bound)
    Dup         \* whether a message may be delivered again

ASSUME RegisterAssumption ==
    /\ Addrs # {}
    /\ Ttl \in Nat
    /\ MaxSession \in Nat \ {0}
    /\ MaxMove \in Nat
    /\ Dup \in BOOLEAN

VARIABLES
    addr,           \* the address of the node
    session,        \* its m_register_session
    m_registering,
    finding,        \* whether its find_node() has not called back
    moves,          \* how often the address has changed
    entry,          \* the entry of the node in m_registered_nodes of the holder
    had,            \* history: the sessions of the node with their addresses
    quiet,          \* history: how long no registration of the owner of the entry came
    net             \* the registrations under way

node == <<addr, session, m_registering, finding, moves, had>>
vars == <<node, entry, quiet, net>>
-----------------------------------------------------------------------------
Session == 1..MaxSession
Registration == [session: Session, addr: Addrs]

NoEntry == [session |-> 0, t |-> 0]
Entry(r, t) == [session |-> r.session, addr |-> r.addr, t |-> t]

Left(m) == IF Dup THEN net ELSE net \ {m}
-----------------------------------------------------------------------------
(* The node. *)

\* timer_refresh, by register_node().  The lookup of a node without neighbours
\* calls back at once, nothing is sent and nothing changes: that is no step here.
timer_refresh ==
    /\ ~ m_registering
    /\ m_registering' = TRUE
    /\ finding' = TRUE
    /\ UNCHANGED <<addr, session, moves, had, entry, quiet, net>>

\* register_callback: holder says whether the holder is among the nodes.
register_callback(holder) ==
    /\ finding
    /\ finding' = FALSE
    /\ m_registering' = FALSE
    /\ net' = IF holder THEN net \cup {[session |-> session, addr |-> addr]} ELSE net
    /\ UNCHANGED <<addr, session, moves, had, entry, quiet>>

\* The node gets another address.
Move ==
    /\ moves < MaxMove
    /\ moves' = moves + 1
    /\ \E a \in Addrs \ {addr} :
         /\ addr' = a
         /\ had' = had \cup {[session |-> session, addr |-> a]}
    /\ UNCHANGED <<session, m_registering, finding, entry, quiet, net>>

\* The node starts again, with a new session and perhaps another address.
Restart ==
    /\ session < MaxSession
    /\ session' = session + 1
    /\ addr' \in Addrs
    /\ had' = had \cup {[session |-> session', addr |-> addr']}
    /\ m_registering' = FALSE
    /\ finding' = FALSE
    /\ UNCHANGED <<moves, entry, quiet, net>>
-----------------------------------------------------------------------------
(* The holder. *)

\* For quiet: the owner of an entry is its session, and whoever has its address.
OfOwner(m) == entry = NoEntry \/ entry.session = m.session \/ entry.addr = m.addr

\* Mutant: the session of the entry is not looked at.
recv_register_AnySession(m) ==
    /\ entry' = Entry(m, 0)
    /\ quiet' = IF OfOwner(m) THEN 0 ELSE quiet
    /\ net' = Left(m)
    /\ UNCHANGED node

\* Mutant: every registration of the node sets the time of its entry anew.
recv_register_Refresh(m) ==
    /\ entry' = IF entry = NoEntry \/ entry.session = m.session THEN Entry(m, 0)
                ELSE [entry EXCEPT !.t = 0]
    /\ quiet' = IF OfOwner(m) THEN 0 ELSE quiet
    /\ net' = Left(m)
    /\ UNCHANGED node

\* (That the address also goes to m_peers is part of Dgram.)
recv_register(m) ==
    /\ entry' = CASE entry = NoEntry -> Entry(m, 0)
                  [] entry # NoEntry /\ entry.session = m.session -> Entry(m, 0)
                  [] entry # NoEntry /\ entry.session # m.session /\ entry.addr = m.addr
                        -> [entry EXCEPT !.t = 0]
                  [] OTHER -> entry
    /\ quiet' = IF OfOwner(m) THEN 0 ELSE quiet
    /\ net' = Left(m)
    /\ UNCHANGED node

refresh ==
    /\ entry # NoEntry /\ entry.t > Ttl
    /\ entry' = NoEntry
    /\ quiet' = 0
    /\ UNCHANGED <<node, net>>

\* Time passes.  (quiet is no longer counted once it is more than Ttl.)
Tick ==
    /\ entry # NoEntry /\ entry.t <= Ttl
    /\ entry' = [entry EXCEPT !.t = @ + 1]
    /\ quiet' = IF quiet > Ttl THEN quiet ELSE quiet + 1
    /\ UNCHANGED <<node, net>>

Lose ==
    /\ \E m \in net : net' = net \ {m}
    /\ UNCHANGED <<node, entry, quiet>>
-----------------------------------------------------------------------------
Init ==
    /\ addr \in Addrs
    /\ session = 1
    /\ m_registering = FALSE
    /\ finding = FALSE
    /\ moves = 0
    /\ entry = NoEntry
    /\ had = {[session |-> 1, addr |-> addr]}
    /\ quiet = 0
    /\ net = {}

Current == [session |-> session, addr |-> addr]
RecvCurrent == Current \in net /\ recv_register(Current)

Next ==
    \/ timer_refresh
    \/ \E holder \in BOOLEAN : register_callback(holder)
    \/ Move
    \/ Restart
    \/ \E m \in net : recv_register(m)
    \/ refresh
    \/ Tick
    \/ Lose

Spec == Init /\ [][Next]_vars

\* The timers of the node and of the holder are called, and time passes; and of
\* registrations sent for ever some are sent to the holder and arrive.
FairSpec == /\ Spec
            /\ WF_vars(timer_refresh)
            /\ WF_vars(refresh)
            /\ WF_vars(Tick)
            /\ WF_vars(\E holder \in BOOLEAN : register_callback(holder))
            /\ SF_vars(register_callback(TRUE))
            /\ SF_vars(RecvCurrent)
-----------------------------------------------------------------------------
(* Properties. *)

TypeOK ==
    /\ addr \in Addrs
    /\ session \in Session
    /\ m_registering \in BOOLEAN
    /\ finding \in BOOLEAN
    /\ moves \in 0..MaxMove
    /\ entry \in [session: Session, addr: Addrs, t: 0..(Ttl + 1)] \cup {NoEntry}
    /\ had \subseteq Registration
    /\ quiet \in 0..(Ttl + 1)
    /\ net \subseteq had

\* The address of an entry is one that the node had in the session of the entry.
OfNode == entry # NoEntry => \E r \in had : entry.session = r.session /\ entry.addr = r.addr

\* The entry stays and is of the same session.
Kept == entry' # NoEntry /\ entry'.session = entry.session

\* As long as a registration of its owner comes in every registered_ttl, an entry neither
\* ends nor goes to another session, whatever registrations are late; and its address is
\* always one that the node had in that session.
SameOwner == [][OfNode' /\ (entry # NoEntry /\ quiet <= Ttl => Kept)]_vars

\* Whatever the node went through, the holder gets to know where it is now, and
\* does not lose that for good.
HolderFollows == []<>(entry # NoEntry /\ entry.addr = addr)
=============================================================================
