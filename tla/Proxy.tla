-------------------------------- MODULE Proxy --------------------------------
(***************************************************************************)
(* How a node behind a symmetric NAT, the client, registers at its proxy   *)
(* (libcage/proxy.cpp): as nodes register in the tunnel network, with      *)
(* sessions and a time to live (DtunRegister, whose state it shares: for a *)
(* client the holder is the proxy, entry its entry in m_registered and     *)
(* m_registering its m_is_registering).  But the proxy answers, and takes  *)
(* no other session until the entry is too old, whatever the address.      *)
(*                                                                         *)
(* The node of the other kind is a proxy itself: it registers in the       *)
(* tunnel network for itself and for clients that are new to it, with one  *)
(* m_registering for both.  In either case the holder may lose its state.  *)
(***************************************************************************)
EXTENDS DtunRegister, FiniteSets

CONSTANTS
    MaxLooking,     \* how many lookups of a client may be under way (a bound)
    MaxLoss,        \* how often the holder starts again (a bound)
    MaxOld          \* how many messages a registration finds under way (a bound)

ASSUME ProxyAssumption ==
    MaxLooking \in Nat \ {0} /\ MaxLoss \in Nat /\ MaxOld \in Nat

VARIABLES
    kind,       \* "client", or "proxy" for a node of the tunnel network
    client,     \* the rest of the state of the client
    cnet,       \* the messages between the client and its proxy
    cfinding,   \* whether a lookup of the proxy for a client has not called back
    took,       \* history: the sessions of the client that its proxy took
    losses      \* how often the holder has started again

pvars == <<kind, client, cnet, cfinding, took, losses>>
allvars == <<vars, pvars>>
-----------------------------------------------------------------------------
\* looking: how many of its lookups have not called back; timer: whether m_timer_register
\* is set; alone: history, whether a lookup that found nobody else left m_is_registering
\* set.
NewClient == [looking |-> 0, timer |-> FALSE, is_registered |-> FALSE, alone |-> FALSE]

\* nonce: whether the nonce of a message is the present m_nonce of the client.
Message(type) == [type |-> type, session |-> session, addr |-> addr, nonce |-> TRUE]
Outdated(msgs) == {[m EXCEPT !.nonce = FALSE] : m \in msgs}
-----------------------------------------------------------------------------
(* The client. *)

\* register_node() of the proxy class, which timer_proxy calls, and store(), get() and
\* send_dgram() of a client that is not registered.  A lookup ends in a few periods of
\* timer_proxy.  (What timer_proxy does besides, sweep_rdp() and retry_storing(), leaves
\* the registration alone.)
timer_proxy ==
    /\ kind = "client"
    /\ \/ /\ m_registering \/ client.looking = MaxLooking
          /\ UNCHANGED <<m_registering, client>>
       \/ /\ ~ m_registering /\ client.looking < MaxLooking
          /\ m_registering' = TRUE
          /\ client' = [client EXCEPT !.looking = @ + 1]
    /\ UNCHANGED <<addr, session, finding, moves, had, entry, quiet, net>>
    /\ UNCHANGED <<kind, cnet, cfinding, took, losses>>

\* The client after register_func() has sent its registration.
Asking(c) == [c EXCEPT !.looking = @ - 1, !.timer = TRUE]

\* register_func, called with another node, which becomes the proxy.  (Of the messages
\* under way all but MaxOld are lost.)
register_func ==
    /\ client.looking > 0
    /\ client' = Asking(client)
    /\ \E old \in {msgs \in SUBSET cnet : Cardinality(msgs) <= MaxOld} :
         cnet' = Outdated(old) \cup {Message("register")}
    /\ UNCHANGED <<vars, kind, cfinding, took, losses>>

\* register_func, called with no other node: nothing ends the registration.
register_func_alone ==
    /\ client.looking > 0
    /\ client' = [client EXCEPT !.looking = @ - 1,
                     !.alone = m_registering /\ client.looking = 1 /\ ~ client.timer]
    /\ UNCHANGED <<vars, kind, cnet, cfinding, took, losses>>

timer_register ==
    /\ client.timer
    /\ client' = [client EXCEPT !.timer = FALSE]
    /\ m_registering' = FALSE
    /\ UNCHANGED <<addr, session, finding, moves, had, entry, quiet, net>>
    /\ UNCHANGED <<kind, cnet, cfinding, took, losses>>

\* Mutant: the nonce of the reply is not looked at.
Awaited_Any(m) == m_registering

\* Whether the client waits for the reply.
Awaited(m) == m_registering /\ m.nonce

recv_register_reply(m) ==
    /\ m.type = "reply" /\ m.addr = addr
    /\ IF Awaited(m)
       THEN /\ client' = [client EXCEPT !.is_registered = TRUE, !.timer = FALSE,
                                        !.alone = FALSE]
            /\ m_registering' = FALSE
       ELSE UNCHANGED <<client, m_registering>>
    /\ cnet' = cnet \ {m}
    /\ UNCHANGED <<addr, session, finding, moves, had, entry, quiet, net>>
    /\ UNCHANGED <<kind, cfinding, took, losses>>
-----------------------------------------------------------------------------
(* The proxy. *)

\* Mutant: a registration that is refused brings the time of the entry up to date.
Entered_Refresh(m) ==
    IF entry = NoEntry \/ entry.session = m.session THEN Entry(m, 0) ELSE [entry EXCEPT !.t = 0]

\* The entry of the client after its registration m.
Entered(m) ==
    IF entry = NoEntry \/ entry.session = m.session THEN Entry(m, 0) ELSE entry

\* recv_register() of the proxy class.  (That the proxy calls dtun::register_node() for
\* a client without entry is recv_client, at the proxy.)
recv_proxy_register(m) ==
    /\ m.type = "register"
    /\ entry' = Entered(m)
    /\ LET taken == entry = NoEntry \/ entry.session = m.session
       IN  /\ took' = IF taken THEN took \cup {m.session} ELSE took
           /\ quiet' = IF taken THEN 0 ELSE quiet
           /\ cnet' = (cnet \ {m}) \cup IF taken THEN {[m EXCEPT !.type = "reply"]} ELSE {}
    /\ UNCHANGED <<node, net, kind, client, cfinding, losses>>

\* A client that is new registers here: dtun::register_node() of its identifier, which
\* does not wait for m_registering.
recv_client ==
    /\ kind = "proxy" /\ ~ cfinding
    /\ cfinding' = TRUE
    /\ m_registering' = TRUE
    /\ UNCHANGED <<addr, session, finding, moves, had, entry, quiet, net>>
    /\ UNCHANGED <<kind, client, cnet, took, losses>>

\* dtun::register_callback for the client.
client_callback ==
    /\ cfinding
    /\ cfinding' = FALSE
    /\ m_registering' = FALSE
    /\ UNCHANGED <<addr, session, finding, moves, had, entry, quiet, net>>
    /\ UNCHANGED <<kind, client, cnet, took, losses>>
-----------------------------------------------------------------------------
\* The holder starts again.
Loss ==
    /\ losses < MaxLoss
    /\ losses' = losses + 1
    /\ entry' = NoEntry
    /\ quiet' = 0
    /\ UNCHANGED <<node, net, kind, client, cnet, cfinding, took>>

\* The node starts again.
StartAgain ==
    /\ Restart
    /\ client' = NewClient
    /\ cnet' = Outdated(cnet)
    /\ cfinding' = FALSE
    /\ UNCHANGED <<kind, took, losses>>

\* What DtunRegister describes; for a client its addresses, and refresh() and the time
\* of the proxy.  (Another lookup of a proxy of its own, beside one under way, is taken
\* for that one.)
Registering ==
    \/ timer_refresh \/ (\E holder \in BOOLEAN : register_callback(holder))
    \/ (\E m \in net : recv_register(m)) \/ Lose

Tunnel ==
    /\ (kind = "proxy" /\ Registering) \/ Move \/ refresh \/ Tick
    /\ UNCHANGED pvars

LoseMessage ==
    /\ \E m \in cnet : cnet' = cnet \ {m}
    /\ UNCHANGED <<vars, kind, client, cfinding, took, losses>>
-----------------------------------------------------------------------------
ProxyInit ==
    /\ Init
    /\ kind \in {"client", "proxy"}
    /\ client = NewClient
    /\ cnet = {}
    /\ cfinding = FALSE
    /\ took = {}
    /\ losses = 0

ProxyNext ==
    \/ timer_proxy
    \/ register_func
    \/ register_func_alone
    \/ timer_register
    \/ \E m \in cnet : recv_register_reply(m)
    \/ \E m \in cnet : recv_proxy_register(m)
    \/ recv_client
    \/ client_callback
    \/ Loss
    \/ StartAgain
    \/ Tunnel
    \/ LoseMessage

ProxySpec == ProxyInit /\ [][ProxyNext]_allvars

InTunnel(A) == kind = "proxy" /\ A /\ UNCHANGED pvars

\* A registration of the client as it is arrives at the proxy.
RecvPresent ==
    \E m \in cnet : m.session = session /\ m.addr = addr /\ recv_proxy_register(m)

\* The timers of both are called and lookups call back; of lookups made for ever some
\* find the holder, and of registrations sent to it for ever some arrive.  timer_refresh is
\* called so much more often than clients are new that not every call falls into one of
\* their lookups.
ProxyFairSpec ==
    /\ ProxySpec
    /\ WF_allvars(timer_proxy) /\ WF_allvars(timer_register)
    /\ WF_allvars(register_func \/ register_func_alone)
    /\ SF_allvars(register_func) /\ SF_allvars(RecvPresent)
    /\ WF_allvars(client_callback)
    /\ WF_allvars(refresh /\ UNCHANGED pvars) /\ WF_allvars(Tick /\ UNCHANGED pvars)
    /\ SF_allvars(InTunnel(timer_refresh))
    /\ WF_allvars(InTunnel(\E holder \in BOOLEAN : register_callback(holder)))
    /\ SF_allvars(InTunnel(register_callback(TRUE)))
    /\ SF_allvars(InTunnel(RecvCurrent))
-----------------------------------------------------------------------------
(* Properties. *)

\* While m_is_registering keeps the client from registering, something is under way that
\* will end that: a lookup or the timer; except that a lookup that finds nobody else
\* leaves it set.
RegisterAwaited ==
    kind = "client" /\ m_registering => client.looking > 0 \/ client.timer \/ client.alone

\* The client takes itself for registered only if the proxy took it in its present session:
\* no late reply to its former self counts.
ServerKnown == client.is_registered => session \in took

\* What the client believes of its registration is right.
ClientInv == RegisterAwaited /\ ServerKnown

\* SameOwner of the entries of clients too, at a holder that may start again.  (The proxy
\* takes nobody but the session for the owner of an entry.)
OwnerKept ==
    [][OfNode' /\ (entry # NoEntry /\ quiet <= Ttl => Kept \/ Loss)]_allvars

\* Whatever the client and its proxy went through, the proxy gets to know the client as it
\* is, again and again; unless the client is left alone.
ServerFollows ==
    kind = "client" => []<>(client.alone \/ (entry.session = session /\ entry.addr = addr))

\* HolderFollows of DtunRegister, of a proxy that registers clients in between.
ProxyFollows == kind = "proxy" => HolderFollows
=============================================================================
