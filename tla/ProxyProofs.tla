----------------------------- MODULE ProxyProofs -----------------------------
(***************************************************************************)
(* Proofs about DtunRegister and about Proxy, which composes it with the   *)
(* registrations of clients, for any addresses, time to live, number of    *)
(* sessions, moves, lookups and losses, and whether or not registrations   *)
(* are repeated.                                                           *)
(***************************************************************************)
EXTENDS Proxy, TLAPS

\* The time of an entry tells how long its owner was not heard.
TimeExact == entry # NoEntry => entry.t = quiet

\* The entry of the holder, and every registration under way, is of a session of
\* the node and an address that the node had in it.
RegInv == TypeOK /\ Current \in had /\ OfNode /\ TimeExact

TypedEntry == [session: Session, addr: Addrs, t: 0..(Ttl + 1)]

\* An entry has the session and the address of its registration.
LEMMA EntryFields ==
    ASSUME NEW r \in Registration
    PROVE  /\ Entry(r, 0) \in TypedEntry
           /\ Entry(r, 0).session = r.session
           /\ Entry(r, 0).addr = r.addr
           /\ Entry(r, 0).t = 0
  BY RegisterAssumption DEF Entry, Registration, TypedEntry

\* The steps of the node leave the entry alone, and what it had only grows.
LEMMA NodeStep ==
    ASSUME RegInv,
           \/ timer_refresh
           \/ \E holder \in BOOLEAN : register_callback(holder)
           \/ Move
           \/ Restart
    PROVE  RegInv'
  <1> USE RegisterAssumption
  <1>1. CASE timer_refresh
    BY <1>1 DEF timer_refresh, RegInv, TypeOK, OfNode, TimeExact, Current
  <1>2. CASE \E holder \in BOOLEAN : register_callback(holder)
    BY <1>2 DEF register_callback, RegInv, TypeOK, OfNode, TimeExact, Current
  <1>3. CASE Move
    <2>1. PICK a \in Addrs : addr' = a /\ had' = had \cup {[session |-> session, addr |-> a]}
      BY <1>3 DEF Move
    <2>2. [session |-> session, addr |-> a] \in Registration
      BY DEF RegInv, TypeOK, Registration
    <2>3. moves' \in 0..MaxMove /\ UNCHANGED <<session, m_registering, finding, entry, quiet, net>>
      BY <1>3 DEF Move, RegInv, TypeOK
    <2>4. Current' \in had'
      BY <2>1, <2>3 DEF Current
    <2> QED
      BY <2>1, <2>2, <2>3, <2>4 DEF RegInv, TypeOK, OfNode, TimeExact
  <1>4. CASE Restart
    <2>1. /\ session' \in Session /\ addr' \in Addrs
          /\ had' = had \cup {[session |-> session', addr |-> addr']}
          /\ m_registering' = FALSE /\ finding' = FALSE
          /\ UNCHANGED <<moves, entry, quiet, net>>
      BY <1>4 DEF Restart, RegInv, TypeOK, Session
    <2>2. [session |-> session', addr |-> addr'] \in Registration
      BY <2>1 DEF Registration
    <2>3. Current' \in had'
      BY <2>1 DEF Current
    <2> QED
      BY <2>1, <2>2, <2>3 DEF RegInv, TypeOK, OfNode, TimeExact
  <1> QED BY <1>1, <1>2, <1>3, <1>4

\* recv_register() keeps the invariant: an entry is replaced by one of the same
\* session, or made young again for the address it has.
LEMMA HolderStep ==
    ASSUME RegInv, NEW m \in net, recv_register(m)
    PROVE  RegInv'
  <1> USE RegisterAssumption
  <1>1. m \in had /\ m \in Registration
    BY DEF RegInv, TypeOK
  <1>2. net' \subseteq net /\ UNCHANGED node
    BY DEF recv_register, Left
  <1>3. \/ entry' = Entry(m, 0) /\ quiet' = 0
        \/ entry # NoEntry /\ entry' = [entry EXCEPT !.t = 0] /\ quiet' = 0
        \/ entry' = entry /\ quiet' = quiet
    BY DEF recv_register, OfOwner
  <1>4. /\ entry' \in TypedEntry \cup {NoEntry} /\ quiet' \in 0..(Ttl + 1)
        /\ entry' # NoEntry =>
             \E r \in had : entry'.session = r.session /\ entry'.addr = r.addr
        /\ TimeExact'
    <2>1. CASE entry' = Entry(m, 0) /\ quiet' = 0
      BY <1>1, <2>1, EntryFields DEF TimeExact
    <2>2. CASE entry # NoEntry /\ entry' = [entry EXCEPT !.t = 0] /\ quiet' = 0
      <3>1. entry \in TypedEntry
        BY <2>2 DEF RegInv, TypeOK, TypedEntry
      <3>2. /\ entry' \in TypedEntry /\ entry'.t = 0
            /\ entry'.session = entry.session /\ entry'.addr = entry.addr
        BY <2>2, <3>1 DEF TypedEntry
      <3> QED BY <2>2, <3>2 DEF RegInv, OfNode, TimeExact
    <2>3. CASE entry' = entry /\ quiet' = quiet
      BY <2>3 DEF RegInv, TypeOK, OfNode, TimeExact, TypedEntry
    <2> QED BY <1>3, <2>1, <2>2, <2>3
  <1> QED
    BY <1>2, <1>4 DEF RegInv, TypeOK, OfNode, Current, node, TypedEntry

\* Every step keeps the invariant.
LEMMA RegStep ==
    ASSUME RegInv, [Next]_vars
    PROVE  RegInv'
  <1> USE RegisterAssumption
  <1>0. CASE UNCHANGED vars
    BY <1>0 DEF vars, node, RegInv, TypeOK, OfNode, TimeExact, Current
  <1>1. CASE \/ timer_refresh
             \/ \E holder \in BOOLEAN : register_callback(holder)
             \/ Move
             \/ Restart
    BY <1>1, NodeStep
  <1>2. CASE \E m \in net : recv_register(m)
    BY <1>2, HolderStep
  <1>3. CASE refresh
    BY <1>3 DEF refresh, node, RegInv, TypeOK, OfNode, TimeExact, Current
  <1>4. CASE Tick
    <2>1. entry \in TypedEntry /\ entry # NoEntry
      BY <1>4 DEF Tick, RegInv, TypeOK, TypedEntry
    <2>2. entry' = [entry EXCEPT !.t = entry.t + 1] /\ entry.t + 1 \in 0..(Ttl + 1)
      BY <1>4, <2>1 DEF Tick, TypedEntry
    <2>3. /\ entry' \in TypedEntry /\ entry'.t = entry.t + 1
          /\ entry'.session = entry.session /\ entry'.addr = entry.addr
      BY <2>1, <2>2 DEF TypedEntry
    <2>4. quiet' = entry'.t /\ quiet' \in 0..(Ttl + 1)
      <3>1. entry.t \in Nat /\ entry.t <= Ttl /\ quiet = entry.t
        BY <1>4, <2>1 DEF Tick, RegInv, TimeExact, TypedEntry
      <3>2. quiet' = quiet + 1
        BY <1>4, <3>1 DEF Tick
      <3> QED BY <2>2, <2>3, <3>1, <3>2
    <2> QED
      BY <1>4, <2>1, <2>3, <2>4
         DEF Tick, node, RegInv, TypeOK, OfNode, TimeExact, Current, TypedEntry
  <1>5. CASE Lose
    BY <1>5 DEF Lose, node, RegInv, TypeOK, OfNode, TimeExact, Current
  <1> QED
    BY <1>0, <1>1, <1>2, <1>3, <1>4, <1>5 DEF Next

\* The initial states satisfy the invariant.
LEMMA RegInit == Init => RegInv
  <1> SUFFICES ASSUME Init PROVE RegInv
    OBVIOUS
  <1>1. /\ session \in Session /\ addr \in Addrs /\ moves \in 0..MaxMove
        /\ quiet \in 0..(Ttl + 1)
    BY RegisterAssumption DEF Init, Session
  <1>2. [session |-> session, addr |-> addr] \in Registration
    BY <1>1 DEF Registration
  <1> QED
    BY <1>1, <1>2 DEF Init, RegInv, TypeOK, OfNode, TimeExact, Current

\* The invariant, and with it the type invariant, of the registrations.
THEOREM RegInvariance == Spec => []RegInv
  <1>1. RegInv /\ [Next]_vars => RegInv'
    BY RegStep
  <1> QED
    BY <1>1, RegInit, PTL DEF Spec

\* An entry whose owner was heard within Ttl stays with its session: recv_register()
\* replaces it by one of that session only, and refresh() finds it too young.
LEMMA RegKept ==
    ASSUME RegInv, [Next]_vars, entry # NoEntry, quiet <= Ttl
    PROVE  Kept
  <1>1. entry \in TypedEntry /\ entry.t = quiet
    BY DEF RegInv, TypeOK, TimeExact, TypedEntry
  <1>2. CASE \/ timer_refresh
             \/ \E holder \in BOOLEAN : register_callback(holder)
             \/ Move \/ Restart \/ Lose
             \/ UNCHANGED vars
    <2>1. entry' = entry
      BY <1>2 DEF timer_refresh, register_callback, Move, Restart, Lose, vars
    <2> QED BY <2>1 DEF Kept
  <1>3. CASE \E m \in net : recv_register(m)
    <2>1. PICK m \in net : recv_register(m)
      BY <1>3
    <2>2. m \in Registration
      BY DEF RegInv, TypeOK
    <2>3. \/ entry' = Entry(m, 0) /\ entry.session = m.session
          \/ entry' = [entry EXCEPT !.t = 0]
          \/ entry' = entry
      BY <2>1 DEF recv_register
    <2>4. CASE entry' = Entry(m, 0) /\ entry.session = m.session
      BY <2>2, <2>4, EntryFields DEF Kept, TypedEntry, NoEntry
    <2>5. CASE entry' = [entry EXCEPT !.t = 0]
      BY <1>1, <2>5 DEF Kept, TypedEntry, NoEntry
    <2>6. CASE entry' = entry
      BY <2>6 DEF Kept
    <2> QED BY <2>3, <2>4, <2>5, <2>6
  <1>4. CASE refresh
    BY <1>1, <1>4, RegisterAssumption DEF refresh, TypedEntry
  <1>5. CASE Tick
    <2>1. entry' = [entry EXCEPT !.t = entry.t + 1]
      BY <1>5 DEF Tick
    <2> QED BY <1>1, <2>1 DEF Kept, TypedEntry, NoEntry
  <1> QED BY <1>2, <1>3, <1>4, <1>5 DEF Next

\* Whatever registrations are late, lost or repeated, and however often the node
\* restarts or moves: while registrations of its owner come in time, recv_register() and
\* refresh() leave the entry with its session, at an address that the node had in it.
THEOREM EntryKeepsOwner == Spec => SameOwner
  <1>1. RegInv /\ RegInv' /\ [Next]_vars
        => [OfNode' /\ (entry # NoEntry /\ quiet <= Ttl => Kept)]_vars
    BY RegKept DEF RegInv
  <1> QED
    BY <1>1, RegInvariance, PTL DEF Spec, SameOwner
-----------------------------------------------------------------------------
(* The clients of a proxy. *)

ClientRecord == [looking: 0..MaxLooking, timer: BOOLEAN, is_registered: BOOLEAN, alone: BOOLEAN]
ClientMessage == [type: {"register", "reply"}, session: Session, addr: Addrs, nonce: BOOLEAN]

\* A message between the client and its proxy is of a session of the client and an
\* address that it had then; the nonce of the present is of the present session, and
\* a reply is to a registration that was taken.
MessageInv ==
    /\ cnet \subseteq ClientMessage
    /\ \A m \in cnet :
         /\ \E r \in had : m.session = r.session /\ m.addr = r.addr
         /\ m.nonce => m.session = session
         /\ m.type = "reply" => m.session \in took

\* The inductive invariant.
ProxyInv == RegInv /\ MessageInv /\ client \in ClientRecord /\ ClientInv

\* An entry of a client has the session and the address of its message.
LEMMA ClientEntry ==
    ASSUME NEW m \in ClientMessage
    PROVE  /\ Entry(m, 0) \in TypedEntry
           /\ Entry(m, 0).session = m.session
           /\ Entry(m, 0).addr = m.addr
           /\ Entry(m, 0).t = 0
  BY RegisterAssumption DEF Entry, ClientMessage, TypedEntry

\* Messages whose nonce is outdated.
LEMMA OutdatedFacts ==
    ASSUME NEW msgs \in SUBSET ClientMessage, NEW o \in Outdated(msgs)
    PROVE  /\ o \in ClientMessage /\ ~ o.nonce
           /\ \E m \in msgs : o.type = m.type /\ o.session = m.session /\ o.addr = m.addr
  <1>1. PICK m \in msgs : o = [m EXCEPT !.nonce = FALSE]
    BY DEF Outdated
  <1>2. m \in ClientMessage
    OBVIOUS
  <1>3. o \in ClientMessage /\ o.nonce = FALSE
        /\ o.type = m.type /\ o.session = m.session /\ o.addr = m.addr
    BY <1>1, <1>2 DEF ClientMessage
  <1> QED BY <1>3

\* The initial states satisfy the invariant.
LEMMA ProxyInitInv == ProxyInit => ProxyInv
  <1> SUFFICES ASSUME ProxyInit PROVE ProxyInv
    OBVIOUS
  <1>1. RegInv /\ m_registering = FALSE
    BY RegInit DEF ProxyInit, Init
  <1>2. MessageInv
    BY DEF ProxyInit, MessageInv
  <1>3. client \in ClientRecord /\ client.is_registered = FALSE
    BY ProxyAssumption DEF ProxyInit, NewClient, ClientRecord
  <1> QED BY <1>1, <1>2, <1>3 DEF ProxyInv, ClientInv, RegisterAwaited, ServerKnown

\* RegInv does not depend on m_registering.
LEMMA RegisteringSafe ==
    ASSUME RegInv, m_registering' \in BOOLEAN,
           UNCHANGED <<addr, session, finding, moves, had, entry, quiet, net>>
    PROVE  RegInv'
  BY DEF RegInv, TypeOK, OfNode, TimeExact, Current

\* The steps of a client that asks for its registration.
LEMMA AskSafe ==
    ASSUME ProxyInv, timer_proxy \/ register_func_alone \/ timer_register
    PROVE  ProxyInv'
  <1> USE ProxyAssumption
  <1>0. RegInv /\ MessageInv /\ client \in ClientRecord /\ ClientInv /\ m_registering \in BOOLEAN
    BY DEF ProxyInv, RegInv, TypeOK
  <1>1. UNCHANGED <<addr, session, finding, moves, had, entry, quiet, net, kind, cnet, took>>
    BY DEF timer_proxy, register_func_alone, timer_register, vars, node
  <1>2. MessageInv'
    BY <1>0, <1>1 DEF MessageInv
  <1>3. /\ m_registering' \in BOOLEAN
        /\ client' \in ClientRecord
        /\ client'.is_registered = client.is_registered
        /\ RegisterAwaited'
    <2>1. CASE timer_proxy
      <3>1. CASE UNCHANGED <<m_registering, client>>
        BY <1>0, <1>1, <3>1 DEF ClientInv, RegisterAwaited
      <3>2. CASE /\ client.looking < MaxLooking
                 /\ m_registering' = TRUE
                 /\ client' = [client EXCEPT !.looking = @ + 1]
        BY <1>0, <1>1, <3>2 DEF RegisterAwaited, ClientRecord
      <3> QED BY <2>1, <3>1, <3>2 DEF timer_proxy
    <2>2. CASE register_func_alone
      <3>1. /\ client.looking > 0 /\ m_registering' = m_registering
            /\ client' = [client EXCEPT !.looking = @ - 1,
                            !.alone = m_registering /\ client.looking = 1 /\ ~ client.timer]
        BY <2>2 DEF register_func_alone, vars, node
      <3>2. /\ client'.looking = client.looking - 1 /\ client'.timer = client.timer
            /\ client'.is_registered = client.is_registered
            /\ client'.alone = (m_registering /\ client.looking = 1 /\ ~ client.timer)
        BY <1>0, <3>1 DEF ClientRecord
      <3>3. client.looking \in 0..MaxLooking /\ client.looking - 1 \in 0..MaxLooking
        BY <1>0, <3>1 DEF ClientRecord
      <3>4. (m_registering /\ client.looking = 1 /\ ~ client.timer) \in BOOLEAN
        OBVIOUS
      <3>5. client' \in ClientRecord
        BY <1>0, <3>1, <3>3, <3>4 DEF ClientRecord
      <3>6. m_registering' => client'.looking > 0 \/ client'.timer \/ client'.alone
        <4>1. CASE client.looking = 1
          BY <3>1, <3>2, <4>1
        <4>2. CASE client.looking # 1
          BY <3>1, <3>2, <3>3, <4>2
        <4> QED BY <4>1, <4>2
      <3> QED BY <1>0, <3>1, <3>2, <3>5, <3>6 DEF RegisterAwaited
    <2>3. CASE timer_register
      BY <1>0, <1>1, <2>3 DEF timer_register, RegisterAwaited, ClientRecord
    <2> QED BY <2>1, <2>2, <2>3
  <1>4. RegInv'
    BY <1>0, <1>1, <1>3, RegisteringSafe
  <1>5. ServerKnown'
    BY <1>0, <1>1, <1>3 DEF ClientInv, ServerKnown
  <1> QED BY <1>2, <1>3, <1>4, <1>5 DEF ProxyInv, ClientInv

\* register_func sends a registration of the present, and the others are outdated.
LEMMA RegisterFuncSafe ==
    ASSUME ProxyInv, register_func
    PROVE  ProxyInv'
  <1> USE ProxyAssumption
  <1>0. RegInv /\ MessageInv /\ client \in ClientRecord /\ ClientInv
    BY DEF ProxyInv
  <1>1. PICK old \in SUBSET cnet : cnet' = Outdated(old) \cup {Message("register")}
    BY DEF register_func
  <1>2. /\ client.looking > 0
        /\ client' = [client EXCEPT !.looking = @ - 1, !.timer = TRUE]
        /\ UNCHANGED <<vars, kind, took>>
    BY DEF register_func, Asking
  <1>3. /\ client' \in ClientRecord /\ client'.timer
        /\ client'.is_registered = client.is_registered
    <2>1. client.looking - 1 \in 0..MaxLooking
      BY <1>0, <1>2 DEF ClientRecord
    <2>2. /\ client' \in ClientRecord /\ client'.timer = TRUE
          /\ client'.is_registered = client.is_registered
      BY <1>0, <1>2, <2>1 DEF ClientRecord
    <2> QED BY <2>2
  <1>4. RegInv'
    BY <1>0, <1>2 DEF vars, node, RegInv, TypeOK, OfNode, TimeExact, Current
  <1>5. MessageInv'
    <2>1. /\ Message("register") \in ClientMessage
          /\ Message("register").session = session /\ Message("register").addr = addr
          /\ Message("register").type = "register"
      BY <1>0 DEF Message, ClientMessage, RegInv, TypeOK
    <2>2. \E r \in had : session = r.session /\ addr = r.addr
      BY <1>0 DEF RegInv, Current
    <2>3. ASSUME NEW o \in Outdated(old)
          PROVE  /\ o \in ClientMessage /\ ~ o.nonce
                 /\ \E r \in had : o.session = r.session /\ o.addr = r.addr
                 /\ o.type = "reply" => o.session \in took
      <3>1. old \in SUBSET ClientMessage
        BY <1>0, <1>1 DEF MessageInv
      <3>2. o \in ClientMessage /\ ~ o.nonce
            /\ \E m \in old : o.type = m.type /\ o.session = m.session /\ o.addr = m.addr
        BY <3>1, OutdatedFacts
      <3> QED BY <1>0, <1>1, <3>2 DEF MessageInv
    <2> QED BY <1>1, <1>2, <2>1, <2>2, <2>3 DEF MessageInv, vars, node
  <1>6. ClientInv'
    BY <1>0, <1>2, <1>3 DEF ClientInv, RegisterAwaited, ServerKnown, vars, node
  <1> QED BY <1>3, <1>4, <1>5, <1>6 DEF ProxyInv

\* A reply ends the registration only if it answers the present one.
LEMMA ReplySafe ==
    ASSUME ProxyInv, NEW m \in cnet, recv_register_reply(m)
    PROVE  ProxyInv'
  <1>0. RegInv /\ MessageInv /\ client \in ClientRecord /\ ClientInv /\ m_registering \in BOOLEAN
    BY DEF ProxyInv, RegInv, TypeOK
  <1>1. /\ m.type = "reply" /\ cnet' = cnet \ {m}
        /\ UNCHANGED <<addr, session, finding, moves, had, entry, quiet, net>>
        /\ UNCHANGED <<kind, took>>
    BY DEF recv_register_reply
  <1>2. MessageInv'
    BY <1>0, <1>1 DEF MessageInv
  <1>3. CASE Awaited(m)
    <2>1. /\ client' = [client EXCEPT !.is_registered = TRUE, !.timer = FALSE, !.alone = FALSE]
          /\ m_registering' = FALSE
      BY <1>3 DEF recv_register_reply
    <2>2. client' \in ClientRecord
      BY <1>0, <2>1 DEF ClientRecord
    <2>3. session \in took
      BY <1>0, <1>1, <1>3 DEF Awaited, MessageInv
    <2>4. RegInv'
      BY <1>0, <1>1, <2>1, RegisteringSafe
    <2>5. ClientInv'
      BY <1>1, <2>1, <2>3 DEF ClientInv, RegisterAwaited, ServerKnown
    <2> QED BY <1>2, <2>2, <2>4, <2>5 DEF ProxyInv
  <1>4. CASE ~ Awaited(m)
    <2>1. UNCHANGED <<client, m_registering>>
      BY <1>4 DEF recv_register_reply
    <2>2. RegInv'
      BY <1>0, <1>1, <2>1, RegisteringSafe
    <2>3. ClientInv'
      BY <1>0, <1>1, <2>1 DEF ClientInv, RegisterAwaited, ServerKnown
    <2> QED BY <1>0, <1>2, <2>1, <2>2, <2>3 DEF ProxyInv
  <1> QED BY <1>3, <1>4

\* recv_register() of the proxy: the entry is of the message, or stays.
LEMMA ProxyRegisterSafe ==
    ASSUME ProxyInv, NEW m \in cnet, recv_proxy_register(m)
    PROVE  ProxyInv'
  <1>0. RegInv /\ MessageInv /\ client \in ClientRecord /\ ClientInv
    BY DEF ProxyInv
  <1>1. /\ m.type = "register"
        /\ \/ entry' = Entry(m, 0) /\ quiet' = 0
           \/ entry' = entry /\ quiet' = quiet
        /\ UNCHANGED <<node, net, kind, client>>
    BY DEF recv_proxy_register, Entered
  <1>2. /\ took \subseteq took'
        /\ \/ cnet' = cnet \ {m}
           \/ cnet' = (cnet \ {m}) \cup {[m EXCEPT !.type = "reply"]} /\ m.session \in took'
    BY DEF recv_proxy_register
  <1>3. m \in ClientMessage /\ \E r \in had : m.session = r.session /\ m.addr = r.addr
    BY <1>0 DEF MessageInv
  <1>4. RegInv'
    <2>1. /\ entry' \in TypedEntry \cup {NoEntry} /\ quiet' \in 0..(Ttl + 1)
          /\ TimeExact'
          /\ entry' # NoEntry =>
               \E r \in had : entry'.session = r.session /\ entry'.addr = r.addr
      BY <1>0, <1>1, <1>3, ClientEntry, RegisterAssumption
         DEF RegInv, TypeOK, OfNode, TimeExact, TypedEntry
    <2> QED
      BY <1>0, <1>1, <2>1 DEF RegInv, TypeOK, OfNode, TimeExact, Current, node, TypedEntry
  <1>5. MessageInv'
    <2> DEFINE o == [m EXCEPT !.type = "reply"]
    <2>1. /\ o \in ClientMessage
          /\ o.session = m.session /\ o.addr = m.addr /\ o.nonce = m.nonce
      BY <1>3 DEF ClientMessage
    <2> HIDE DEF o
    <2>2. cnet' \subseteq cnet \cup {o} /\ (o \in cnet' => o \in cnet \/ m.session \in took')
      BY <1>2 DEF o
    <2>3. ASSUME NEW x \in cnet'
          PROVE  /\ x \in ClientMessage
                 /\ \E r \in had : x.session = r.session /\ x.addr = r.addr
                 /\ x.nonce => x.session = session
                 /\ x.type = "reply" => x.session \in took'
      BY <1>0, <1>2, <1>3, <2>1, <2>2 DEF MessageInv
    <2> QED BY <1>1, <2>3 DEF MessageInv, node
  <1>6. ClientInv'
    BY <1>0, <1>1, <1>2 DEF ClientInv, RegisterAwaited, ServerKnown, node
  <1> QED BY <1>0, <1>1, <1>4, <1>5, <1>6 DEF ProxyInv

\* The steps of the holder and of the tunnel network.
LEMMA TunnelSafe ==
    ASSUME ProxyInv, Tunnel
    PROVE  ProxyInv'
  <1>0. RegInv /\ MessageInv /\ client \in ClientRecord /\ ClientInv
    BY DEF ProxyInv
  <1>1. Next
    BY DEF Tunnel, Registering, Next
  <1>2. RegInv'
    BY <1>0, <1>1, RegStep
  <1>3. UNCHANGED <<kind, client, cnet, took>> /\ had \subseteq had' /\ session' = session
    BY DEF Tunnel, Registering, pvars, timer_refresh, register_callback, recv_register, Lose,
           Move, refresh, Tick, node
  <1>4. kind = "client" => m_registering' = m_registering
    BY DEF Tunnel, Move, refresh, Tick, node
  <1>5. MessageInv'
    BY <1>0, <1>3 DEF MessageInv
  <1>6. ClientInv'
    BY <1>0, <1>3, <1>4 DEF ClientInv, RegisterAwaited, ServerKnown
  <1> QED BY <1>0, <1>2, <1>3, <1>5, <1>6 DEF ProxyInv

\* The client, or its proxy, starts again.
LEMMA AgainSafe ==
    ASSUME ProxyInv, StartAgain \/ Loss
    PROVE  ProxyInv'
  <1>0. RegInv /\ MessageInv /\ client \in ClientRecord /\ ClientInv
    BY DEF ProxyInv
  <1>1. CASE StartAgain
    <2>1. /\ Restart /\ client' = NewClient /\ cnet' = Outdated(cnet) /\ took' = took
          /\ m_registering' = FALSE /\ had \subseteq had'
      BY <1>1 DEF StartAgain, Restart
    <2>2. RegInv'
      BY <1>0, <2>1, NodeStep
    <2>3. client' \in ClientRecord /\ client'.is_registered = FALSE
      BY <2>1, ProxyAssumption DEF NewClient, ClientRecord
    <2>4. MessageInv'
      <3>1. ASSUME NEW o \in cnet'
            PROVE  /\ o \in ClientMessage /\ ~ o.nonce
                   /\ \E m \in cnet : o.type = m.type /\ o.session = m.session /\ o.addr = m.addr
        BY <1>0, <2>1, OutdatedFacts DEF MessageInv
      <3> QED BY <1>0, <2>1, <3>1 DEF MessageInv
    <2>5. ClientInv'
      BY <2>1, <2>3 DEF ClientInv, RegisterAwaited, ServerKnown
    <2> QED BY <2>2, <2>3, <2>4, <2>5 DEF ProxyInv
  <1>2. CASE Loss
    <2>1. entry' = NoEntry /\ quiet' = 0 /\ UNCHANGED <<node, net, kind, client, cnet, took>>
      BY <1>2 DEF Loss
    <2>2. RegInv'
      BY <1>0, <2>1, RegisterAssumption DEF RegInv, TypeOK, OfNode, TimeExact, Current, node
    <2>3. MessageInv' /\ ClientInv'
      BY <1>0, <2>1 DEF MessageInv, ClientInv, RegisterAwaited, ServerKnown, node
    <2> QED BY <1>0, <2>1, <2>2, <2>3 DEF ProxyInv
  <1> QED BY <1>1, <1>2

\* The rest: the registrations that a proxy makes for its clients, and lost messages.
LEMMA OtherSafe ==
    ASSUME ProxyInv, recv_client \/ client_callback \/ LoseMessage \/ UNCHANGED allvars
    PROVE  ProxyInv'
  <1>0. RegInv /\ MessageInv /\ client \in ClientRecord /\ ClientInv /\ m_registering \in BOOLEAN
    BY DEF ProxyInv, RegInv, TypeOK
  <1>1. /\ UNCHANGED <<addr, session, finding, moves, had, entry, quiet, net, kind, client, took>>
        /\ cnet' \subseteq cnet
        /\ m_registering' \in BOOLEAN
        /\ kind = "client" /\ m_registering' => m_registering
    <2>1. CASE recv_client
      BY <2>1 DEF recv_client
    <2>2. CASE client_callback
      BY <2>2 DEF client_callback
    <2>3. CASE LoseMessage \/ UNCHANGED allvars
      <3>1. UNCHANGED <<vars, kind, client, took>> /\ cnet' \subseteq cnet
        BY <2>3 DEF LoseMessage, allvars, pvars
      <3>2. m_registering' = m_registering
        BY <3>1 DEF vars, node
      <3> QED BY <1>0, <3>1, <3>2 DEF vars, node
    <2> QED BY <2>1, <2>2, <2>3
  <1>2. RegInv'
    BY <1>0, <1>1, RegisteringSafe
  <1>3. MessageInv'
    BY <1>0, <1>1 DEF MessageInv
  <1>4. ClientInv'
    BY <1>0, <1>1 DEF ClientInv, RegisterAwaited, ServerKnown
  <1> QED BY <1>0, <1>1, <1>2, <1>3, <1>4 DEF ProxyInv

\* Every step keeps the invariant.
LEMMA ProxyStep == ProxyInv /\ [ProxyNext]_allvars => ProxyInv'
  <1> SUFFICES ASSUME ProxyInv, [ProxyNext]_allvars PROVE ProxyInv'
    OBVIOUS
  <1>1. CASE timer_proxy \/ register_func_alone \/ timer_register
    BY <1>1, AskSafe
  <1>2. CASE \E m \in cnet : recv_register_reply(m) \/ recv_proxy_register(m)
    BY <1>2, ReplySafe, ProxyRegisterSafe
  <1>3. CASE register_func \/ Tunnel \/ StartAgain \/ Loss
    BY <1>3, RegisterFuncSafe, TunnelSafe, AgainSafe
  <1>4. CASE recv_client \/ client_callback \/ LoseMessage \/ UNCHANGED allvars
    BY <1>4, OtherSafe
  <1> QED BY <1>1, <1>2, <1>3, <1>4 DEF ProxyNext

\* A client that does not register waits for something that ends that, and one that
\* takes itself for registered was taken in its present session, whatever replies to
\* its former selves are late.
THEOREM ClientInvariance == ProxySpec => []ClientInv
  <1>1. ProxyInv => ClientInv
    BY DEF ProxyInv
  <1> QED BY <1>1, ProxyInitInv, ProxyStep, PTL DEF ProxySpec

\* The steps of a client, its proxy and the tunnel network keep an entry as RegKept says,
\* unless the holder starts again.
LEMMA ProxyKept ==
    ASSUME ProxyInv, [ProxyNext]_allvars, entry # NoEntry, quiet <= Ttl, ~ Loss
    PROVE  Kept
  <1>0. RegInv
    BY DEF ProxyInv
  <1>1. CASE \/ timer_proxy \/ register_func \/ register_func_alone \/ timer_register
             \/ \E m \in cnet : recv_register_reply(m)
             \/ recv_client \/ client_callback \/ StartAgain \/ LoseMessage
             \/ UNCHANGED allvars
    <2>1. entry' = entry
      BY <1>1 DEF timer_proxy, register_func, register_func_alone, timer_register,
                  recv_register_reply, recv_client, client_callback, StartAgain, Restart,
                  LoseMessage, allvars, vars
    <2> QED BY <2>1 DEF Kept
  <1>2. CASE \E m \in cnet : recv_proxy_register(m)
    <2>1. PICK m \in cnet : recv_proxy_register(m)
      BY <1>2
    <2>2. entry' = entry \/ (entry' = Entry(m, 0) /\ entry.session = m.session)
      BY <2>1 DEF recv_proxy_register, Entered
    <2>3. m \in ClientMessage
      BY DEF ProxyInv, MessageInv
    <2> QED BY <2>2, <2>3, ClientEntry DEF Kept, TypedEntry, NoEntry
  <1>3. CASE Tunnel
    BY <1>0, <1>3, RegKept DEF Tunnel, Registering, Next
  <1> QED BY <1>1, <1>2, <1>3 DEF ProxyNext

\* EntryKeepsOwner of the composition: a proxy, and a holder in the tunnel network, leaves
\* an entry to its owner while it hears of it in time and does not itself start again.
THEOREM ProxyKeepsOwner == ProxySpec => OwnerKept
  <1>1. ProxyInv /\ ProxyInv' /\ [ProxyNext]_allvars
        => [OfNode' /\ (entry # NoEntry /\ quiet <= Ttl => Kept \/ Loss)]_allvars
    BY ProxyKept DEF ProxyInv, RegInv
  <1> QED BY <1>1, ProxyInitInv, ProxyStep, PTL DEF ProxySpec, OwnerKept
=============================================================================
