----------------------------- MODULE PeersProofs -----------------------------
(***************************************************************************)
(* Proofs about Peers and Advertise, for any nodes, addresses, sessions    *)
(* and times to live: the type invariant, and that the ages of the entries *)
(* are honest, whoever reports the nodes and however they start again.     *)
(***************************************************************************)
EXTENDS Advertise, TLAPS

\* What an entry that a report makes looks like.
LEMMA EntryTyped ==
    ASSUME NEW a \in Addrs, NEW s \in Sessions
    PROVE  /\ [addr |-> a, t |-> 0, session |-> s] \in Entry
           /\ [addr |-> a, t |-> 0, session |-> s] # NoEntry
           /\ NoEntry \notin Entry
  <1>1. 0 \in 0..(MapTtl + Interval)
    BY PeersAssumption
  <1>2. a # NoAddr
    BY PeersAssumption
  <1>3. NoEntry.addr = NoAddr
    BY DEF NoEntry
  <1>4. \A e \in Entry : e.addr \in Addrs
    BY DEF Entry
  <1> QED
    BY <1>1, <1>2, <1>3, <1>4, PeersAssumption DEF Entry

\* Ages go up to their limits.
LEMMA OlderTyped ==
    ASSUME NEW max \in Nat, NEW t \in 0..max
    PROVE  Older(t, max) \in 0..max
  BY DEF Older

\* An entry is at most as old as map_ttl and the time since refresh() ran, and
\* was reported no longer ago than its age says.
Honest(d) ==
    m_map[d] # NoEntry => /\ heard[d][m_map[d].addr] <= m_map[d].t
                          /\ m_map[d].t <= MapTtl + wait

PeersInv == TypeOK /\ \A d \in Nodes : Honest(d)

\* The initial state satisfies the invariant.
LEMMA PeersInit == Init => PeersInv
  BY PeersAssumption DEF Init, PeersInv, TypeOK, Honest, NoTimeout, Never

\* A report of a node keeps the invariant.
LEMMA AddNodeStep ==
    ASSUME PeersInv, NEW d \in Nodes, NEW a \in Addrs, NEW s \in Sessions, add_node(d, a, s)
    PROVE  PeersInv'
  <1> USE PeersAssumption
  <1>1. /\ heard' = [heard EXCEPT ![d] = [heard[d] EXCEPT ![a] = 0]]
        /\ wait' = wait
    BY DEF add_node
  <1>2. /\ heard' \in [Nodes -> [Addrs -> 0..Never]]
        /\ wait' \in 0..Interval
    BY <1>1 DEF PeersInv, TypeOK, NoTimeout, Never
  <1>3. m_timeout' \in [Nodes -> 0..NoTimeout]
    BY DEF add_node, PeersInv, TypeOK, NoTimeout
  <1>4. \A x \in Nodes, b \in Addrs : heard'[x][b] <= heard[x][b]
    BY <1>1 DEF PeersInv, TypeOK, Never
  <1>5. heard'[d][a] = 0
    BY <1>1 DEF PeersInv, TypeOK
  <1>6. CASE m_map' = m_map
    <2>1. \A x \in Nodes : m_map[x] # NoEntry => m_map[x].addr \in Addrs /\ m_map[x].t \in Nat
      BY DEF PeersInv, TypeOK, Entry
    <2>2. \A x \in Nodes : Honest(x)'
      BY <1>1, <1>2, <1>4, <1>6, <2>1 DEF PeersInv, TypeOK, Honest, Never
    <2> QED BY <1>2, <1>3, <1>6, <2>2 DEF PeersInv, TypeOK
  <1>7. CASE \E e \in Entry : /\ m_map' = [m_map EXCEPT ![d] = e]
                              /\ e.addr = a /\ e.t = 0
    <2>0. PICK e \in Entry : m_map' = [m_map EXCEPT ![d] = e] /\ e.addr = a /\ e.t = 0
      BY <1>7
    <2>1. m_map' \in [Nodes -> Entry \cup {NoEntry}]
      BY <2>0 DEF PeersInv, TypeOK
    <2>2. \A x \in Nodes : m_map[x] # NoEntry => m_map[x].addr \in Addrs /\ m_map[x].t \in Nat
      BY DEF PeersInv, TypeOK, Entry
    <2>3. m_map'[d] = e /\ \A x \in Nodes \ {d} : m_map'[x] = m_map[x]
      BY <2>0 DEF PeersInv, TypeOK
    <2>4. Honest(d)'
      BY <1>1, <1>2, <1>5, <2>0, <2>3 DEF Honest
    <2>5. \A x \in Nodes \ {d} : Honest(x)'
      BY <1>1, <1>2, <1>4, <2>2, <2>3 DEF PeersInv, TypeOK, Honest, Never
    <2> QED BY <1>2, <1>3, <2>1, <2>4, <2>5 DEF PeersInv, TypeOK
  <1>8. m_map' = m_map \/ \E e \in Entry : /\ m_map' = [m_map EXCEPT ![d] = e]
                                           /\ e.addr = a /\ e.t = 0
    <2>1. m_map \in [Nodes -> Entry \cup {NoEntry}]
      BY DEF PeersInv, TypeOK
    <2>2. CASE m_map[d] = NoEntry
      <3>1. [addr |-> a, t |-> 0, session |-> s] \in Entry
        BY EntryTyped
      <3>2. \/ m_map' = m_map
            \/ m_map' = [m_map EXCEPT ![d] = [addr |-> a, t |-> 0, session |-> s]]
        BY <2>2 DEF add_node, Insert
      <3> QED BY <3>1, <3>2
    <2>3. CASE m_map[d] # NoEntry
      <3>1. \/ m_map' = m_map
            \/ m_map' = [m_map EXCEPT ![d] = m_map[d]]
            \/ /\ m_map' = [m_map EXCEPT ![d] = [m_map[d] EXCEPT !.t = 0]]
               /\ m_map[d].addr = a
        BY <2>3 DEF add_node, Insert, SameAddr
      <3>2. [m_map EXCEPT ![d] = m_map[d]] = m_map
        BY <2>1
      <3>3. /\ [m_map[d] EXCEPT !.t = 0] \in Entry
            /\ [m_map[d] EXCEPT !.t = 0].t = 0
            /\ [m_map[d] EXCEPT !.t = 0].addr = m_map[d].addr
        BY <2>1, <2>3 DEF Entry
      <3> QED BY <3>1, <3>2, <3>3
    <2> QED BY <2>2, <2>3
  <1> QED BY <1>6, <1>7, <1>8

\* The other steps keep it.
LEMMA CacheStep ==
    ASSUME PeersInv, [Next]_vars
    PROVE  PeersInv'
  <1> USE PeersAssumption
  <1>0. \A x \in Nodes : m_map[x] # NoEntry =>
           /\ m_map[x] \in Entry /\ m_map[x].addr \in Addrs /\ m_map[x].t \in Nat
    BY DEF PeersInv, TypeOK, Entry
  <1>1. CASE UNCHANGED vars
    BY <1>1 DEF PeersInv, TypeOK, Honest, vars
  <1>2. ASSUME NEW d \in Nodes, NEW a \in Addrs, NEW s \in Sessions, add_node(d, a, s)
        PROVE  PeersInv'
    BY <1>2, AddNodeStep
  <1>3. ASSUME NEW d \in Nodes, add_timeout(d)
        PROVE  PeersInv'
    <2>1. /\ UNCHANGED <<m_timeout, wait, heard>>
        BY <1>3 DEF add_timeout, PeersInv, TypeOK, NoTimeout
    <2>2. m_map' = m_map \/ m_map' = [m_map EXCEPT ![d] = NoEntry]
      BY <1>3 DEF add_timeout
    <2>3. m_map' \in [Nodes -> Entry \cup {NoEntry}]
      BY <2>2 DEF PeersInv, TypeOK
    <2>4. \A x \in Nodes : m_map'[x] # NoEntry => m_map'[x] = m_map[x]
      BY <2>2 DEF PeersInv, TypeOK
    <2> QED BY <2>1, <2>3, <2>4 DEF PeersInv, TypeOK, Honest
  <1>4. CASE refresh
    <2>1. /\ UNCHANGED heard
          /\ wait' = 0
          /\ m_timeout' \in [Nodes -> 0..NoTimeout]
      BY <1>4 DEF refresh, PeersInv, TypeOK, NoTimeout
    <2>2. \A x \in Nodes : /\ m_map'[x] \in {m_map[x], NoEntry}
                           /\ m_map'[x] # NoEntry => ~ (m_map[x].t > MapTtl)
      BY <1>4 DEF refresh
    <2>3. m_map' \in [Nodes -> Entry \cup {NoEntry}]
      BY <1>4 DEF refresh, PeersInv, TypeOK
    <2>4. \A x \in Nodes : Honest(x)'
      BY <1>0, <2>1, <2>2 DEF PeersInv, TypeOK, Honest
    <2> QED BY <2>1, <2>3, <2>4 DEF PeersInv, TypeOK
  <1>5. CASE Tick
    <2>1. wait' = wait + 1 /\ wait' \in 0..Interval
      BY <1>5 DEF Tick, PeersInv, TypeOK
    <2>2. /\ m_timeout' \in [Nodes -> 0..NoTimeout]
            /\ heard' \in [Nodes -> [Addrs -> 0..Never]]
      <3>0. NoTimeout \in Nat /\ Never \in Nat
        BY DEF NoTimeout, Never
      <3>1. /\ m_timeout' = [d \in Nodes |-> Older(m_timeout[d], NoTimeout)]
            /\ heard' = [d \in Nodes |-> [a \in Addrs |-> Older(heard[d][a], Never)]]
        BY <1>5 DEF Tick
      <3>2. \A d \in Nodes : /\ m_timeout[d] \in 0..NoTimeout
                            /\ \A a \in Addrs : heard[d][a] \in 0..Never
        BY DEF PeersInv, TypeOK
      <3>3. \A d \in Nodes : /\ Older(m_timeout[d], NoTimeout) \in 0..NoTimeout
                            /\ \A a \in Addrs : Older(heard[d][a], Never) \in 0..Never
        BY <3>0, <3>2, OlderTyped
      <3> QED BY <3>1, <3>3
    <2>3. \A x \in Nodes : /\ m_map[x] = NoEntry => m_map'[x] = NoEntry
                           /\ m_map[x] # NoEntry =>
                                m_map'[x] = [m_map[x] EXCEPT !.t = m_map[x].t + 1]
      BY <1>5 DEF Tick
    <2>4. \A x \in Nodes : m_map[x] # NoEntry =>
             /\ m_map'[x] \in Entry
             /\ m_map'[x].addr = m_map[x].addr
             /\ m_map'[x].t = m_map[x].t + 1
             /\ m_map[x].t <= MapTtl + wait
      <3> SUFFICES ASSUME NEW x \in Nodes, m_map[x] # NoEntry
                   PROVE  /\ m_map'[x] \in Entry
                          /\ m_map'[x].addr = m_map[x].addr
                          /\ m_map'[x].t = m_map[x].t + 1
                          /\ m_map[x].t <= MapTtl + wait
        OBVIOUS
      <3>1. m_map[x].t <= MapTtl + wait
        BY DEF PeersInv, Honest
      <3>2. m_map[x].t + 1 \in 0..(MapTtl + Interval)
        BY <1>0, <2>1, <3>1 DEF PeersInv, TypeOK
      <3> QED BY <1>0, <2>3, <3>1, <3>2 DEF Entry
    <2>5. m_map' \in [Nodes -> Entry \cup {NoEntry}]
      BY <1>5, <2>3, <2>4 DEF Tick
    <2>6. \A x \in Nodes, b \in Addrs : heard'[x][b] <= heard[x][b] + 1
      BY <1>5 DEF Tick, Older, PeersInv, TypeOK, Never
    <2>7. \A x \in Nodes : Honest(x)'
      <3> SUFFICES ASSUME NEW x \in Nodes, m_map'[x] # NoEntry
                   PROVE  /\ heard'[x][m_map'[x].addr] <= m_map'[x].t
                          /\ m_map'[x].t <= MapTtl + wait'
        BY DEF Honest
      <3>1. m_map[x] # NoEntry
        BY <2>3
      <3>2. heard[x][m_map[x].addr] <= m_map[x].t /\ heard[x][m_map[x].addr] \in Nat
        BY <1>0, <3>1 DEF PeersInv, Honest, TypeOK, Never
      <3>3. heard'[x][m_map[x].addr] \in Nat
        BY <1>0, <2>2, <3>1 DEF Never
      <3> QED BY <1>0, <2>1, <2>4, <2>6, <3>1, <3>2, <3>3 DEF PeersInv, TypeOK
    <2> QED BY <2>1, <2>2, <2>5, <2>7 DEF PeersInv, TypeOK
  <1> QED
    BY <1>1, <1>2, <1>3, <1>4, <1>5 DEF Next

\* The invariant of the cache, and with it the type invariant.
THEOREM PeersInvariance == Spec => []PeersInv
  <1>1. PeersInv /\ [Next]_vars => PeersInv'
    BY CacheStep
  <1> QED
    BY <1>1, PeersInit, PTL DEF Spec

\* What the invariant says of the addresses get_addr() gives.
LEMMA HonestAges == PeersInv => AgeIsHonest
  <1> SUFFICES ASSUME PeersInv, NEW d \in Nodes, m_map[d] # NoEntry
               PROVE  /\ heard[d][m_map[d].addr] <= m_map[d].t
                      /\ m_map[d].t <= MapTtl + Interval
    BY DEF AgeIsHonest
  <1>1. m_map[d].t \in 0..(MapTtl + Interval)
    BY DEF PeersInv, TypeOK, Entry
  <1> QED BY <1>1, PeersAssumption DEF PeersInv, Honest

\* The address peers::get_addr() gives was reported no longer ago than its entry
\* is old, and no entry outlives map_ttl by more than a period of the timer.
THEOREM AgesAreHonest == Spec => []AgeIsHonest
  BY HonestAges, PeersInvariance, PTL
-----------------------------------------------------------------------------
(* The two nodes of Advertise. *)

\* What is under way names addresses and sessions a node can have.
MessageInv ==
    /\ addr \in Addrs
    /\ session \in Sessions
    /\ \A m \in net : m.addr \in Addrs /\ m.session \in Sessions

AdvertiseInv == PeersInv /\ MessageInv

LEMMA AdvertiseInitial == AdvertiseInit => AdvertiseInv
  BY PeersInit, AdvertiseAssumption DEF AdvertiseInit, AdvertiseInv, MessageInv

\* A message that arrives leaves nothing under way that was not there or is sent in answer.
LEMMA ArrivesKeeps ==
    ASSUME NEW m \in net, NEW sent, Arrives(m, sent)
    PROVE  net' \subseteq net \cup sent
  BY DEF Arrives

\* A start with an empty cache forgets an entry, and adds none.
LEMMA RestartStep ==
    ASSUME AdvertiseInv, Restart
    PROVE  AdvertiseInv'
  <1>1. UNCHANGED <<m_timeout, wait, heard, addr, net>> /\ session' \in Sessions
    BY DEF Restart
  <1>2. m_map' = [m_map EXCEPT ![There] = NoEntry]
    BY DEF Restart
  <1>3. m_map' \in [Nodes -> Entry \cup {NoEntry}]
    BY <1>2 DEF AdvertiseInv, PeersInv, TypeOK
  <1>4. \A x \in Nodes : m_map'[x] # NoEntry => m_map'[x] = m_map[x]
    BY <1>2 DEF AdvertiseInv, PeersInv, TypeOK
  <1>5. PeersInv'
    BY <1>1, <1>3, <1>4 DEF AdvertiseInv, PeersInv, TypeOK, Honest
  <1> QED
    BY <1>1, <1>5 DEF AdvertiseInv, MessageInv

\* A report by any protocol, from an address and in a session there is.
LEMMA ReportStep ==
    ASSUME PeersInv, NEW d \in Nodes, NEW a \in Addrs, NEW s \in Sessions, add_node(d, a, s)
    PROVE  PeersInv'
  BY AddNodeStep

\* Every step of the two nodes and of the network keeps the invariant.
LEMMA AdvertiseStep ==
    ASSUME AdvertiseInv, [AdvertiseNext]_allvars
    PROVE  AdvertiseInv'
  <1> USE AdvertiseAssumption
  <1>0. Here \in Nodes /\ There \in Nodes /\ Home \in Addrs /\ First \in Sessions /\ 0 \in Sessions
    BY PeersAssumption DEF Addrs
  <1>1. UNCHANGED vars => PeersInv'
    BY CacheStep DEF AdvertiseInv
  <1>2. ASSUME NEW n \in Nonce, advertise_to(n)
        PROVE  AdvertiseInv'
    <2>1. UNCHANGED <<addr, session>> /\ UNCHANGED vars
      BY <1>2 DEF advertise_to
    <2>2. \A m \in net' : m \in net \/ m = Message("advertise", n)
      BY <1>2 DEF advertise_to
    <2> QED BY <1>1, <2>1, <2>2 DEF AdvertiseInv, MessageInv, Message
  <1>3. ASSUME NEW n \in Nonce, timer_advertise(n)
        PROVE  AdvertiseInv'
    BY <1>1, <1>3 DEF timer_advertise, AdvertiseInv, MessageInv
  <1>4. ASSUME NEW m \in net, recv_advertise(m)
        PROVE  AdvertiseInv'
    <2>1. m.addr \in Addrs /\ m.session \in Sessions
      BY DEF AdvertiseInv, MessageInv
    <2>2. add_node(Here, m.addr, m.session) /\ UNCHANGED <<addr, session>>
      BY <1>4 DEF recv_advertise
    <2>3. PeersInv'
      BY <1>0, <2>1, <2>2, ReportStep DEF AdvertiseInv
    <2>4. PICK sent : sent \subseteq {[m EXCEPT !.type = "reply"]} /\ Arrives(m, sent)
      BY <1>4 DEF recv_advertise
    <2>5. net' \subseteq net \cup {[m EXCEPT !.type = "reply"]}
      BY <2>4, ArrivesKeeps
    <2>6. [m EXCEPT !.type = "reply"].addr = m.addr /\ [m EXCEPT !.type = "reply"].session = m.session
      OBVIOUS
    <2> QED BY <2>1, <2>2, <2>3, <2>5, <2>6 DEF AdvertiseInv, MessageInv
  <1>5. ASSUME NEW m \in net, recv_advertise_reply(m)
        PROVE  AdvertiseInv'
    <2>1. UNCHANGED <<addr, session>> /\ Arrives(m, {})
      BY <1>5 DEF recv_advertise_reply
    <2>2. UNCHANGED vars \/ add_node(There, Home, First)
      BY <1>5 DEF recv_advertise_reply
    <2>3. PeersInv'
      BY <1>0, <1>1, <2>2, ReportStep DEF AdvertiseInv
    <2>4. net' \subseteq net
      BY <2>1, ArrivesKeeps
    <2> QED BY <2>1, <2>3, <2>4 DEF AdvertiseInv, MessageInv
  <1>6. CASE refresh_advertised
    BY <1>1, <1>6 DEF refresh_advertised, AdvertiseInv, MessageInv
  <1>7. CASE Hear
    <2>1. PeersInv'
      BY <1>0, <1>7, ReportStep DEF Hear, AdvertiseInv, MessageInv
    <2> QED BY <1>7, <2>1 DEF Hear, avars, AdvertiseInv, MessageInv
  <1>8. CASE PeersStep
    <2>1. Next
      BY <1>0, <1>8 DEF PeersStep, Next
    <2> QED BY <1>8, <2>1, CacheStep DEF PeersStep, avars, AdvertiseInv, MessageInv
  <1>9. CASE Move
    BY <1>1, <1>9 DEF Move, AdvertiseInv, MessageInv
  <1>10. CASE Restart
    BY <1>10, RestartStep
  <1>11. CASE Lose
    BY <1>1, <1>11 DEF Lose, AdvertiseInv, MessageInv
  <1>12. CASE UNCHANGED allvars
    BY <1>1, <1>12 DEF allvars, avars, AdvertiseInv, MessageInv
  <1> QED
    BY <1>2, <1>3, <1>4, <1>5, <1>6, <1>7, <1>8, <1>9, <1>10, <1>11, <1>12 DEF AdvertiseNext

\* The same of the caches of two nodes that advertise, move, start again with a new
\* session and an empty cache, and hear late and repeated messages of earlier sessions.
THEOREM AdvertisedAgesAreHonest == AdvertiseSpec => []AgeIsHonest
  <1>1. AdvertiseInv /\ [AdvertiseNext]_allvars => AdvertiseInv'
    BY AdvertiseStep
  <1>2. AdvertiseInv => AgeIsHonest
    BY HonestAges DEF AdvertiseInv
  <1> QED
    BY <1>1, <1>2, AdvertiseInitial, PTL DEF AdvertiseSpec
=============================================================================
