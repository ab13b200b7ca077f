-------------------------- MODULE NatDetectorProofs --------------------------
(***************************************************************************)
(* Proofs about NatDetector: for any number of peers, attempts and         *)
(* datagrams.  Pending is the inductive core: at most one timer or second  *)
(* socket is pending, and the state is the one that waits for it.          *)
(***************************************************************************)
EXTENDS NatDetector, TLAPS

(* Type correctness. *)

\* The messages that the node and its peers build are datagrams, and the port
\* the network reports is a port.
LEMMA MessagesTyped ==
    ASSUME path \in {"none", "cone", "symmetric"},
           NEW p \in Peers, NEW n \in Nonce
    PROVE  /\ Port(p) \in Nat \ {0}
           /\ Echo(p, n) \in Datagram
           /\ EchoReply(p, n) \in Datagram
           /\ Redirect(p, n) \in Datagram
           /\ RedirectReply(p, n) \in Datagram
  <1>1. Port(p) \in Nat \ {0}
    BY NatAssumption DEF Port
  <1> QED
    BY <1>1 DEF Echo, EchoReply, Redirect, RedirectReply, Datagram

\* What is left of the datagrams under way after one of them was delivered.
LEMMA LeftSubset ==
    ASSUME NEW m \in net
    PROVE  Left(m) \subseteq net
  BY DEF Left

\* Every action keeps the type invariant of NatDetector.
LEMMA TypeStep ==
    ASSUME TypeOK, [Next]_vars
    PROVE  TypeOK'
  <1> USE NatAssumption DEF Nonce, State, Final, Waiting
  <1>0. CASE UNCHANGED vars
    BY <1>0 DEF TypeOK, vars, own, Datagram
  <1>a. ASSUME NEW p \in Peers, detect_nat(p),
               UNCHANGED <<registered, joined, known, path, domain, misled>>,
               timer_nat' \in BOOLEAN, started' \in BOOLEAN
        PROVE  TypeOK'
    <2>1. drawn + 1 \in Nonce /\ drawn' \in 0..MaxNonce
      BY <1>a DEF detect_nat, TypeOK
    <2>2. Echo(p, drawn + 1) \in Datagram
      BY <2>1, MessagesTyped DEF TypeOK
    <2> QED
      BY <1>a, <2>1, <2>2 DEF detect_nat, TypeOK
  <1>b. ASSUME NEW p \in Peers, NEW q \in Peers, detect_nat_type(p, q),
               UNCHANGED <<started, registered, joined, known, path, domain, misled>>,
               timer_nat' \in BOOLEAN
        PROVE  TypeOK'
    <2>1. drawn + 1 \in Nonce /\ drawn' \in 0..MaxNonce
      BY <1>b DEF detect_nat_type, TypeOK
    <2>2. Echo(p, drawn + 1) \in Datagram /\ Echo(q, drawn + 1) \in Datagram
      BY <2>1, MessagesTyped DEF TypeOK
    <2> QED
      BY <1>b, <2>1, <2>2 DEF detect_nat_type, TypeOK
  <1>1. CASE detect
    <2>1. CASE \E p \in Peers : detect_nat(p) /\ domain = "inet"
      <3>1. PICK p \in Peers : detect_nat(p) /\ domain = "inet"
        BY <2>1
      <3>2. timer_nat' = TRUE
        BY <1>1, <3>1 DEF detect
      <3>3. /\ started' = TRUE
            /\ UNCHANGED <<registered, joined, known, path, domain, misled>>
        BY <1>1 DEF detect
      <3> QED BY <3>1, <3>2, <3>3, <1>a
    <2>2. CASE ~ \E p \in Peers : detect_nat(p) /\ domain = "inet"
      <3>1. /\ m_state' \in State /\ timer_nat' \in BOOLEAN /\ started' \in BOOLEAN
            /\ UNCHANGED <<m_timers, m_udps, m_reply, drawn, net,
                           registered, joined, known, path, domain, misled>>
        BY <1>1, <2>2 DEF detect, TypeOK
      <3> QED BY <3>1 DEF TypeOK
    <2> QED BY <2>1, <2>2
  <1>2. CASE timer_nat_fires
    <2>0. known \subseteq Peers /\ timer_nat' \in BOOLEAN
      BY <1>2 DEF timer_nat_fires, TypeOK
    <2>1. CASE \E p \in known : detect_nat(p)
      BY <1>2, <2>0, <2>1, <1>a DEF timer_nat_fires, TypeOK
    <2>2. CASE \E p, q \in known : detect_nat_type(p, q)
      BY <1>2, <2>0, <2>2, <1>b DEF timer_nat_fires
    <2>3. CASE UNCHANGED <<m_state, m_timers, m_udps, m_reply, drawn, net>>
      BY <1>2, <2>0, <2>3 DEF timer_nat_fires, TypeOK, Datagram
    <2> QED BY <1>2, <2>1, <2>2, <2>3 DEF timer_nat_fires
  <1>3. CASE timer_echo_wait1
    BY <1>3 DEF timer_echo_wait1, TypeOK, WithoutTimer, Datagram
  <1>4. CASE timer_echo_wait2
    BY <1>4 DEF timer_echo_wait2, TypeOK, WithoutTimer, Datagram
  <1>5. CASE recv_echo_reply
    <2>1. PICK m \in net :
            \/ m_state = "echo_wait1" /\ recv_echo_reply_wait1(m)
            \/ m_state = "echo_wait2" /\ recv_echo_reply_wait2(m)
            \/ /\ net' = Left(m)
               /\ UNCHANGED <<m_state, m_timers, m_udps, m_reply, drawn, registered, joined>>
      BY <1>5 DEF recv_echo_reply
    <2>2. /\ m \in Datagram /\ Left(m) \subseteq Datagram
          /\ UNCHANGED <<timer_nat, started, known, path, domain, misled>>
      BY <1>5, <2>1, LeftSubset DEF recv_echo_reply, TypeOK
    <2>3. CASE recv_echo_reply_wait1(m)
      <3>1. drawn + 1 \in Nonce /\ drawn' \in 0..MaxNonce
        BY <2>3 DEF recv_echo_reply_wait1, TypeOK
      <3>2. Redirect(m.peer, drawn + 1) \in Datagram
        BY <2>2, <3>1, MessagesTyped DEF TypeOK, Datagram
      <3> QED
        BY <2>2, <2>3, <3>1, <3>2 DEF recv_echo_reply_wait1, TypeOK, WithoutTimer
    <2>4. CASE recv_echo_reply_wait2(m)
      <3>1. m.nonce \in Nonce /\ m.port \in Nat
        BY <2>2 DEF Datagram
      <3>2. m_reply' \in [Nonce -> Nat] /\ m_state' \in State
        <4>1. CASE m_reply[m.nonce] = 0
          BY <2>4, <3>1, <4>1 DEF recv_echo_reply_wait2, TypeOK
        <4>2. CASE m_reply[m.nonce] # 0
          <5>1. m_reply' = [m_reply EXCEPT ![m.nonce] = 0]
            BY <2>4, <4>2 DEF recv_echo_reply_wait2
          <5>2. m_state' \in {"cone_nat", "symmetric_nat"}
            BY <2>4, <4>2 DEF recv_echo_reply_wait2
          <5> QED BY <5>1, <5>2 DEF TypeOK
        <4> QED BY <4>1, <4>2
      <3>3. registered' \in BOOLEAN /\ joined' \in BOOLEAN
        BY <2>4 DEF recv_echo_reply_wait2, join_dht, TypeOK
      <3>4. /\ m_timers' \subseteq m_timers /\ net' = Left(m)
            /\ UNCHANGED <<m_udps, drawn>>
        BY <2>4 DEF recv_echo_reply_wait2, WithoutTimer
      <3> QED
        BY <2>2, <3>2, <3>3, <3>4 DEF TypeOK
    <2>5. CASE /\ net' = Left(m)
               /\ UNCHANGED <<m_state, m_timers, m_udps, m_reply, drawn, registered, joined>>
      BY <2>2, <2>5 DEF TypeOK
    <2> QED BY <2>1, <2>3, <2>4, <2>5
  <1>6. CASE udp_timeout
    BY <1>6 DEF udp_timeout, TypeOK, Datagram
  <1>7. CASE udp_receiver
    <2>1. /\ m_udps' \subseteq Nonce
          /\ UNCHANGED <<m_timers, m_reply, timer_nat, drawn, started, registered,
                         known, path, domain>>
      BY <1>7 DEF udp_receiver, TypeOK
    <2>2. misled' \in BOOLEAN
      BY <1>7 DEF udp_receiver, TypeOK
    <2>3. net' \subseteq Datagram /\ m_state' \in State /\ joined' \in BOOLEAN
      BY <1>7, LeftSubset DEF udp_receiver, recv_echo_redirect_reply, join_dht, TypeOK
    <2> QED BY <2>1, <2>2, <2>3 DEF TypeOK
  <1>8. CASE recv_echo
    <2>1. PICK m \in net : net' = Left(m) \cup {EchoReply(m.peer, m.nonce)}
      BY <1>8 DEF recv_echo
    <2>2. m.peer \in Peers /\ m.nonce \in Nonce
      BY <2>1 DEF TypeOK, Datagram
    <2>3. EchoReply(m.peer, m.nonce) \in Datagram
      BY <2>2, MessagesTyped DEF TypeOK
    <2>4. net' \subseteq Datagram
      BY <2>1, <2>3, LeftSubset DEF TypeOK
    <2> QED BY <1>8, <2>4 DEF recv_echo, own, TypeOK
  <1>9. CASE recv_echo_redirect
    <2>1. PICK m \in net :
            net' = Left(m) \cup
                     (IF path = "none" THEN {RedirectReply(m.peer, m.nonce)} ELSE {})
      BY <1>9 DEF recv_echo_redirect
    <2>2. m.peer \in Peers /\ m.nonce \in Nonce
      BY <2>1 DEF TypeOK, Datagram
    <2>3. RedirectReply(m.peer, m.nonce) \in Datagram
      BY <2>2, MessagesTyped DEF TypeOK
    <2>4. net' \subseteq Datagram
      BY <2>1, <2>3, LeftSubset DEF TypeOK
    <2> QED BY <1>9, <2>4 DEF recv_echo_redirect, own, TypeOK
  <1>10. CASE PeersChange
    BY <1>10 DEF PeersChange, own, TypeOK, Datagram
  <1> QED
    BY <1>0, <1>1, <1>2, <1>3, <1>4, <1>5, <1>6, <1>7, <1>8, <1>9, <1>10 DEF Next

\* The initial state has its type.
LEMMA NatTypeInit == Init => TypeOK
  <1> SUFFICES ASSUME Init PROVE TypeOK
    OBVIOUS
  <1>1. /\ timer_nat = FALSE /\ started = FALSE /\ registered = FALSE /\ joined = FALSE
        /\ misled = FALSE
    BY DEF Init
  <1>2. m_reply \in [Nonce -> Nat] /\ drawn \in 0..MaxNonce
    BY NatAssumption DEF Init, Nonce
  <1>3. /\ m_state \in State /\ m_timers = {} /\ m_udps = {} /\ known = {} /\ net = {}
        /\ path \in {"none", "cone", "symmetric"} /\ domain \in {"inet", "inet6"}
    BY DEF Init, State
  <1> QED BY <1>1, <1>2, <1>3 DEF TypeOK

\* Type correctness of the detector, for any peers, paths and stray datagrams.
THEOREM NatTypeCorrect == Spec => []TypeOK
  <1>1. TypeOK /\ [Next]_vars => TypeOK'
    BY TypeStep
  <1> QED
    BY <1>1, NatTypeInit, PTL DEF Spec
-----------------------------------------------------------------------------
(* What is pending. *)

\* OnePending without the socket that echo_redirect_wait needs, which a stray
\* datagram can take away; an IPv6 node never starts anything.
Pending ==
    /\ m_timers = {} => m_state \notin {"echo_wait1", "echo_wait2"}
    /\ \A t \in m_timers : m_timers = {t} /\ m_state = t.func
    /\ \A n \in m_udps : m_udps = {n} /\ m_state = "echo_redirect_wait"
    /\ domain = "inet6" => m_timers = {} /\ m_udps = {} /\ m_state \in {"undefined", "global"}

\* timer_nat runs on IPv4 only, and until the answer.
Armed == (domain = "inet6" => ~ timer_nat) /\ RetryArmed

\* Where nothing waits, nothing is pending.
LEMMA IdleNothingPending ==
    ASSUME TypeOK, Pending
    PROVE  /\ m_state \notin Waiting => m_timers = {} /\ m_udps = {}
           /\ m_state \in {"echo_wait1", "echo_wait2"} => m_udps = {}
           /\ m_state = "echo_redirect_wait" => m_timers = {}
  BY DEF Pending, TypeOK, Waiting

\* Removing the only timer leaves none.
LEMMA RemoveTimer ==
    ASSUME Pending, NEW t \in m_timers
    PROVE  WithoutTimer(t.nonce) = {}
  BY DEF Pending, WithoutTimer

\* Where a second socket is open, it is the only one and no timer is set.
LEMMA RemoveSocket ==
    ASSUME TypeOK, Pending, NEW n \in m_udps
    PROVE  /\ m_udps \ {n} = {} /\ m_timers = {}
           /\ m_state = "echo_redirect_wait" /\ domain # "inet6"
  <1>1. m_udps = {n} /\ m_state = "echo_redirect_wait" /\ domain # "inet6"
    BY DEF Pending
  <1>2. m_udps \ {n} = {}
    BY <1>1
  <1>3. m_timers = {}
    BY <1>1, IdleNothingPending
  <1> QED BY <1>1, <1>2, <1>3

\* Every action keeps Pending.
LEMMA PendingStep ==
    ASSUME TypeOK, Pending, Armed, [Next]_vars
    PROVE  Pending'
  <1>0. CASE UNCHANGED vars
    BY <1>0 DEF Pending, vars, own
  <1>a. ASSUME NEW p \in Peers, detect_nat(p), UNCHANGED domain, domain # "inet6"
        PROVE  Pending'
    <2>1. m_timers = {} /\ m_udps = {}
      BY <1>a, IdleNothingPending DEF detect_nat, Waiting
    <2>2. PICK t : t = [nonce |-> drawn + 1, func |-> "echo_wait1"]
      OBVIOUS
    <2>3. /\ m_timers' = {t} /\ t.func = "echo_wait1"
          /\ m_state' = "echo_wait1" /\ m_udps' = {} /\ domain' # "inet6"
      BY <1>a, <2>1, <2>2 DEF detect_nat
    <2> QED BY <2>3 DEF Pending
  <1>b. ASSUME NEW p \in Peers, NEW q \in Peers, detect_nat_type(p, q), UNCHANGED domain,
               domain # "inet6"
        PROVE  Pending'
    <2>1. m_timers = {} /\ m_udps = {}
      BY <1>b, IdleNothingPending DEF detect_nat_type, Waiting
    <2>2. PICK t : t = [nonce |-> drawn + 1, func |-> "echo_wait2"]
      OBVIOUS
    <2>3. /\ m_timers' = {t} /\ t.func = "echo_wait2"
          /\ m_state' = "echo_wait2" /\ m_udps' = {} /\ domain' # "inet6"
      BY <1>b, <2>1, <2>2 DEF detect_nat_type
    <2> QED BY <2>3 DEF Pending
  <1>1. CASE detect
    <2>1. CASE domain = "inet6"
      BY <1>1, <2>1 DEF detect, Pending
    <2>2. CASE domain # "inet6"
      <3>1. CASE \E p \in Peers : detect_nat(p)
        BY <1>1, <2>2, <3>1, <1>a DEF detect
      <3>2. CASE ~ \E p \in Peers : detect_nat(p)
        BY <1>1, <2>2, <3>2 DEF detect, Pending
      <3> QED BY <3>1, <3>2
    <2> QED BY <2>1, <2>2
  <1>2. CASE timer_nat_fires
    <2>0. known \subseteq Peers /\ UNCHANGED domain /\ domain # "inet6"
      BY <1>2 DEF timer_nat_fires, TypeOK, Armed
    <2>1. CASE \E p \in known : detect_nat(p)
      BY <2>0, <2>1, <1>a
    <2>2. CASE \E p, q \in known : detect_nat_type(p, q)
      BY <2>0, <2>2, <1>b
    <2>3. CASE UNCHANGED <<m_state, m_timers, m_udps, m_reply, drawn, net>>
      BY <2>0, <2>3 DEF Pending
    <2> QED BY <1>2, <2>1, <2>2, <2>3 DEF timer_nat_fires
  <1>3. CASE timer_echo_wait1
    <2>1. PICK t \in m_timers : t.func = "echo_wait1" /\ m_timers' = WithoutTimer(t.nonce)
      BY <1>3 DEF timer_echo_wait1
    <2>2. m_timers' = {}
      BY <2>1, RemoveTimer
    <2>3. m_udps = {} /\ domain # "inet6"
      BY <2>1 DEF Pending
    <2>4. m_state' = "undefined" /\ m_udps' = m_udps /\ domain' = domain
      BY <1>3 DEF timer_echo_wait1
    <2> QED BY <2>2, <2>3, <2>4 DEF Pending
  <1>4. CASE timer_echo_wait2
    <2>1. PICK t \in m_timers : t.func = "echo_wait2" /\ m_timers' = WithoutTimer(t.nonce)
      BY <1>4 DEF timer_echo_wait2
    <2>2. m_timers' = {}
      BY <2>1, RemoveTimer
    <2>3. m_udps = {} /\ domain # "inet6"
      BY <2>1 DEF Pending
    <2>4. m_state' = "nat" /\ m_udps' = m_udps /\ domain' = domain
      BY <1>4 DEF timer_echo_wait2
    <2> QED BY <2>2, <2>3, <2>4 DEF Pending
  <1>5. CASE recv_echo_reply
    <2>1. PICK m \in net :
            \/ m_state = "echo_wait1" /\ recv_echo_reply_wait1(m)
            \/ m_state = "echo_wait2" /\ recv_echo_reply_wait2(m)
            \/ UNCHANGED <<m_state, m_timers, m_udps>>
      BY <1>5 DEF recv_echo_reply
    <2>2. UNCHANGED domain
      BY <1>5 DEF recv_echo_reply
    <2>3. CASE m_state = "echo_wait1" /\ recv_echo_reply_wait1(m)
      <3>1. m_timers' = {} /\ domain # "inet6" /\ m_udps = {}
        BY <2>3, RemoveTimer DEF recv_echo_reply_wait1, HasTimer, Pending
      <3>2. m_udps' = {drawn + 1} /\ m_state' = "echo_redirect_wait"
        BY <2>3, <3>1 DEF recv_echo_reply_wait1
      <3> QED BY <2>2, <3>1, <3>2 DEF Pending
    <2>4. CASE m_state = "echo_wait2" /\ recv_echo_reply_wait2(m)
      <3>1. CASE m_reply[m.nonce] = 0
        BY <2>2, <2>4, <3>1 DEF recv_echo_reply_wait2, Pending
      <3>2. CASE m_reply[m.nonce] # 0
        <4>1. m_timers' = {} /\ domain # "inet6" /\ m_udps = {}
          BY <2>4, <3>2, RemoveTimer DEF recv_echo_reply_wait2, HasTimer, Pending
        <4>2. m_udps' = {} /\ m_state' \in {"cone_nat", "symmetric_nat"}
          BY <2>4, <3>2, <4>1 DEF recv_echo_reply_wait2
        <4> QED BY <2>2, <4>1, <4>2 DEF Pending
      <3> QED BY <3>1, <3>2
    <2>5. CASE UNCHANGED <<m_state, m_timers, m_udps>>
      BY <2>2, <2>5 DEF Pending
    <2> QED BY <2>1, <2>3, <2>4, <2>5
  <1>6. CASE udp_timeout
    <2>1. m_udps' = {} /\ m_timers = {} /\ domain # "inet6"
      BY <1>6, RemoveSocket DEF udp_timeout
    <2> QED BY <1>6, <2>1 DEF udp_timeout, Pending
  <1>7. CASE udp_receiver
    <2>1. /\ m_udps' = {} /\ m_timers = {} /\ domain # "inet6"
          /\ m_state = "echo_redirect_wait"
      BY <1>7, RemoveSocket DEF udp_receiver
    <2>2. m_timers' = {} /\ domain' # "inet6"
      BY <1>7, <2>1 DEF udp_receiver
    <2>3. m_state' \in {"global", "undefined", "echo_redirect_wait"}
      BY <1>7, <2>1 DEF udp_receiver, recv_echo_redirect_reply
    <2> QED BY <2>1, <2>2, <2>3 DEF Pending
  <1>8. CASE recv_echo
    BY <1>8 DEF recv_echo, own, Pending
  <1>9. CASE recv_echo_redirect
    BY <1>9 DEF recv_echo_redirect, own, Pending
  <1>10. CASE PeersChange
    BY <1>10 DEF PeersChange, own, Pending
  <1> QED
    BY <1>0, <1>1, <1>2, <1>3, <1>4, <1>5, <1>6, <1>7, <1>8, <1>9, <1>10 DEF Next

\* How the state and timer_nat may change: the answer stays, timer_nat is set by
\* detect() and is given up only by timer_nat itself, with the answer.
LEMMA AnswerStays ==
    ASSUME TypeOK, Pending, [Next]_vars, m_state \in Final
    PROVE  domain = "inet" => m_state' = m_state
  <1>1. m_timers = {} /\ m_udps = {}
    BY IdleNothingPending DEF Waiting, Final
  <1>2. SUFFICES ASSUME domain = "inet", Next PROVE m_state' = m_state
    BY DEF vars, own
  <1>3. CASE recv_echo_reply
    <2>1. m_state \notin {"echo_wait1", "echo_wait2"}
      BY DEF Final
    <2> QED BY <1>3, <2>1 DEF recv_echo_reply
  <1>4. CASE timer_nat_fires
    <2>1. m_state \notin {"undefined", "nat"}
      BY DEF Final
    <2>2. ASSUME NEW p, NEW q PROVE ~ detect_nat(p) /\ ~ detect_nat_type(p, q)
      BY <2>1 DEF detect_nat, detect_nat_type
    <2> QED BY <1>4, <2>2 DEF timer_nat_fires
  <1>5. CASE detect
    BY <1>2, <1>5 DEF detect
  <1>6. CASE timer_echo_wait1 \/ timer_echo_wait2
    BY <1>1, <1>6 DEF timer_echo_wait1, timer_echo_wait2
  <1>7. CASE udp_timeout \/ udp_receiver
    BY <1>1, <1>7 DEF udp_timeout, udp_receiver
  <1>8. CASE recv_echo \/ recv_echo_redirect \/ PeersChange
    BY <1>8 DEF recv_echo, recv_echo_redirect, PeersChange, own
  <1> QED
    BY <1>2, <1>3, <1>4, <1>5, <1>6, <1>7, <1>8 DEF Next

\* Every action keeps timer_nat set until the answer is there.
LEMMA ArmedStep ==
    ASSUME TypeOK, Pending, Armed, [Next]_vars
    PROVE  Armed'
  <1> USE DEF Armed, RetryArmed
  <1>0. CASE UNCHANGED vars
    BY <1>0 DEF vars, own
  <1>1. CASE detect
    BY <1>1 DEF detect, TypeOK, Final
  <1>2. CASE timer_nat_fires
    <2>1. CASE m_state \in Final
      <3>1. domain = "inet"
        BY <1>2 DEF timer_nat_fires, TypeOK
      <3>2. m_state' = m_state
        BY <2>1, <3>1, AnswerStays
      <3> QED BY <1>2, <2>1, <3>1, <3>2 DEF timer_nat_fires
    <2>2. CASE m_state \notin Final
      BY <1>2, <2>2 DEF timer_nat_fires
    <2> QED BY <2>1, <2>2
  <1>3. ASSUME UNCHANGED <<timer_nat, started, domain>>
        PROVE  Armed'
    <2>1. CASE domain = "inet6"
      <3>1. m_timers = {} /\ m_udps = {} /\ m_state \notin Waiting
        BY <2>1 DEF Pending, Waiting
      <3>2. m_state' = m_state \/ m_state' \in Final
        BY <3>1, <2>1, <1>3 DEF Next, vars, own, detect, timer_nat_fires, timer_echo_wait1,
           timer_echo_wait2, recv_echo_reply, udp_timeout, udp_receiver, recv_echo,
           recv_echo_redirect, PeersChange, Waiting, Final
      <3> QED BY <1>3, <2>1, <3>2
    <2>2. CASE domain = "inet"
      BY <1>3, <2>2, AnswerStays
    <2> QED BY <2>1, <2>2 DEF TypeOK
  <1> QED
    BY <1>0, <1>1, <1>2, <1>3 DEF Next, own, timer_echo_wait1, timer_echo_wait2,
       recv_echo_reply, udp_timeout, udp_receiver, recv_echo, recv_echo_redirect, PeersChange

\* The inductive invariant holds in every state.
THEOREM NatInvariance == Spec => [](TypeOK /\ Pending /\ Armed)
  <1>1. Init => TypeOK
    BY NatTypeInit
  <1>2. Init => Pending
    BY DEF Init, Pending
  <1>3. Init => Armed
    BY DEF Init, Armed, RetryArmed
  <1>4. TypeOK /\ Pending /\ Armed /\ [Next]_vars => (TypeOK /\ Pending /\ Armed)'
    BY TypeStep, PendingStep, ArmedStep
  <1> QED
    BY <1>1, <1>2, <1>3, <1>4, PTL DEF Spec

\* Detection goes on until it has an answer: timer_nat, which detect() sets and
\* its own operator() sets again, is not lost in any order of events.
THEOREM DetectionGoesOn == Spec => []RetryArmed
  <1>1. Armed => RetryArmed
    BY DEF Armed
  <1> QED
    BY <1>1, NatInvariance, PTL

\* A waiting state has the one timer or socket that ends it, unless udp_receiver
\* took a datagram of another type, and no other timer or socket is there.
THEOREM OneIsPending == Spec => []OnePending
  <1> DEFINE Inv == TypeOK /\ Pending /\ Armed /\ OnePending
  <1>1. Init => OnePending
    BY DEF Init, OnePending
  <1>2. ASSUME TypeOK, Pending, Armed, OnePending, [Next]_vars
        PROVE  OnePending'
    <2>1. Pending'
      BY <1>2, PendingStep
    <2>2. SUFFICES ASSUME m_state' = "echo_redirect_wait" PROVE m_udps' # {} \/ misled'
      BY <2>1 DEF Pending, OnePending
    <2>3. CASE UNCHANGED <<m_state, m_udps, misled>>
      BY <1>2, <2>2, <2>3 DEF OnePending
    <2>4. CASE recv_echo_reply
      <3>0. UNCHANGED misled
        BY <2>4 DEF recv_echo_reply
      <3>1. CASE UNCHANGED <<m_state, m_udps>>
        BY <3>0, <3>1, <2>3
      <3>2. CASE \E m \in net : recv_echo_reply_wait1(m)
        BY <3>2 DEF recv_echo_reply_wait1
      <3>3. CASE \E m \in net : recv_echo_reply_wait2(m) /\ m_state = "echo_wait2"
        BY <3>3, <2>2 DEF recv_echo_reply_wait2
      <3> QED BY <2>4, <3>1, <3>2, <3>3 DEF recv_echo_reply
    <2>5. CASE udp_receiver
      BY <2>2, <2>5 DEF udp_receiver, recv_echo_redirect_reply
    <2>6. CASE detect \/ timer_nat_fires
      BY <2>2, <2>3, <2>6 DEF detect, timer_nat_fires, detect_nat, detect_nat_type
    <2> QED
      BY <1>2, <2>2, <2>3, <2>4, <2>5, <2>6 DEF Next, vars, own, timer_echo_wait1,
         timer_echo_wait2, udp_timeout, recv_echo, recv_echo_redirect, PeersChange
  <1>3. OnePending /\ TypeOK /\ Pending /\ Armed /\ [Next]_vars => OnePending'
    BY <1>2
  <1> QED
    BY <1>1, <1>3, NatInvariance, PTL DEF Spec
-----------------------------------------------------------------------------
(* The answer is kept. *)

\* Who was told of the answer.
Told == /\ registered => m_state = "symmetric_nat"
        /\ joined => m_state \in {"global", "cone_nat"}

\* Every action keeps Told.
LEMMA ToldStep ==
    ASSUME TypeOK, Pending, Told, [Next]_vars
    PROVE  Told'
  <1>1. CASE UNCHANGED <<registered, joined>>
    <2>1. SUFFICES ASSUME registered \/ joined PROVE m_state' = m_state \/
                     (m_state = "global" /\ m_state' = "global")
      BY <1>1 DEF Told
    <2>2. m_state \in Final
      BY <2>1 DEF Told, Final
    <2>3. CASE domain = "inet"
      BY <2>2, <2>3, AnswerStays
    <2>4. CASE domain = "inet6"
      <3>1. m_timers = {} /\ m_udps = {} /\ m_state = "global"
        BY <2>2, <2>4 DEF Pending, Final
      <3>2. ASSUME NEW p, NEW q PROVE ~ detect_nat(p) /\ ~ detect_nat_type(p, q)
        BY <3>1 DEF detect_nat, detect_nat_type
      <3> QED
        BY <3>1, <3>2, <2>4 DEF Next, vars, own, detect, timer_nat_fires, timer_echo_wait1,
           timer_echo_wait2, recv_echo_reply, udp_timeout, udp_receiver, recv_echo,
           recv_echo_redirect, PeersChange
    <2> QED BY <2>3, <2>4 DEF TypeOK
  <1>2. ASSUME NEW m \in net, m_state = "echo_wait2", recv_echo_reply_wait2(m)
        PROVE  Told'
    BY <1>2 DEF recv_echo_reply_wait2, join_dht, Told
  <1>3. CASE udp_receiver
    <2>1. m_state = "echo_redirect_wait"
      BY <1>3, RemoveSocket DEF udp_receiver
    <2>2. ~ registered' /\ ~ joined
      BY <1>3, <2>1 DEF udp_receiver, Told
    <2> QED
      BY <1>3, <2>2 DEF udp_receiver, recv_echo_redirect_reply, join_dht, Told
  <1>4. CASE recv_echo_reply
    BY <1>1, <1>2, <1>4 DEF recv_echo_reply, recv_echo_reply_wait1
  <1> QED
    BY <1>1, <1>3, <1>4 DEF Next, vars, own, detect, timer_nat_fires, timer_echo_wait1,
       timer_echo_wait2, udp_timeout, recv_echo, recv_echo_redirect, PeersChange

\* The answer of natdetector is kept whatever is late, repeated or stray, and
\* the node registers at a proxy or joins the DHT only with the answer for it.
THEOREM AnswerIsKept == Spec => FinalStays
  <1> DEFINE Step == /\ m_state \in Final /\ domain = "inet" => m_state' = m_state
                     /\ registered' => m_state' = "symmetric_nat"
                     /\ joined' => m_state' \in {"global", "cone_nat"}
  <1>1. Init => Told
    BY DEF Init, Told
  <1>2. TypeOK /\ Pending /\ Told /\ [Next]_vars => Told'
    BY ToldStep
  <1>3. TypeOK /\ Pending /\ Told /\ [Next]_vars => Step
    <2>1. SUFFICES ASSUME TypeOK, Pending, Told, [Next]_vars PROVE Step
      OBVIOUS
    <2>2. Told'
      BY <2>1, ToldStep
    <2>3. m_state \in Final /\ domain = "inet" => m_state' = m_state
      BY <2>1, AnswerStays
    <2> QED BY <2>2, <2>3 DEF Told
  <1>4. TypeOK /\ Pending /\ Told /\ [Next]_vars => [Step]_vars
    BY <1>3
  <1> HIDE DEF Step
  <1>5. Spec => [][Step]_vars
    BY <1>1, <1>2, <1>4, NatInvariance, PTL DEF Spec
  <1> QED
    BY <1>5 DEF FinalStays, Step
-----------------------------------------------------------------------------
(* The answer is right, where no datagram is delivered twice. *)

\* Every echo is answered at most once by each peer: an echo and its reply are
\* never both under way, a reply tells the port towards its peer, and the port
\* that was kept from the first reply is not the port of a peer still to come.
Echoes ==
    /\ \A m \in net : m.type = "echo" => m = Echo(m.peer, m.nonce)
    /\ \A m \in net : m.type = "echo_reply" =>
          m = EchoReply(m.peer, m.nonce) /\ Echo(m.peer, m.nonce) \notin net
    /\ \A m \in net : m.nonce <= drawn
    /\ \A m \in net : m.type = "redirect_reply" => path = "none"

Replies ==
    /\ \A n \in Nonce : n > drawn => m_reply[n] = 0
    /\ \A n \in Nonce : m_reply[n] # 0 /\ path # "symmetric" => m_reply[n] = ConePort
    /\ \A m \in net :
          m_reply[m.nonce] # 0 /\ m.type \in {"echo", "echo_reply"} /\ path = "symmetric"
            => m_reply[m.nonce] # PortOf[m.peer]

\* The fields of the datagrams.
LEMMA Fields ==
    ASSUME NEW p, NEW n
    PROVE  /\ Echo(p, n).type = "echo" /\ EchoReply(p, n).type = "echo_reply"
           /\ Redirect(p, n).type = "redirect"
           /\ RedirectReply(p, n).type = "redirect_reply"
           /\ Echo(p, n).peer = p /\ EchoReply(p, n).peer = p
           /\ Echo(p, n).nonce = n /\ EchoReply(p, n).nonce = n
           /\ Redirect(p, n).nonce = n /\ RedirectReply(p, n).nonce = n
           /\ EchoReply(p, n).port = Port(p)
  BY DEF Echo, EchoReply, Redirect, RedirectReply

\* A new nonce is not that of any datagram under way: sending echoes with it
\* keeps Echoes and Replies.
LEMMA NewEchoes ==
    ASSUME TypeOK, Echoes, Replies, drawn < MaxNonce, drawn' = drawn + 1,
           NEW S \in SUBSET Peers, path' = path,
           net' = net \cup {Echo(p, drawn + 1) : p \in S},
           m_reply' \in {m_reply, [m_reply EXCEPT ![drawn + 1] = 0]}
    PROVE  Echoes' /\ Replies'
  <1>1. /\ drawn \in Nat /\ drawn + 1 \in Nonce
        /\ \A m \in net : m.nonce \in Nat /\ m.nonce # drawn + 1 /\ m.nonce \in Nonce
    BY NatAssumption DEF TypeOK, Datagram, Nonce, Echoes
  <1>2. m_reply' = m_reply
    BY <1>1 DEF Replies, TypeOK
  <1>3. ASSUME NEW m \in net'
        PROVE  m \in net \/ (m.type = "echo" /\ m.nonce = drawn + 1 /\ m = Echo(m.peer, m.nonce))
    BY Fields, <1>3
  <1>4. ASSUME NEW p, NEW n PROVE Echo(p, n)' = Echo(p, n) /\ EchoReply(p, n)' = EchoReply(p, n)
    BY DEF Echo, EchoReply, Port
  <1>5. ASSUME NEW m \in net, NEW p PROVE Echo(m.peer, m.nonce) # Echo(p, drawn + 1)
    BY <1>1, Fields
  <1>6. Echoes'
    <2>1. \A m \in net' : m.type = "echo" => m = Echo(m.peer, m.nonce)
      BY <1>3 DEF Echoes
    <2>2. \A m \in net' : m.type = "echo_reply" =>
             m = EchoReply(m.peer, m.nonce) /\ Echo(m.peer, m.nonce) \notin net'
      <3>1. SUFFICES ASSUME NEW m \in net', m.type = "echo_reply"
                     PROVE  m = EchoReply(m.peer, m.nonce) /\ Echo(m.peer, m.nonce) \notin net'
        OBVIOUS
      <3>2. m \in net
        BY <1>3, <3>1
      <3>3. m = EchoReply(m.peer, m.nonce) /\ Echo(m.peer, m.nonce) \notin net
        BY <3>1, <3>2 DEF Echoes
      <3> QED BY <3>2, <3>3, <1>5
    <2>3. \A m \in net' : m.nonce <= drawn'
      BY <1>1, <1>3 DEF Echoes
    <2>4. \A m \in net' : m.type = "redirect_reply" => path = "none"
      BY <1>3 DEF Echoes
    <2> QED BY <2>1, <2>2, <2>3, <2>4, <1>4 DEF Echoes
  <1>7. Replies'
    <2>1. \A n \in Nonce : n > drawn' => m_reply[n] = 0
      BY <1>1 DEF Replies, Nonce
    <2>2. m_reply[drawn + 1] = 0
      BY <1>1 DEF Replies, Nonce
    <2> QED BY <1>2, <1>3, <2>1, <2>2 DEF Replies
  <1> QED BY <1>6, <1>7

\* Every action keeps Echoes and Replies, where a delivered datagram is gone.
LEMMA EchoStep ==
    ASSUME ~ Dup, TypeOK, Pending, Echoes, Replies, [Next]_vars
    PROVE  Echoes' /\ Replies'
  <1>t. /\ drawn \in Nat
        /\ \A m \in net : m.nonce \in Nonce /\ m.nonce \in Nat /\ m.peer \in Peers
    BY DEF TypeOK, Datagram, Nonce
  <1>p. ASSUME path' = path, NEW p, NEW n
        PROVE  /\ Echo(p, n)' = Echo(p, n) /\ EchoReply(p, n)' = EchoReply(p, n)
               /\ Port(p)' = Port(p)
    BY <1>p DEF Echo, EchoReply, Port
  <1>s. ASSUME net' \subseteq net, UNCHANGED <<path, drawn>>, m_reply' = m_reply
        PROVE  Echoes' /\ Replies'
    <2>1. Echoes'
      BY <1>s, <1>p DEF Echoes
    <2>2. Replies'
      BY <1>s DEF Replies
    <2> QED BY <2>1, <2>2
  <1>0. CASE UNCHANGED vars
    BY <1>0, <1>s DEF vars, own
  <1>a. ASSUME NEW p \in Peers, detect_nat(p), path' = path
        PROVE  Echoes' /\ Replies'
    <2>1. net' = net \cup {Echo(x, drawn + 1) : x \in {p}}
      BY <1>a DEF detect_nat
    <2>2. {p} \in SUBSET Peers /\ drawn < MaxNonce /\ drawn' = drawn + 1 /\ m_reply' = m_reply
      BY <1>a DEF detect_nat
    <2> QED BY <1>a, <2>1, <2>2, NewEchoes
  <1>b. ASSUME NEW p \in Peers, NEW q \in Peers, detect_nat_type(p, q), path' = path
        PROVE  Echoes' /\ Replies'
    <2>1. net' = net \cup {Echo(x, drawn + 1) : x \in {p, q}}
      BY <1>b DEF detect_nat_type
    <2>2. /\ {p, q} \in SUBSET Peers /\ drawn < MaxNonce /\ drawn' = drawn + 1
          /\ m_reply' = [m_reply EXCEPT ![drawn + 1] = 0]
      BY <1>b DEF detect_nat_type
    <2> QED BY <1>b, <2>1, <2>2, NewEchoes
  <1>1. CASE detect
    <2>1. path' = path
      BY <1>1 DEF detect
    <2>2. CASE UNCHANGED <<m_reply, drawn, net>>
      BY <2>1, <2>2, <1>s
    <2> QED BY <1>1, <2>1, <2>2, <1>a DEF detect
  <1>2. CASE timer_nat_fires
    <2>1. path' = path /\ known \subseteq Peers
      BY <1>2 DEF timer_nat_fires, TypeOK
    <2>2. CASE UNCHANGED <<m_reply, drawn, net>>
      BY <2>1, <2>2, <1>s
    <2>3. CASE \E p \in known : detect_nat(p)
      BY <2>1, <2>3, <1>a
    <2>4. CASE \E p, q \in known : detect_nat_type(p, q)
      BY <2>1, <2>4, <1>b
    <2> QED BY <1>2, <2>2, <2>3, <2>4 DEF timer_nat_fires
  <1>3. CASE timer_echo_wait1 \/ udp_timeout \/ PeersChange
    BY <1>3, <1>s DEF timer_echo_wait1, udp_timeout, PeersChange, own
  <1>4. CASE timer_echo_wait2
    <2>1. PICK t \in m_timers : m_reply' = [m_reply EXCEPT ![t.nonce] = 0]
      BY <1>4 DEF timer_echo_wait2
    <2>2. UNCHANGED <<net, path, drawn>>
      BY <1>4 DEF timer_echo_wait2
    <2>3. \A n \in Nonce : m_reply'[n] \in {0, m_reply[n]}
      BY <2>1 DEF TypeOK
    <2>4. Echoes'
      BY <2>2, <1>p DEF Echoes
    <2>5. Replies'
      BY <2>2, <2>3, <1>t DEF Replies
    <2> QED BY <2>4, <2>5
  <1>5. CASE recv_echo_reply
    <2>1. PICK m \in net :
            /\ m.type = "echo_reply"
            /\ \/ m_state = "echo_wait1" /\ recv_echo_reply_wait1(m)
               \/ m_state = "echo_wait2" /\ recv_echo_reply_wait2(m)
               \/ net' = Left(m) /\ UNCHANGED <<m_reply, drawn>>
      BY <1>5 DEF recv_echo_reply
    <2>2. path' = path /\ Left(m) = net \ {m}
      BY <1>5 DEF recv_echo_reply, Left
    <2>3. CASE net' = Left(m) /\ UNCHANGED <<m_reply, drawn>>
      BY <2>2, <2>3, <1>s
    <2>4. CASE recv_echo_reply_wait1(m)
      <3>1. /\ net' = (net \ {m}) \cup {Redirect(m.peer, drawn + 1)}
            /\ drawn' = drawn + 1 /\ m_reply' = m_reply
        BY <2>2, <2>4 DEF recv_echo_reply_wait1
      <3>2. \A k \in net' : k \in net \/ (k.type = "redirect" /\ k.nonce = drawn + 1)
        BY <3>1, Fields
      <3>3. \A p, n : Echo(p, n) \in net' => Echo(p, n) \in net
        BY <3>2, Fields
      <3>4. Echoes'
        BY <1>t, <2>2, <3>1, <3>2, <3>3, <1>p DEF Echoes
      <3>5. Replies'
        BY <1>t, <2>2, <3>1, <3>2 DEF Replies, Nonce
      <3> QED BY <3>4, <3>5
    <2>5. CASE recv_echo_reply_wait2(m)
      <3>1. net' = net \ {m} /\ drawn' = drawn
        BY <2>2, <2>5 DEF recv_echo_reply_wait2
      <3>2. Echoes'
        BY <2>2, <3>1, <1>p DEF Echoes
      <3>3. m = EchoReply(m.peer, m.nonce) /\ Echo(m.peer, m.nonce) \notin net
        BY <2>1 DEF Echoes
      <3>4. m.port = Port(m.peer)
        BY <3>3, Fields
      <3>5. CASE m_reply[m.nonce] # 0
        <4>1. m_reply' = [m_reply EXCEPT ![m.nonce] = 0]
          BY <2>5, <3>5 DEF recv_echo_reply_wait2
        <4>2. \A n \in Nonce : m_reply'[n] \in {0, m_reply[n]}
          BY <4>1 DEF TypeOK
        <4>3. Replies'
          BY <2>2, <3>1, <4>2, <1>t DEF Replies
        <4> QED BY <3>2, <4>3
      <3>6. CASE m_reply[m.nonce] = 0
        <4>1. m_reply' = [m_reply EXCEPT ![m.nonce] = Port(m.peer)]
          BY <2>5, <3>4, <3>6 DEF recv_echo_reply_wait2
        <4>2. /\ m_reply'[m.nonce] = Port(m.peer)
              /\ \A n \in Nonce : n # m.nonce => m_reply'[n] = m_reply[n]
          BY <1>t, <4>1 DEF TypeOK
        <4>3. m.nonce <= drawn
          BY DEF Echoes
        <4>4. \A n \in Nonce : n > drawn' => m_reply'[n] = 0
          BY <1>t, <3>1, <4>2, <4>3 DEF Replies, Nonce
        <4>5. \A n \in Nonce : m_reply'[n] # 0 /\ path # "symmetric" => m_reply'[n] = ConePort
          BY <4>2 DEF Replies, Port
        <4>6. ASSUME NEW k \in net', k.type \in {"echo", "echo_reply"}, k.nonce = m.nonce
              PROVE  k.peer # m.peer
          BY <3>1, <3>3, <4>6 DEF Echoes
        <4>7. ASSUME NEW k \in net', k.type \in {"echo", "echo_reply"}, path = "symmetric",
                     m_reply'[k.nonce] # 0
              PROVE  m_reply'[k.nonce] # PortOf[k.peer]
          <5>1. CASE k.nonce = m.nonce
            <6>1. k.peer # m.peer /\ k.peer \in Peers /\ m.peer \in Peers
              BY <4>6, <4>7, <5>1, <1>t, <3>1
            <6>2. PortOf[k.peer] # PortOf[m.peer]
              BY <6>1, NatAssumption
            <6> QED BY <5>1, <6>2, <4>2, <4>7 DEF Port
          <5>2. CASE k.nonce # m.nonce
            BY <5>2, <4>2, <4>7, <1>t, <3>1 DEF Replies
          <5> QED BY <5>1, <5>2
        <4>8. Replies'
          BY <2>2, <4>4, <4>5, <4>7 DEF Replies
        <4> QED BY <3>2, <4>8
      <3> QED BY <3>5, <3>6
    <2> QED BY <2>1, <2>3, <2>4, <2>5
  <1>6. CASE udp_receiver
    <2>1. net' \subseteq net /\ UNCHANGED <<path, drawn>> /\ m_reply' = m_reply
      BY <1>6, LeftSubset DEF udp_receiver
    <2> QED BY <2>1, <1>s
  <1>7. CASE recv_echo
    <2>1. PICK m \in net : m.type = "echo" /\ net' = Left(m) \cup {EchoReply(m.peer, m.nonce)}
      BY <1>7 DEF recv_echo
    <2>2. /\ net' = (net \ {m}) \cup {EchoReply(m.peer, m.nonce)}
          /\ UNCHANGED <<path, drawn>> /\ m_reply' = m_reply
      BY <1>7, <2>1 DEF recv_echo, own, Left
    <2>3. m = Echo(m.peer, m.nonce)
      BY <2>1 DEF Echoes
    <2>4. ASSUME NEW k \in net'
          PROVE  \/ k \in net /\ k # m
                 \/ /\ k = EchoReply(m.peer, m.nonce) /\ k.type = "echo_reply"
                    /\ k.peer = m.peer /\ k.nonce = m.nonce
      BY <2>2, <2>4, Fields
    <2>5. Echo(m.peer, m.nonce) \notin net'
      <3>1. Echo(m.peer, m.nonce) # EchoReply(m.peer, m.nonce)
        BY Fields
      <3> QED BY <2>2, <2>3, <3>1
    <2>6. \A p, n : Echo(p, n) \in net' => Echo(p, n) \in net
      <3>1. \A p, n : Echo(p, n) # EchoReply(m.peer, m.nonce)
        BY Fields
      <3> QED BY <2>2, <3>1
    <2>7. Echoes'
      <3>1. \A k \in net' : k.type = "echo" => k = Echo(k.peer, k.nonce)
        BY <2>4 DEF Echoes
      <3>2. \A k \in net' : k.type = "echo_reply" =>
              k = EchoReply(k.peer, k.nonce) /\ Echo(k.peer, k.nonce) \notin net'
        BY <2>4, <2>5, <2>6 DEF Echoes
      <3>3. \A k \in net' : k.nonce <= drawn /\ (k.type = "redirect_reply" => path = "none")
        BY <2>4 DEF Echoes
      <3> QED BY <2>2, <3>1, <3>2, <3>3, <1>p DEF Echoes
    <2>8. Replies'
      BY <2>1, <2>2, <2>4 DEF Replies
    <2> QED BY <2>7, <2>8
  <1>8. CASE recv_echo_redirect
    <2>1. PICK m \in net :
            net' = Left(m) \cup (IF path = "none" THEN {RedirectReply(m.peer, m.nonce)} ELSE {})
      BY <1>8 DEF recv_echo_redirect
    <2>2. UNCHANGED <<path, drawn>> /\ m_reply' = m_reply
      BY <1>8 DEF recv_echo_redirect, own
    <2>3. ASSUME NEW k \in net'
          PROVE  \/ k \in net
                 \/ k.type = "redirect_reply" /\ k.nonce = m.nonce /\ path = "none"
      BY <2>1, <2>3, LeftSubset, Fields
    <2>4. \A p, n : Echo(p, n) \in net' => Echo(p, n) \in net
      BY <2>3, Fields
    <2>5. Echoes'
      BY <2>2, <2>3, <2>4, <1>p DEF Echoes
    <2>6. Replies'
      BY <2>2, <2>3 DEF Replies
    <2> QED BY <2>5, <2>6
  <1> QED
    BY <1>0, <1>1, <1>2, <1>3, <1>4, <1>5, <1>6, <1>7, <1>8 DEF Next

\* The answer is right: get_state() says global, cone or symmetric only of a path
\* of that kind, for any losses, delays, stray datagrams and retries, as long as
\* the network does not deliver a datagram twice.
THEOREM AnswerIsRight ==
    ASSUME ~ Dup
    PROVE  Spec => []Sound
  <1>1. Init => Echoes /\ Replies /\ Sound
    BY DEF Init, Echoes, Replies, Sound
  <1>2. TypeOK /\ Pending /\ Echoes /\ Replies /\ [Next]_vars => Echoes' /\ Replies'
    BY EchoStep
  <1>3. TypeOK /\ Pending /\ Armed /\ Echoes /\ Replies /\ Sound /\ [Next]_vars => Sound'
    <2>1. SUFFICES ASSUME TypeOK, Pending, Armed, Echoes, Replies, Sound, [Next]_vars
                   PROVE  Sound'
      OBVIOUS
    <2>2. UNCHANGED <<path, domain>>
      BY <2>1 DEF Next, vars, own, detect, timer_nat_fires, timer_echo_wait1,
         timer_echo_wait2, recv_echo_reply, udp_timeout, udp_receiver, recv_echo,
         recv_echo_redirect, PeersChange
    <2>3. CASE m_state' = m_state \/ m_state' \notin Final
      BY <2>1, <2>2, <2>3 DEF Sound, Final
    <2>4. CASE detect
      BY <2>2, <2>3, <2>4 DEF detect, detect_nat, Sound, Final
    <2>5. CASE udp_receiver
      <3>1. CASE \E m \in net : m.type = "redirect_reply"
        <4>1. path = "none"
          BY <2>1, <3>1 DEF Echoes
        <4>2. m_state' \in {"global", "undefined"} \/ m_state' = m_state
          BY <2>5 DEF udp_receiver, recv_echo_redirect_reply
        <4> QED BY <2>1, <2>2, <4>1, <4>2 DEF Sound
      <3>2. CASE ~ \E m \in net : m.type = "redirect_reply"
        BY <2>3, <2>5, <3>2 DEF udp_receiver, Final
      <3> QED BY <3>1, <3>2
    <2>6. CASE recv_echo_reply
      <3>1. CASE m_state' = m_state \/ m_state' \notin Final
        BY <2>3, <3>1
      <3>2. CASE ~ (m_state' = m_state \/ m_state' \notin Final)
        <4>1. PICK m \in net : m.type = "echo_reply" /\ recv_echo_reply_wait2(m)
          BY <2>6, <3>2 DEF recv_echo_reply, recv_echo_reply_wait1, Final
        <4>2. m = EchoReply(m.peer, m.nonce) /\ m.nonce \in Nonce
          BY <2>1, <4>1 DEF Echoes, TypeOK, Datagram
        <4>3. m.port = Port(m.peer)
          BY <4>2, Fields
        <4>4. m_reply[m.nonce] # 0
          BY <3>2, <4>1 DEF recv_echo_reply_wait2
        <4>5. CASE m_reply[m.nonce] = m.port
          <5>1. m_state' = "cone_nat"
            BY <4>1, <4>4, <4>5 DEF recv_echo_reply_wait2
          <5>2. path # "symmetric"
            BY <2>1, <4>1, <4>3, <4>4, <4>5 DEF Replies, Port
          <5> QED BY <2>2, <5>1, <5>2 DEF Sound
        <4>6. CASE m_reply[m.nonce] # m.port
          <5>1. m_state' = "symmetric_nat"
            BY <4>1, <4>4, <4>6 DEF recv_echo_reply_wait2
          <5>2. path = "symmetric"
            BY <2>1, <4>2, <4>3, <4>4, <4>6 DEF Replies, Port
          <5> QED BY <2>2, <5>1, <5>2 DEF Sound
        <4> QED BY <4>5, <4>6
      <3> QED BY <3>1, <3>2
    <2> QED
      BY <2>1, <2>3, <2>4, <2>5, <2>6 DEF Next, vars, own, timer_nat_fires, detect_nat,
         detect_nat_type, timer_echo_wait1, timer_echo_wait2, udp_timeout, recv_echo,
         recv_echo_redirect, PeersChange, Final
  <1> QED
    BY <1>1, <1>2, <1>3, NatInvariance, PTL DEF Spec
=============================================================================
