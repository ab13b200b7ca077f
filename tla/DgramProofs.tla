----------------------------- MODULE DgramProofs -----------------------------
(***************************************************************************)
(* Proofs about Dgram, for any nodes and addresses, any number of retries, *)
(* datagrams and requests, and whether or not messages are repeated.       *)
(***************************************************************************)
EXTENDS Dgram, FiniteSetTheorems, SequenceTheorems, TLAPS

\* A request is drawn when its nonce is; a message is under way only for a
\* request that was drawn and whose find_value() is over.
NonceInv ==
    /\ \A n \in Nonce : n > drawn => m_request[n] = NoRequest
    /\ \A m \in net : m.nonce <= drawn /\ m.nonce \notin finding

\* QueueAwaited without counting: a node is asked for by one lookup.
AskedOnce ==
    /\ \A d \in Nodes :
         /\ m_queue[d] # <<>> => d \in m_requesting
         /\ d \in m_requesting <=> (d \in finding_node \/ \E n \in Nonce : m_request[n].dst = d)
         /\ d \in finding_node => \A n \in Nonce : m_request[n].dst # d
    /\ \A j, k \in Nonce : m_request[j].dst = m_request[k].dst /\ m_request[j] # NoRequest => j = k

\* The inductive invariant.
DgramInv == TypeOK /\ RequestAwaited /\ AskedOnce /\ NonceInv

Open == [dst: Nodes, retry: 1..Retry]

\* A request is open if it has a node.
LEMMA OpenDst ==
    ASSUME TypeOK, NEW n \in Nonce
    PROVE  /\ m_request[n] # NoRequest <=> m_request[n] \in Open
           /\ m_request[n] # NoRequest <=> m_request[n].dst \in Nodes
           /\ m_request[n].dst = NoAddr <=> m_request[n] = NoRequest
  <1>1. m_request[n] \in Open \cup {NoRequest}
    BY DEF TypeOK, Open
  <1>2. NoRequest \notin Open /\ NoRequest.dst = NoAddr /\ NoAddr \notin Nodes
    BY DgramAssumption DEF NoRequest, Open
  <1>3. m_request[n] \in Open => m_request[n].dst \in Nodes
    BY DEF Open
  <1> QED BY <1>1, <1>2, <1>3

\* The invariant is the one that the runs check.
LEMMA AwaitedByInv == DgramInv => AwaitInv
  <1> SUFFICES ASSUME DgramInv, NEW d \in Nodes
               PROVE  Cardinality({n \in Nonce : m_request[n].dst = d})
                        + (IF d \in finding_node THEN 1 ELSE 0) <= 1
    BY DEF DgramInv, AwaitInv, QueueAwaited, AskedOnce
  <1> DEFINE S == {n \in Nonce : m_request[n].dst = d}
  <1>1. CASE S = {}
    <2>1. Cardinality(S) = 0
      BY <1>1, FS_EmptySet
    <2> QED BY <2>1
  <1>2. CASE S # {}
    <2>1. PICK n \in Nonce : m_request[n].dst = d
      BY <1>2
    <2>2. m_request[n] # NoRequest
      BY <2>1, OpenDst DEF DgramInv
    <2>3. S = {n}
      BY <2>1, <2>2 DEF DgramInv, AskedOnce
    <2>4. Cardinality(S) = 1
      BY <2>3, FS_Singleton
    <2>5. d \notin finding_node
      BY <2>1 DEF DgramInv, AskedOnce
    <2> QED BY <2>4, <2>5
  <1> QED BY <1>1, <1>2

\* The initial states satisfy the invariant.
LEMMA DgramInit == Init => DgramInv
  <1> SUFFICES ASSUME Init PROVE DgramInv
    OBVIOUS
  <1>1. TypeOK
    <2>1. /\ <<>> \in Seq(1..MaxMsg)
          /\ <<>> \in Seq([msg: 1..MaxMsg, to: Addrs])
      BY EmptySeq
    <2>2. /\ m_queue \in [Nodes -> Seq(1..MaxMsg)]
          /\ sent \in [Nodes -> Seq([msg: 1..MaxMsg, to: Addrs])]
      BY <2>1, Zenon DEF Init
    <2>3. /\ m_request \in [Nonce -> [dst: Nodes, retry: 1..Retry] \cup {NoRequest}]
          /\ drawn \in 0..MaxReq
          /\ pushed \in [Nodes -> 0..MaxMsg]
      BY DgramAssumption DEF Init
    <2> QED BY <2>2, <2>3, Zenon DEF Init, TypeOK
  <1>2. RequestAwaited
    BY DEF Init, RequestAwaited
  <1>3. AskedOnce
    <2>1. \A n \in Nonce : m_request[n] = NoRequest
      BY DEF Init
    <2>2. \A d \in Nodes : NoRequest.dst # d
      BY DgramAssumption DEF NoRequest
    <2> QED BY <2>1, <2>2 DEF Init, AskedOnce
  <1>4. NonceInv
    BY DEF Init, NonceInv
  <1> QED BY <1>1, <1>2, <1>3, <1>4 DEF DgramInv
-----------------------------------------------------------------------------
(* The queues. *)

\* What send_queue() leaves has the types of a queue and of what was sent.
LEMMA SendQueueType ==
    ASSUME TypeOK, NEW d \in Nodes, NEW queue \in Seq(1..MaxMsg),
           NEW map \in [Nodes -> Addrs \cup {NoAddr}], send_queue(d, queue, map)
    PROVE  /\ m_queue' = [m_queue EXCEPT ![d] = <<>>]
           /\ m_queue' \in [Nodes -> Seq(1..MaxMsg)]
           /\ sent' \in [Nodes -> Seq([msg: 1..MaxMsg, to: Addrs])]
  <1> DEFINE T == [msg: 1..MaxMsg, to: Addrs]
             out == [k \in DOMAIN queue |-> [msg |-> queue[k], to |-> map[d]]]
  <1>1. m_queue' = [m_queue EXCEPT ![d] = <<>>]
    BY DEF send_queue
  <1>2. m_queue' \in [Nodes -> Seq(1..MaxMsg)]
    BY <1>1, EmptySeq DEF TypeOK
  <1>3. sent' \in [Nodes -> Seq(T)]
    <2>1. CASE map[d] = NoAddr
      BY <2>1 DEF send_queue, TypeOK
    <2>2. CASE map[d] # NoAddr
      <3>1. sent' = [sent EXCEPT ![d] = sent[d] \o out]
        BY <2>2 DEF send_queue, TypeOK
      <3>2. Len(queue) \in Nat /\ DOMAIN queue = 1..Len(queue)
            /\ \A k \in 1..Len(queue) : queue[k] \in 1..MaxMsg
        BY LenProperties, ElementOfSeq
      <3>3. map[d] \in Addrs
        BY <2>2
      <3>4. out \in [1..Len(queue) -> T]
        BY <3>2, <3>3
      <3>5. out \in Seq(T)
        BY <3>2, <3>4, SeqDef
      <3>6. sent[d] \o out \in Seq(T)
        <4> HIDE DEF T, out
        <4>1. sent[d] \in Seq(T)
          BY DEF TypeOK, T
        <4> QED BY <3>5, <4>1, ConcatProperties
      <3> QED BY <3>1, <3>6 DEF TypeOK
    <2> QED BY <2>1, <2>2
  <1> QED BY <1>1, <1>2, <1>3

\* The queue with the datagram that send_dgram() was given.
LEMMA PushType ==
    ASSUME TypeOK, NEW d \in Nodes, pushed[d] < MaxMsg
    PROVE  /\ Append(m_queue[d], pushed[d] + 1) \in Seq(1..MaxMsg)
           /\ [pushed EXCEPT ![d] = @ + 1] \in [Nodes -> 0..MaxMsg]
           /\ [m_queue EXCEPT ![d] = Append(m_queue[d], pushed[d] + 1)]
                \in [Nodes -> Seq(1..MaxMsg)]
  <1>1. pushed[d] \in 0..MaxMsg /\ m_queue[d] \in Seq(1..MaxMsg)
    BY DEF TypeOK
  <1>2. pushed[d] + 1 \in 1..MaxMsg
    BY <1>1, DgramAssumption
  <1>3. Append(m_queue[d], pushed[d] + 1) \in Seq(1..MaxMsg)
    BY <1>1, <1>2, AppendProperties
  <1> QED BY <1>1, <1>2, <1>3 DEF TypeOK

\* add_node() keeps the type of the address cache.
LEMMA MapType ==
    ASSUME TypeOK, NEW d \in Nodes, NEW a \in Addrs \cup {NoAddr}
    PROVE  add_node(d, a) \in [Nodes -> Addrs \cup {NoAddr}]
  BY DEF add_node, TypeOK
-----------------------------------------------------------------------------
(* The lookups. *)

\* The request n is over: nobody asks for its node any more.
LEMMA CloseSafe ==
    ASSUME TypeOK, AskedOnce, NEW n \in Nonce, m_request[n] # NoRequest,
           m_request' = [m_request EXCEPT ![n] = NoRequest],
           m_requesting' = m_requesting \ {m_request[n].dst},
           m_queue' = [m_queue EXCEPT ![m_request[n].dst] = <<>>],
           finding_node' = finding_node
    PROVE  AskedOnce'
  <1> DEFINE d == m_request[n].dst
  <1>1. d \in Nodes
    BY OpenDst
  <1>2. \A e \in Nodes : NoRequest.dst # e
    BY DgramAssumption DEF NoRequest
  <1>3. \A k \in Nonce : k # n => m_request[k].dst # d
    BY DEF AskedOnce
  <1>4. d \notin finding_node
    BY <1>1 DEF AskedOnce
  <1>5. m_queue'[d] = <<>> /\ \A e \in Nodes : e # d => m_queue'[e] = m_queue[e]
    BY <1>1 DEF TypeOK
  <1>6. m_request'[n] = NoRequest /\ \A k \in Nonce : k # n => m_request'[k] = m_request[k]
    BY DEF TypeOK
  <1>7. ASSUME NEW e \in Nodes
        PROVE  /\ m_queue'[e] # <<>> => e \in m_requesting'
               /\ e \in m_requesting'
                    <=> (e \in finding_node' \/ \E k \in Nonce : m_request'[k].dst = e)
               /\ e \in finding_node' => \A k \in Nonce : m_request'[k].dst # e
    <2>1. CASE e = d
      <3>1. \A k \in Nonce : m_request'[k].dst # e
        BY <2>1, <1>1, <1>2, <1>3, <1>6
      <3> QED BY <2>1, <3>1, <1>4, <1>5
    <2>2. CASE e # d
      <3>1. \A k \in Nonce : m_request'[k].dst = e <=> m_request[k].dst = e
        BY <2>2, <1>2, <1>6
      <3>2. (e \in m_requesting' <=> e \in m_requesting) /\ m_queue'[e] = m_queue[e]
        BY <2>2, <1>5
      <3> QED BY <3>1, <3>2 DEF AskedOnce
    <2> QED BY <2>1, <2>2
  <1>8. ASSUME NEW j \in Nonce, NEW k \in Nonce,
               m_request'[j].dst = m_request'[k].dst, m_request'[j] # NoRequest
        PROVE  j = k
    <2>1. j # n /\ m_request'[j] = m_request[j] /\ m_request[j].dst \in Nodes
      BY <1>6, <1>8, OpenDst
    <2>2. k # n
      BY <1>2, <1>6, <1>8, <2>1
    <2> QED BY <1>6, <1>8, <2>1, <2>2 DEF AskedOnce
  <1> QED BY <1>7, <1>8 DEF AskedOnce

\* The DHT has looked for the node d.
LEMMA NodeFoundSafe ==
    ASSUME TypeOK, AskedOnce, NEW d \in finding_node,
           finding_node' = finding_node \ {d},
           m_requesting' = m_requesting \ {d},
           m_queue' = [m_queue EXCEPT ![d] = <<>>],
           m_request' = m_request
    PROVE  AskedOnce'
  <1>1. d \in Nodes /\ \A k \in Nonce : m_request[k].dst # d
    BY DEF AskedOnce, TypeOK
  <1>2. m_queue'[d] = <<>> /\ \A e \in Nodes : e # d => m_queue'[e] = m_queue[e]
    BY <1>1 DEF TypeOK
  <1>3. ASSUME NEW e \in Nodes
        PROVE  /\ m_queue'[e] # <<>> => e \in m_requesting'
               /\ e \in m_requesting'
                    <=> (e \in finding_node' \/ \E k \in Nonce : m_request'[k].dst = e)
               /\ e \in finding_node' => \A k \in Nonce : m_request'[k].dst # e
    <2>1. CASE e = d
      BY <2>1, <1>1, <1>2
    <2>2. CASE e # d
      BY <2>2, <1>2 DEF AskedOnce
    <2> QED BY <2>1, <2>2
  <1> QED BY <1>3 DEF AskedOnce

\* dtun::request() draws a nonce for a node that is not asked for.
LEMMA AskRequestSafe ==
    ASSUME TypeOK, AskedOnce, NonceInv, NEW d \in Nodes, d \notin m_requesting, NEW queue,
           drawn < MaxReq,
           m_request' = [m_request EXCEPT ![drawn + 1] = [dst |-> d, retry |-> Retry]],
           m_requesting' = m_requesting \cup {d},
           m_queue' = [m_queue EXCEPT ![d] = queue],
           finding_node' = finding_node
    PROVE  /\ AskedOnce'
           /\ drawn + 1 \in Nonce
           /\ m_request[drawn + 1] = NoRequest
           /\ m_request' \in [Nonce -> [dst: Nodes, retry: 1..Retry] \cup {NoRequest}]
           /\ m_request'[drawn + 1] # NoRequest
  <1> DEFINE n == drawn + 1
             r == [dst |-> d, retry |-> Retry]
  <1>1. n \in Nonce /\ n > drawn
    BY DgramAssumption DEF Nonce, TypeOK
  <1>2. m_request[n] = NoRequest
    BY <1>1 DEF NonceInv
  <1>3. r \in Open /\ r.dst = d /\ r # NoRequest /\ NoRequest.dst # d
    BY DgramAssumption DEF Open, NoRequest
  <1>4. m_request' \in [Nonce -> Open \cup {NoRequest}]
    BY <1>1, <1>3 DEF TypeOK, Open
  <1>5. m_request'[n] = r /\ \A k \in Nonce : k # n => m_request'[k] = m_request[k]
    BY <1>1 DEF TypeOK
  <1>6. d \notin finding_node /\ \A k \in Nonce : m_request[k].dst # d
    BY DEF AskedOnce
  <1>7. \A e \in Nodes : e # d => m_queue'[e] = m_queue[e]
    BY DEF TypeOK
  <1>8. \A e \in Nodes : NoRequest.dst # e
    BY DgramAssumption DEF NoRequest
  <1> HIDE DEF n, r
  <1>9. ASSUME NEW e \in Nodes
        PROVE  /\ m_queue'[e] # <<>> => e \in m_requesting'
               /\ e \in m_requesting'
                    <=> (e \in finding_node' \/ \E k \in Nonce : m_request'[k].dst = e)
               /\ e \in finding_node' => \A k \in Nonce : m_request'[k].dst # e
    <2>1. CASE e = d
      BY <2>1, <1>1, <1>3, <1>5, <1>6
    <2>2. CASE e # d
      <3>1. \A k \in Nonce : m_request'[k].dst = e <=> m_request[k].dst = e
        BY <2>2, <1>2, <1>3, <1>5, <1>8
      <3> QED BY <2>2, <3>1, <1>7 DEF AskedOnce
    <2> QED BY <2>1, <2>2
  <1>10. ASSUME NEW j \in Nonce, NEW k \in Nonce,
                m_request'[j].dst = m_request'[k].dst, m_request'[j] # NoRequest
         PROVE  j = k
    BY <1>3, <1>5, <1>6, <1>10 DEF AskedOnce
  <1>11. AskedOnce'
    BY <1>9, <1>10 DEF AskedOnce
  <1> QED BY <1>1, <1>2, <1>3, <1>4, <1>5, <1>11 DEF n, Open

\* dht::find_node() is called for a node that is not asked for.
LEMMA AskNodeSafe ==
    ASSUME TypeOK, AskedOnce, NEW d \in Nodes, d \notin m_requesting, NEW queue,
           finding_node' = finding_node \cup {d},
           m_requesting' = m_requesting \cup {d},
           m_queue' = [m_queue EXCEPT ![d] = queue],
           m_request' = m_request
    PROVE  AskedOnce'
  <1>1. \A k \in Nonce : m_request[k].dst # d
    BY DEF AskedOnce
  <1>2. \A e \in Nodes : e # d => m_queue'[e] = m_queue[e]
    BY DEF TypeOK
  <1>3. ASSUME NEW e \in Nodes
        PROVE  /\ m_queue'[e] # <<>> => e \in m_requesting'
               /\ e \in m_requesting'
                    <=> (e \in finding_node' \/ \E k \in Nonce : m_request'[k].dst = e)
               /\ e \in finding_node' => \A k \in Nonce : m_request'[k].dst # e
    <2>1. CASE e = d
      BY <2>1, <1>1
    <2>2. CASE e # d
      BY <2>2, <1>2 DEF AskedOnce
    <2> QED BY <2>1, <2>2
  <1> QED BY <1>3 DEF AskedOnce
-----------------------------------------------------------------------------
(* The operations. *)

\* send_dgram() of a datagram that waits, or that is sent at once.
LEMMA SendKnownSafe ==
    ASSUME DgramInv, NEW d \in Nodes, send_dgram(d),
           d \in m_requesting \/ m_map[d] # NoAddr
    PROVE  DgramInv'
  <1> DEFINE queue == Append(m_queue[d], pushed[d] + 1)
  <1>0. /\ pushed[d] < MaxMsg
        /\ pushed' = [pushed EXCEPT ![d] = @ + 1]
        /\ UNCHANGED <<m_requesting, dtun, finding_node, m_map, undef, remote, net>>
    BY DEF send_dgram
  <1>1. queue \in Seq(1..MaxMsg) /\ pushed' \in [Nodes -> 0..MaxMsg]
        /\ [m_queue EXCEPT ![d] = queue] \in [Nodes -> Seq(1..MaxMsg)]
    BY <1>0, PushType DEF DgramInv
  <1> HIDE DEF queue
  <1>2. /\ m_queue' \in [Nodes -> Seq(1..MaxMsg)]
        /\ sent' \in [Nodes -> Seq([msg: 1..MaxMsg, to: Addrs])]
        /\ m_queue' = [m_queue EXCEPT ![d] = m_queue'[d]]
        /\ m_queue'[d] # <<>> => d \in m_requesting
    <2>1. CASE d \in m_requesting
      <3>1. m_queue' = [m_queue EXCEPT ![d] = queue] /\ sent' = sent
        BY <2>1 DEF send_dgram, queue
      <3> QED BY <1>1, <2>1, <3>1 DEF DgramInv, TypeOK
    <2>2. CASE d \notin m_requesting
      <3>1. send_queue(d, queue, m_map)
        BY <2>2 DEF send_dgram, queue
      <3>2. m_map \in [Nodes -> Addrs \cup {NoAddr}]
        BY DEF DgramInv, TypeOK
      <3>3. /\ m_queue' = [m_queue EXCEPT ![d] = <<>>]
            /\ m_queue' \in [Nodes -> Seq(1..MaxMsg)]
            /\ sent' \in [Nodes -> Seq([msg: 1..MaxMsg, to: Addrs])]
        BY <1>1, <3>1, <3>2, SendQueueType DEF DgramInv
      <3> QED BY <3>3 DEF DgramInv, TypeOK
    <2> QED BY <2>1, <2>2
  <1>3. TypeOK'
    BY <1>0, <1>1, <1>2 DEF DgramInv, TypeOK, dtun, remote
  <1>4. RequestAwaited' /\ NonceInv'
    BY <1>0 DEF DgramInv, RequestAwaited, NonceInv, dtun
  <1>5. AskedOnce'
    <2>1. \A e \in Nodes : e # d => m_queue'[e] = m_queue[e]
      BY <1>2 DEF DgramInv, TypeOK
    <2>2. \A e \in Nodes : m_queue'[e] # <<>> => e \in m_requesting'
      BY <1>0, <1>2, <2>1 DEF DgramInv, AskedOnce
    <2> QED BY <1>0, <2>2 DEF DgramInv, AskedOnce, dtun
  <1> QED BY <1>3, <1>4, <1>5 DEF DgramInv

\* send_dgram() to a node that has to be asked for.
LEMMA SendAskSafe ==
    ASSUME DgramInv, NEW d \in Nodes, send_dgram(d), d \notin m_requesting, m_map[d] = NoAddr
    PROVE  DgramInv'
  <1> DEFINE queue == Append(m_queue[d], pushed[d] + 1)
  <1>0. /\ pushed[d] < MaxMsg
        /\ pushed' = [pushed EXCEPT ![d] = @ + 1]
        /\ AskFor(d, queue)
        /\ UNCHANGED <<m_map, undef, remote, net, sent>>
    BY DEF send_dgram, AskFor
  <1>1. queue \in Seq(1..MaxMsg) /\ pushed' \in [Nodes -> 0..MaxMsg]
        /\ [m_queue EXCEPT ![d] = queue] \in [Nodes -> Seq(1..MaxMsg)]
    BY <1>0, PushType DEF DgramInv
  <1>2. [m_queue EXCEPT ![d] = <<>>] \in [Nodes -> Seq(1..MaxMsg)]
    BY EmptySeq DEF DgramInv, TypeOK
  <1>3. TypeOK /\ AskedOnce /\ NonceInv /\ RequestAwaited
    BY DEF DgramInv
  <1> HIDE DEF queue
  <1>4. CASE /\ m_queue' = [m_queue EXCEPT ![d] = <<>>]
             /\ UNCHANGED <<m_requesting, dtun, finding_node>>
    <2>1. TypeOK'
      BY <1>0, <1>1, <1>2, <1>4 DEF DgramInv, TypeOK, dtun, remote
    <2>2. RequestAwaited' /\ NonceInv'
      BY <1>0, <1>4 DEF DgramInv, RequestAwaited, NonceInv, dtun
    <2>3. m_queue'[d] = <<>> /\ \A e \in Nodes : e # d => m_queue'[e] = m_queue[e]
      BY <1>4 DEF DgramInv, TypeOK
    <2>4. AskedOnce'
      BY <1>3, <1>4, <2>3 DEF AskedOnce, dtun
    <2> QED BY <2>1, <2>2, <2>4 DEF DgramInv
  <1>5. CASE /\ drawn < MaxReq
             /\ drawn' = drawn + 1
             /\ m_request' = [m_request EXCEPT ![drawn + 1] = [dst |-> d, retry |-> Retry]]
             /\ finding' = finding \cup {drawn + 1}
             /\ m_requesting' = m_requesting \cup {d}
             /\ m_queue' = [m_queue EXCEPT ![d] = queue]
             /\ UNCHANGED <<found, finding_node>>
    <2>1. /\ AskedOnce'
          /\ drawn + 1 \in Nonce
          /\ m_request[drawn + 1] = NoRequest
          /\ m_request' \in [Nonce -> [dst: Nodes, retry: 1..Retry] \cup {NoRequest}]
          /\ m_request'[drawn + 1] # NoRequest
      BY <1>3, <1>5, AskRequestSafe
    <2>2. drawn \in Nat /\ drawn' \in 0..MaxReq
      BY <1>3, <1>5, DgramAssumption DEF TypeOK
    <2>3. TypeOK'
      BY <1>0, <1>1, <1>3, <1>5, <2>1, <2>2 DEF TypeOK, remote
    <2>4. \A k \in Nonce : k # drawn + 1 => m_request'[k] = m_request[k]
      BY <1>3, <1>5 DEF TypeOK
    <2>5. RequestAwaited'
      BY <1>0, <1>3, <1>5, <2>1, <2>4 DEF RequestAwaited
    <2>6. NonceInv'
      <3>1. \A n \in Nonce : n > drawn' => m_request'[n] = NoRequest
        BY <1>3, <1>5, <2>2, <2>4 DEF NonceInv, Nonce
      <3>2. \A m \in net : m.nonce \in Nonce
        BY <1>3 DEF TypeOK, Message
      <3>3. \A m \in net : m.nonce <= drawn' /\ m.nonce \notin finding'
        BY <1>3, <1>5, <2>2, <3>2 DEF NonceInv, Nonce
      <3> QED BY <1>0, <3>1, <3>3 DEF NonceInv
    <2> QED BY <2>1, <2>3, <2>5, <2>6 DEF DgramInv
  <1>6. CASE /\ finding_node' = finding_node \cup {d}
             /\ m_requesting' = m_requesting \cup {d}
             /\ m_queue' = [m_queue EXCEPT ![d] = queue]
             /\ UNCHANGED dtun
    <2>1. AskedOnce'
      BY <1>3, <1>6, AskNodeSafe DEF dtun
    <2>2. TypeOK'
      BY <1>0, <1>1, <1>3, <1>6 DEF TypeOK, dtun, remote
    <2>3. RequestAwaited' /\ NonceInv'
      BY <1>0, <1>3, <1>6 DEF RequestAwaited, NonceInv, dtun
    <2> QED BY <2>1, <2>2, <2>3 DEF DgramInv
  <1> QED BY <1>0, <1>4, <1>5, <1>6 DEF AskFor

\* find_value() calls back without a result.
LEMMA FindFailsSafe ==
    ASSUME DgramInv, NEW n \in finding, FindFails(n)
    PROVE  DgramInv'
  <1> DEFINE q == m_request[n]
  <1>0. TypeOK /\ AskedOnce /\ NonceInv /\ RequestAwaited
    BY DEF DgramInv
  <1>1. n \in Nonce /\ q # NoRequest /\ q \in Open /\ q.dst \in Nodes
    BY <1>0, OpenDst DEF TypeOK, RequestAwaited
  <1>2. undef' = FALSE /\ UNCHANGED <<found, drawn, pushed, m_map, finding_node, remote, net>>
    BY <1>0, <1>1, Zenon DEF FindFails, RequestAwaited
  <1>3. CASE /\ q.retry > 1
             /\ m_request' = [m_request EXCEPT ![n].retry = @ - 1]
             /\ UNCHANGED <<finding, m_queue, m_requesting, sent>>
    <2> DEFINE r == [q EXCEPT !.retry = @ - 1]
    <2>1. r \in Open /\ r.dst = q.dst
      BY <1>1, <1>3, DgramAssumption DEF Open
    <2>2. r # NoRequest
      BY <2>1, DgramAssumption DEF Open, NoRequest
    <2>3. m_request' = [m_request EXCEPT ![n] = r]
      BY <1>3
    <2> HIDE DEF r, q
    <2>4. m_request' \in [Nonce -> Open \cup {NoRequest}]
      BY <1>0, <1>1, <2>1, <2>3 DEF TypeOK, Open
    <2>5. \A k \in Nonce : /\ m_request'[k].dst = m_request[k].dst
                           /\ m_request'[k] = NoRequest <=> m_request[k] = NoRequest
      BY <1>0, <1>1, <2>1, <2>2, <2>3 DEF TypeOK, q
    <2>6. TypeOK'
      BY <1>0, <1>2, <1>3, <2>4 DEF TypeOK, remote, Open
    <2>7. RequestAwaited'
      BY <1>0, <1>2, <1>3, <2>5 DEF RequestAwaited
    <2>8. AskedOnce'
      BY <1>0, <1>2, <1>3, <2>5 DEF AskedOnce
    <2>9. NonceInv'
      BY <1>0, <1>2, <1>3, <2>5 DEF NonceInv
    <2> QED BY <2>6, <2>7, <2>8, <2>9 DEF DgramInv
  <1>4. CASE /\ finding' = finding \ {n}
             /\ Erase(n)
             /\ RequestFailed(q.dst)
    <2>1. AskedOnce'
      BY <1>0, <1>1, <1>2, <1>4, CloseSafe DEF Erase, RequestFailed
    <2>2. TypeOK'
      <3>1. m_queue' \in [Nodes -> Seq(1..MaxMsg)]
        BY <1>0, <1>4, EmptySeq DEF TypeOK, RequestFailed
      <3>2. m_request' \in [Nonce -> Open \cup {NoRequest}]
        BY <1>0, <1>4 DEF TypeOK, Erase, Open
      <3> QED BY <1>0, <1>2, <1>4, <3>1, <3>2 DEF TypeOK, RequestFailed, remote, Open
    <2>3. m_request'[n] = NoRequest /\ \A k \in Nonce : k # n => m_request'[k] = m_request[k]
      BY <1>0, <1>1, <1>4 DEF TypeOK, Erase
    <2>4. RequestAwaited'
      BY <1>0, <1>1, <1>2, <1>4, <2>3 DEF RequestAwaited
    <2>5. NonceInv'
      BY <1>0, <1>1, <1>2, <1>4, <2>3 DEF NonceInv
    <2> QED BY <2>1, <2>2, <2>4, <2>5 DEF DgramInv
  <1> QED BY <1>3, <1>4 DEF FindFails

\* find_value() calls back with a holder.
LEMMA FindSucceedsSafe ==
    ASSUME DgramInv, NEW n \in finding, FindSucceeds(n)
    PROVE  DgramInv'
  <1> DEFINE q == m_request[n]
  <1>0. TypeOK /\ AskedOnce /\ NonceInv /\ RequestAwaited
    BY DEF DgramInv
  <1>1. n \in Nonce /\ q # NoRequest /\ q.dst \in Nodes
    BY <1>0, OpenDst DEF TypeOK, RequestAwaited
  <1>2. /\ undef' = FALSE
        /\ finding' = finding \ {n}
        /\ found' = found \cup {n}
        /\ net' = net \cup {Request(n, q.dst)}
        /\ UNCHANGED <<m_request, drawn, dgram, m_map, finding_node, remote>>
    BY <1>0, <1>1, Zenon DEF FindSucceeds, RequestAwaited
  <1>3. Request(n, q.dst) \in Message /\ Request(n, q.dst).nonce = n
    BY <1>1 DEF Request, Message
  <1>4. drawn \in Nat /\ n <= drawn
    BY <1>0, <1>1 DEF NonceInv, Nonce, TypeOK
  <1>5. TypeOK'
    BY <1>0, <1>1, <1>2, <1>3 DEF TypeOK, dgram, remote
  <1>6. RequestAwaited' /\ AskedOnce'
    BY <1>0, <1>1, <1>2 DEF RequestAwaited, AskedOnce, dgram
  <1>7. NonceInv'
    BY <1>0, <1>2, <1>3, <1>4 DEF NonceInv
  <1> QED BY <1>5, <1>6, <1>7 DEF DgramInv

\* The timer of a request is called.
LEMMA TimeoutSafe ==
    ASSUME DgramInv, NEW n \in found, timer_request(n)
    PROVE  DgramInv'
  <1> DEFINE q == m_request[n]
  <1>0. TypeOK /\ AskedOnce /\ NonceInv /\ RequestAwaited
    BY DEF DgramInv
  <1>1. n \in Nonce /\ q # NoRequest /\ q.dst \in Nodes
    BY <1>0, OpenDst DEF TypeOK, RequestAwaited
  <1>2. /\ undef' = FALSE
        /\ found' = found \ {n}
        /\ Erase(n)
        /\ RequestFailed(q.dst)
        /\ UNCHANGED <<drawn, finding, pushed, m_map, finding_node, remote, net>>
    BY <1>0, <1>1, Zenon DEF timer_request, RequestAwaited
  <1>3. AskedOnce'
    BY <1>0, <1>1, <1>2, CloseSafe DEF Erase, RequestFailed
  <1>4. TypeOK'
    <2>1. m_queue' \in [Nodes -> Seq(1..MaxMsg)]
      BY <1>0, <1>2, EmptySeq DEF TypeOK, RequestFailed
    <2>2. m_request' \in [Nonce -> Open \cup {NoRequest}]
      BY <1>0, <1>2 DEF TypeOK, Erase, Open
    <2> QED BY <1>0, <1>2, <2>1, <2>2 DEF TypeOK, RequestFailed, remote, Open
  <1>5. m_request'[n] = NoRequest /\ \A k \in Nonce : k # n => m_request'[k] = m_request[k]
    BY <1>0, <1>1, <1>2 DEF TypeOK, Erase
  <1>6. RequestAwaited' /\ NonceInv'
    BY <1>0, <1>1, <1>2, <1>5 DEF RequestAwaited, NonceInv
  <1> QED BY <1>3, <1>4, <1>6 DEF DgramInv

\* A reply, late or repeated or not, ends at most the request that it answers.
LEMMA ReplySafe ==
    ASSUME DgramInv, RecvReply
    PROVE  DgramInv'
  <1>0. TypeOK /\ AskedOnce /\ NonceInv /\ RequestAwaited
    BY DEF DgramInv
  <1>1. PICK m \in net : recv_request_reply(m) /\ net' = Left(m)
    BY DEF RecvReply
  <1>2. m \in Message
    BY <1>0 DEF TypeOK
  <1> DEFINE n == m.nonce
             d == m.dst
  <1>3. n \in Nonce /\ d \in Nodes /\ m.addr \in Addrs \cup {NoAddr}
    BY <1>2 DEF Message
  <1>4. m_request[n].dst = d /\ m_request[n] # NoRequest
    BY <1>0, <1>1, <1>3, OpenDst DEF recv_request_reply
  <1>5. /\ Erase(n)
        /\ found' = found \ {n}
        /\ m_map' = add_node(d, m.addr)
        /\ send_queue(d, m_queue[d], m_map')
        /\ m_requesting' = m_requesting \ {d}
        /\ UNCHANGED <<drawn, finding, pushed>>
    BY <1>1 DEF recv_request_reply, RequestEnds
  <1>6. net' \subseteq net /\ UNCHANGED <<finding_node, undef, remote>>
    BY <1>1 DEF RecvReply, Left
  <1> HIDE DEF n, d
  <1>7. m_map' \in [Nodes -> Addrs \cup {NoAddr}]
    BY <1>0, <1>3, <1>5, MapType
  <1>8. m_queue[d] \in Seq(1..MaxMsg)
    BY <1>0, <1>3 DEF TypeOK
  <1>9. /\ m_queue' = [m_queue EXCEPT ![d] = <<>>]
        /\ m_queue' \in [Nodes -> Seq(1..MaxMsg)]
        /\ sent' \in [Nodes -> Seq([msg: 1..MaxMsg, to: Addrs])]
    BY <1>0, <1>3, <1>5, <1>7, <1>8, SendQueueType
  <1>10. AskedOnce'
    BY <1>0, <1>3, <1>4, <1>5, <1>6, <1>9, CloseSafe DEF Erase
  <1>11. TypeOK'
    <2>1. m_request' \in [Nonce -> Open \cup {NoRequest}]
      BY <1>0, <1>5 DEF TypeOK, Erase, Open
    <2> QED BY <1>0, <1>5, <1>6, <1>7, <1>9, <2>1 DEF TypeOK, remote, Open
  <1>12. m_request'[n] = NoRequest /\ \A k \in Nonce : k # n => m_request'[k] = m_request[k]
    BY <1>0, <1>3, <1>5 DEF TypeOK, Erase
  <1>13. n \in found /\ n \notin finding
    BY <1>0, <1>3, <1>4 DEF NonceInv, RequestAwaited, n
  <1>14. RequestAwaited' /\ NonceInv'
    BY <1>0, <1>3, <1>5, <1>6, <1>12, <1>13 DEF RequestAwaited, NonceInv
  <1> QED BY <1>10, <1>11, <1>14 DEF DgramInv

\* find_node() calls back.
LEMMA FindNodeSafe ==
    ASSUME DgramInv, NEW d \in finding_node, find_node_func(d)
    PROVE  DgramInv'
  <1>0. TypeOK /\ AskedOnce /\ NonceInv /\ RequestAwaited
    BY DEF DgramInv
  <1>1. /\ finding_node' = finding_node \ {d}
        /\ send_queue(d, m_queue[d], m_map)
        /\ m_requesting' = m_requesting \ {d}
        /\ UNCHANGED <<pushed, dtun, m_map, undef, remote, net>>
    BY DEF find_node_func, RequestEnds
  <1>2. d \in Nodes /\ m_queue[d] \in Seq(1..MaxMsg) /\ m_map \in [Nodes -> Addrs \cup {NoAddr}]
    BY <1>0 DEF TypeOK
  <1>3. /\ m_queue' = [m_queue EXCEPT ![d] = <<>>]
        /\ m_queue' \in [Nodes -> Seq(1..MaxMsg)]
        /\ sent' \in [Nodes -> Seq([msg: 1..MaxMsg, to: Addrs])]
    BY <1>0, <1>1, <1>2, SendQueueType
  <1>4. AskedOnce'
    BY <1>0, <1>1, <1>3, NodeFoundSafe DEF dtun
  <1>5. TypeOK'
    BY <1>0, <1>1, <1>3 DEF TypeOK, dtun, remote
  <1>6. RequestAwaited' /\ NonceInv'
    BY <1>0, <1>1 DEF RequestAwaited, NonceInv, dtun
  <1> QED BY <1>4, <1>5, <1>6 DEF DgramInv

\* A request is passed on, and answered, under its nonce.
LEMMA PassedSafe ==
    ASSUME DgramInv, recv_request \/ recv_request_by
    PROVE  DgramInv'
  <1>0. TypeOK /\ AskedOnce /\ NonceInv /\ RequestAwaited
    BY DEF DgramInv
  <1>1. UNCHANGED <<dgram, dtun, m_map, finding_node, undef, remote>>
    BY DEF recv_request, recv_request_by
  <1>2. \E m \in net : net' \subseteq net \cup {RequestBy(m), RequestReply(m)}
    BY DEF recv_request, recv_request_by, Left
  <1>3. PICK m \in net : net' \subseteq net \cup {RequestBy(m), RequestReply(m)}
    BY <1>2
  <1>4. m \in Message /\ registered[m.dst] \in Addrs \cup {NoAddr}
    BY <1>0 DEF TypeOK, Message
  <1>5. /\ RequestBy(m) \in Message /\ RequestBy(m).nonce = m.nonce
        /\ RequestReply(m) \in Message /\ RequestReply(m).nonce = m.nonce
    BY <1>4 DEF RequestBy, RequestReply, Message
  <1>6. TypeOK'
    BY <1>0, <1>1, <1>3, <1>5 DEF TypeOK, dgram, dtun, remote
  <1>7. RequestAwaited' /\ AskedOnce'
    BY <1>0, <1>1 DEF RequestAwaited, AskedOnce, dgram, dtun
  <1>8. NonceInv'
    BY <1>0, <1>1, <1>3, <1>5 DEF NonceInv, dtun
  <1> QED BY <1>6, <1>7, <1>8 DEF DgramInv

\* The address cache and the other nodes change.
LEMMA AddressSafe ==
    ASSUME DgramInv,
           \/ \E d \in Nodes : recv_dgram(d)
           \/ refresh
           \/ RemoteChange
           \/ UNCHANGED vars
    PROVE  DgramInv'
  <1>0. TypeOK /\ AskedOnce /\ NonceInv /\ RequestAwaited
    BY DEF DgramInv
  <1>1. UNCHANGED <<dgram, dtun, finding_node, undef, domain, m_is_enabled, net>>
    BY DEF recv_dgram, refresh, RemoteChange, remote, vars
  <1>2. m_map' \in [Nodes -> Addrs \cup {NoAddr}]
    <2>1. CASE \E d \in Nodes : recv_dgram(d)
      <3>1. PICK d \in Nodes : m_map' = add_node(d, where[d])
        BY <2>1 DEF recv_dgram
      <3>2. where[d] \in Addrs \cup {NoAddr}
        BY <1>0 DEF TypeOK
      <3> QED BY <1>0, <3>1, <3>2, MapType
    <2>2. CASE refresh
      BY <1>0, <2>2 DEF refresh, TypeOK
    <2>3. CASE RemoteChange \/ UNCHANGED vars
      BY <1>0, <2>3 DEF RemoteChange, TypeOK, vars
    <2> QED BY <2>1, <2>2, <2>3
  <1>3. where' \in [Nodes -> Addrs] /\ registered' \in [Nodes -> Addrs \cup {NoAddr}]
    <2>1. CASE RemoteChange
      BY <1>0, <2>1 DEF RemoteChange, TypeOK
    <2>2. CASE (\E d \in Nodes : recv_dgram(d)) \/ refresh \/ UNCHANGED vars
      BY <1>0, <2>2 DEF recv_dgram, refresh, remote, TypeOK, vars
    <2> QED BY <2>1, <2>2
  <1>4. TypeOK'
    BY <1>0, <1>1, <1>2, <1>3 DEF TypeOK, dgram, dtun
  <1>5. RequestAwaited' /\ AskedOnce' /\ NonceInv'
    BY <1>0, <1>1 DEF RequestAwaited, AskedOnce, NonceInv, dgram, dtun
  <1> QED BY <1>4, <1>5 DEF DgramInv

\* Every step keeps the invariant.
LEMMA DgramStep == DgramInv /\ [Next]_vars => DgramInv'
  <1> SUFFICES ASSUME DgramInv, [Next]_vars PROVE DgramInv'
    OBVIOUS
  <1>1. CASE \E d \in Nodes : send_dgram(d)
    BY <1>1, SendKnownSafe, SendAskSafe
  <1>2. CASE FindEnds
    BY <1>2, FindFailsSafe, FindSucceedsSafe DEF FindEnds
  <1>3. CASE RequestTimeout
    BY <1>3, TimeoutSafe DEF RequestTimeout
  <1>4. CASE FindNodeEnds
    BY <1>4, FindNodeSafe DEF FindNodeEnds
  <1> QED
    BY <1>1, <1>2, <1>3, <1>4, ReplySafe, PassedSafe, AddressSafe DEF Next

\* Whatever is open has exactly one thing that will end it: no callback finds its
\* request gone, and no datagram waits for a node that nobody asks for any more.
THEOREM AwaitInvariance == Spec => []AwaitInv
  <1>1. Spec => []DgramInv
    BY DgramInit, DgramStep, PTL DEF Spec
  <1> QED BY <1>1, AwaitedByInv, PTL
-----------------------------------------------------------------------------
(* The order of the datagrams. *)

Num == 1..MaxMsg
Sent == [msg: Num, to: Addrs]

\* The datagrams of what was sent, and all that left or wait.
Msgs(s) == [k \in DOMAIN s |-> s[k].msg]
Given(d) == Msgs(sent[d]) \o m_queue[d]

\* s grows and does not go beyond b.
Ordered(s, b) ==
    /\ \A j, k \in DOMAIN s : j < k => s[j] < s[k]
    /\ \A k \in DOMAIN s : s[k] <= b

\* The inductive form of InOrder.
OrderInv == \A d \in Nodes : Ordered(Given(d), pushed[d])

\* What Msgs() gives.
LEMMA MsgsSeq ==
    ASSUME NEW s \in Seq(Sent)
    PROVE  /\ Msgs(s) \in Seq(Num)
           /\ Len(Msgs(s)) = Len(s)
           /\ \A k \in 1..Len(s) : Msgs(s)[k] = s[k].msg
  <1>1. Len(s) \in Nat /\ DOMAIN s = 1..Len(s) /\ \A k \in 1..Len(s) : s[k] \in Sent
    BY LenProperties, ElementOfSeq
  <1>2. \A k \in 1..Len(s) : s[k].msg \in Num
    BY <1>1 DEF Sent
  <1>3. Msgs(s) \in [1..Len(s) -> Num] /\ DOMAIN Msgs(s) = 1..Len(s)
    BY <1>1, <1>2 DEF Msgs
  <1>4. Msgs(s) \in Seq(Num)
    BY <1>1, <1>3, SeqDef
  <1>5. Len(Msgs(s)) = Len(s)
    BY <1>1, <1>3, <1>4, LenProperties
  <1> QED BY <1>1, <1>4, <1>5 DEF Msgs

\* The datagrams of a queue that is sent follow those that left before.
LEMMA MsgsConcat ==
    ASSUME NEW s \in Seq(Sent), NEW queue \in Seq(Num), NEW a \in Addrs
    PROVE  Msgs(s \o [k \in DOMAIN queue |-> [msg |-> queue[k], to |-> a]]) = Msgs(s) \o queue
  <1> DEFINE out == [k \in DOMAIN queue |-> [msg |-> queue[k], to |-> a]]
  <1>1. Len(queue) \in Nat /\ DOMAIN queue = 1..Len(queue)
        /\ \A k \in 1..Len(queue) : queue[k] \in Num
    BY LenProperties, ElementOfSeq
  <1>2. out \in [1..Len(queue) -> Sent]
    BY <1>1 DEF Sent
  <1>3. out \in Seq(Sent)
    BY <1>1, <1>2, SeqDef
  <1>4. Len(out) = Len(queue) /\ \A k \in 1..Len(queue) : out[k].msg = queue[k]
    <2>1. DOMAIN out = 1..Len(queue)
      BY <1>1
    <2>2. Len(out) = Len(queue)
      BY <1>1, <1>3, <2>1, LenProperties
    <2> QED BY <1>1, <2>2
  <1> HIDE DEF out
  <1>5. /\ s \o out \in Seq(Sent)
        /\ Len(s \o out) = Len(s) + Len(queue)
        /\ \A k \in 1..(Len(s) + Len(queue)) :
             (s \o out)[k] = IF k <= Len(s) THEN s[k] ELSE out[k - Len(s)]
    <2>1. /\ s \o out \in Seq(Sent)
          /\ Len(s \o out) = Len(s) + Len(out)
          /\ \A k \in 1..(Len(s) + Len(out)) :
               (s \o out)[k] = IF k <= Len(s) THEN s[k] ELSE out[k - Len(s)]
      BY <1>3, ConcatProperties
    <2> QED BY <1>4, <2>1
  <1>6. /\ Msgs(s \o out) \in Seq(Num)
        /\ Len(Msgs(s \o out)) = Len(s) + Len(queue)
        /\ \A k \in 1..(Len(s) + Len(queue)) : Msgs(s \o out)[k] = (s \o out)[k].msg
    BY <1>5, MsgsSeq
  <1>7. /\ Msgs(s) \in Seq(Num) /\ Len(Msgs(s)) = Len(s)
        /\ \A k \in 1..Len(s) : Msgs(s)[k] = s[k].msg
    BY MsgsSeq
  <1>8. /\ Msgs(s) \o queue \in Seq(Num)
        /\ Len(Msgs(s) \o queue) = Len(s) + Len(queue)
        /\ \A k \in 1..(Len(s) + Len(queue)) :
             (Msgs(s) \o queue)[k] = IF k <= Len(s) THEN Msgs(s)[k] ELSE queue[k - Len(s)]
    BY <1>7, ConcatProperties
  <1>9. Len(s) \in Nat
    BY LenProperties
  <1>10. ASSUME NEW k \in 1..(Len(s) + Len(queue))
         PROVE  Msgs(s \o out)[k] = (Msgs(s) \o queue)[k]
    <2>1. CASE k <= Len(s)
      <3>1. k \in 1..Len(s)
        BY <1>9, <2>1
      <3> QED BY <1>5, <1>6, <1>7, <1>8, <2>1, <3>1
    <2>2. CASE ~ (k <= Len(s))
      <3>1. k - Len(s) \in 1..Len(queue)
        BY <1>1, <1>9, <2>2
      <3> QED BY <1>4, <1>5, <1>6, <1>8, <2>2, <3>1
    <2> QED BY <2>1, <2>2
  <1>11. Msgs(s \o out) = Msgs(s) \o queue
    BY <1>6, <1>8, <1>10, SeqEqual
  <1> QED BY <1>11 DEF out

\* What is put behind the second of two sequences is behind both.
LEMMA ConcatAppend ==
    ASSUME NEW s \in Seq(Num), NEW t \in Seq(Num), NEW x \in Num
    PROVE  s \o Append(t, x) = Append(s \o t, x)
  <1>1. Len(s) \in Nat /\ Len(t) \in Nat
    BY LenProperties
  <1>2. /\ Append(t, x) \in Seq(Num)
        /\ Len(Append(t, x)) = Len(t) + 1
        /\ \A k \in 1..Len(t) : Append(t, x)[k] = t[k]
        /\ Append(t, x)[Len(t) + 1] = x
    BY AppendProperties
  <1>3. /\ s \o t \in Seq(Num)
        /\ Len(s \o t) = Len(s) + Len(t)
        /\ \A k \in 1..(Len(s) + Len(t)) :
             (s \o t)[k] = IF k <= Len(s) THEN s[k] ELSE t[k - Len(s)]
    BY ConcatProperties
  <1>4. /\ s \o Append(t, x) \in Seq(Num)
        /\ Len(s \o Append(t, x)) = Len(s) + Len(Append(t, x))
        /\ \A k \in 1..(Len(s) + Len(Append(t, x))) :
             (s \o Append(t, x))[k] = IF k <= Len(s) THEN s[k] ELSE Append(t, x)[k - Len(s)]
    BY <1>2, ConcatProperties
  <1>5. /\ Append(s \o t, x) \in Seq(Num)
        /\ Len(Append(s \o t, x)) = Len(s \o t) + 1
        /\ \A k \in 1..Len(s \o t) : Append(s \o t, x)[k] = (s \o t)[k]
        /\ Append(s \o t, x)[Len(s \o t) + 1] = x
    BY <1>3, AppendProperties
  <1>6. Len(s \o Append(t, x)) = Len(s) + Len(t) + 1 /\ Len(Append(s \o t, x)) = Len(s) + Len(t) + 1
    BY <1>1, <1>2, <1>3, <1>4, <1>5
  <1>7. ASSUME NEW k \in 1..(Len(s) + Len(t) + 1)
        PROVE  (s \o Append(t, x))[k] = Append(s \o t, x)[k]
    <2>1. CASE k = Len(s) + Len(t) + 1
      <3>1. (s \o Append(t, x))[k] = Append(t, x)[Len(t) + 1]
        BY <1>1, <1>2, <1>4, <2>1
      <3> QED BY <1>2, <1>3, <1>5, <2>1, <3>1
    <2>2. CASE k # Len(s) + Len(t) + 1
      <3>1. k \in 1..(Len(s) + Len(t)) /\ Append(s \o t, x)[k] = (s \o t)[k]
        BY <1>1, <1>3, <1>5, <2>2
      <3>2. k > Len(s) => k - Len(s) \in 1..Len(t) /\ Append(t, x)[k - Len(s)] = t[k - Len(s)]
        BY <1>1, <1>2, <3>1
      <3> QED BY <1>1, <1>2, <1>3, <1>4, <3>1, <3>2
    <2> QED BY <2>1, <2>2
  <1> QED BY <1>4, <1>5, <1>6, <1>7, SeqEqual

\* A number beyond the bound may follow.
LEMMA OrderedAppend ==
    ASSUME NEW s \in Seq(Num), NEW b \in Nat, b + 1 \in Num, Ordered(s, b)
    PROVE  Ordered(Append(s, b + 1), b + 1)
  <1>1. /\ Len(s) \in Nat /\ DOMAIN s = 1..Len(s)
        /\ \A k \in 1..Len(s) : s[k] \in Num
    BY LenProperties, ElementOfSeq
  <1>2. /\ Append(s, b + 1) \in Seq(Num)
        /\ Len(Append(s, b + 1)) = Len(s) + 1
        /\ \A k \in 1..Len(s) : Append(s, b + 1)[k] = s[k]
        /\ Append(s, b + 1)[Len(s) + 1] = b + 1
    BY AppendProperties
  <1>3. DOMAIN Append(s, b + 1) = 1..(Len(s) + 1)
    BY <1>2, LenProperties
  <1>4. \A k \in 1..(Len(s) + 1) : k \in 1..Len(s) \/ k = Len(s) + 1
    BY <1>1
  <1>5. \A k \in 1..Len(s) : s[k] <= b /\ s[k] \in Nat
    BY <1>1 DEF Ordered, Num
  <1> QED BY <1>1, <1>2, <1>3, <1>4, <1>5 DEF Ordered

\* What is left of the front is ordered, by a greater bound too.
LEMMA OrderedPrefix ==
    ASSUME NEW s \in Seq(Num), NEW t \in Seq(Num), NEW b \in Nat, NEW c \in Nat, b <= c,
           Ordered(s \o t, b)
    PROVE  Ordered(s, c) /\ Ordered(s \o t, c)
  <1>1. Len(s) \in Nat /\ DOMAIN s = 1..Len(s) /\ Len(t) \in Nat
    BY LenProperties
  <1>2. /\ s \o t \in Seq(Num)
        /\ Len(s \o t) = Len(s) + Len(t)
        /\ \A k \in 1..(Len(s) + Len(t)) :
             (s \o t)[k] = IF k <= Len(s) THEN s[k] ELSE t[k - Len(s)]
    BY ConcatProperties
  <1>3. DOMAIN (s \o t) = 1..(Len(s) + Len(t))
    BY <1>2, LenProperties
  <1>4. \A k \in 1..(Len(s) + Len(t)) : (s \o t)[k] \in Nat
    <2>1. \A k \in 1..(Len(s) + Len(t)) : (s \o t)[k] \in Num
      BY <1>2, ElementOfSeq
    <2> QED BY <2>1 DEF Num
  <1>5. \A k \in 1..Len(s) : k \in 1..(Len(s) + Len(t)) /\ (s \o t)[k] = s[k]
    BY <1>1, <1>2
  <1> QED BY <1>1, <1>3, <1>4, <1>5 DEF Ordered

\* The types of what the order is about.
LEMMA GivenType ==
    ASSUME TypeOK, NEW d \in Nodes
    PROVE  /\ sent[d] \in Seq(Sent) /\ m_queue[d] \in Seq(Num)
           /\ Msgs(sent[d]) \in Seq(Num) /\ Given(d) \in Seq(Num)
           /\ pushed[d] \in Nat
  <1>1. sent[d] \in Seq(Sent) /\ m_queue[d] \in Seq(Num) /\ pushed[d] \in Nat
    <2>1. sent[d] \in Seq(Sent) /\ m_queue[d] \in Seq(Num)
      BY Zenon DEF TypeOK, Sent, Num
    <2> QED BY <2>1 DEF TypeOK
  <1>2. Msgs(sent[d]) \in Seq(Num)
    BY <1>1, MsgsSeq
  <1> QED BY <1>1, <1>2, ConcatProperties DEF Given

\* send_queue() sends what waits behind what left before, or drops it.
LEMMA SendQueueOrder ==
    ASSUME TypeOK, NEW d \in Nodes, NEW queue \in Seq(Num),
           NEW map \in [Nodes -> Addrs \cup {NoAddr}], send_queue(d, queue, map)
    PROVE  Given(d)' = Msgs(sent[d]) \o queue \/ Given(d)' = Msgs(sent[d])
  <1>1. Msgs(sent[d]) \in Seq(Num) /\ sent[d] \in Seq(Sent)
    BY GivenType
  <1>2. m_queue'[d] = <<>>
    BY DEF send_queue, TypeOK
  <1>3. CASE map[d] = NoAddr
    <2>1. Given(d)' = Msgs(sent[d]) \o <<>>
      BY <1>2, <1>3 DEF send_queue, Given
    <2> QED BY <1>1, <2>1, ConcatEmptySeq
  <1>4. CASE map[d] # NoAddr
    <2> DEFINE out == [k \in DOMAIN queue |-> [msg |-> queue[k], to |-> map[d]]]
    <2>1. sent'[d] = sent[d] \o out
      BY <1>4 DEF send_queue, TypeOK
    <2>2. map[d] \in Addrs
      BY <1>4
    <2>3. Msgs(sent[d] \o out) = Msgs(sent[d]) \o queue
      BY <1>1, <2>2, MsgsConcat
    <2> HIDE DEF out
    <2>4. Given(d)' = (Msgs(sent[d]) \o queue) \o <<>>
      BY <1>2, <2>1, <2>3 DEF Given
    <2>5. Msgs(sent[d]) \o queue \in Seq(Num)
      BY <1>1, ConcatProperties
    <2> QED BY <2>4, <2>5, ConcatEmptySeq
  <1> QED BY <1>3, <1>4

\* A step that gives no datagram to d keeps the order of d: it leaves what left or
\* waits alone, or drops what waits.
LEMMA OrderKept ==
    ASSUME TypeOK, NEW d \in Nodes, Ordered(Given(d), pushed[d]), pushed'[d] \in Nat,
           pushed[d] <= pushed'[d],
           Given(d)' = Given(d) \/ Given(d)' = Msgs(sent[d])
    PROVE  Ordered(Given(d)', pushed'[d])
  BY GivenType, OrderedPrefix DEF Given

\* A request that is over empties the queue of its node.
LEMMA EndsOrder ==
    ASSUME TypeOK, OrderInv, pushed' = pushed, NEW d \in Nodes,
           \/ RequestFailed(d)
           \/ \E map \in [Nodes -> Addrs \cup {NoAddr}] : RequestEnds(d, map)
    PROVE  OrderInv'
  <1>1. \A e \in Nodes : e # d => sent'[e] = sent[e] /\ m_queue'[e] = m_queue[e]
    BY DEF RequestFailed, RequestEnds, send_queue, TypeOK
  <1>2. Given(d)' = Given(d) \/ Given(d)' = Msgs(sent[d])
    <2>1. CASE RequestFailed(d)
      <3>1. m_queue'[d] = <<>> /\ sent' = sent
        BY <2>1 DEF RequestFailed, TypeOK
      <3>2. Given(d)' = Msgs(sent[d]) \o <<>>
        BY <3>1 DEF Given
      <3> QED BY <3>2, GivenType, ConcatEmptySeq
    <2>2. CASE \E map \in [Nodes -> Addrs \cup {NoAddr}] : RequestEnds(d, map)
      BY <2>2, GivenType, SendQueueOrder DEF RequestEnds, Given
    <2> QED BY <2>1, <2>2
  <1>3. ASSUME NEW e \in Nodes
        PROVE  Ordered(Given(e)', pushed'[e])
    <2>1. Given(e)' = Given(e) \/ Given(e)' = Msgs(sent[e])
      BY <1>1, <1>2 DEF Given
    <2>2. pushed'[e] \in Nat /\ pushed[e] <= pushed'[e]
      BY GivenType
    <2>3. Ordered(Given(e), pushed[e])
      BY DEF OrderInv
    <2> QED BY <2>1, <2>2, <2>3, OrderKept
  <1> QED BY <1>3 DEF OrderInv

\* send_dgram() puts its datagram last.
LEMMA SendOrder ==
    ASSUME TypeOK, OrderInv, NEW d \in Nodes, send_dgram(d)
    PROVE  OrderInv'
  <1> DEFINE x == pushed[d] + 1
             queue == Append(m_queue[d], x)
  <1>1. /\ sent[d] \in Seq(Sent) /\ m_queue[d] \in Seq(Num)
        /\ Msgs(sent[d]) \in Seq(Num) /\ Given(d) \in Seq(Num)
        /\ pushed[d] \in Nat
    BY GivenType
  <1>2. pushed'[d] = x /\ x \in Num /\ \A e \in Nodes : e # d => pushed'[e] = pushed[e]
    BY <1>1, DgramAssumption DEF send_dgram, TypeOK, Num
  <1>3. queue \in Seq(Num)
    BY <1>1, <1>2, AppendProperties
  <1>4. \A e \in Nodes : e # d => sent'[e] = sent[e] /\ m_queue'[e] = m_queue[e]
    BY DEF send_dgram, AskFor, send_queue, TypeOK
  <1>5. Msgs(sent[d]) \o queue = Append(Given(d), x)
    BY <1>1, <1>2, ConcatAppend DEF Given
  <1>6. Given(d)' = Append(Given(d), x) \/ Given(d)' = Msgs(sent[d])
    <2>1. CASE d \notin m_requesting /\ m_map[d] # NoAddr
      <3>1. send_queue(d, queue, m_map) /\ m_map \in [Nodes -> Addrs \cup {NoAddr}]
        BY <2>1 DEF send_dgram, TypeOK
      <3> QED BY <1>3, <1>5, <3>1, SendQueueOrder
    <2>2. CASE ~ (d \notin m_requesting /\ m_map[d] # NoAddr)
      <3>1. /\ sent' = sent
            /\ \/ m_queue' = [m_queue EXCEPT ![d] = queue]
               \/ m_queue' = [m_queue EXCEPT ![d] = <<>>]
        BY <2>2 DEF send_dgram, AskFor
      <3>2. m_queue'[d] = queue \/ m_queue'[d] = <<>>
        BY <3>1 DEF TypeOK
      <3> HIDE DEF queue
      <3>3. Given(d)' = Msgs(sent[d]) \o queue \/ Given(d)' = Msgs(sent[d]) \o <<>>
        BY <3>1, <3>2 DEF Given
      <3> QED BY <1>1, <1>5, <3>3, ConcatEmptySeq
    <2> QED BY <2>1, <2>2
  <1>7. Ordered(Given(d), pushed[d])
    BY DEF OrderInv
  <1>8. Ordered(Given(d)', pushed'[d])
    <2>1. CASE Given(d)' = Append(Given(d), x)
      BY <1>1, <1>2, <1>7, <2>1, OrderedAppend
    <2>2. CASE Given(d)' = Msgs(sent[d])
      <3>1. pushed'[d] \in Nat /\ pushed[d] <= pushed'[d]
        BY <1>1, <1>2
      <3> QED BY <1>7, <2>2, <3>1, OrderKept
    <2> QED BY <1>6, <2>1, <2>2
  <1>9. \A e \in Nodes : e # d => Ordered(Given(e)', pushed'[e])
    BY <1>2, <1>4 DEF OrderInv, Given
  <1> QED BY <1>8, <1>9 DEF OrderInv

\* Every step keeps the order.
LEMMA OrderStep == DgramInv /\ OrderInv /\ [Next]_vars => OrderInv'
  <1> SUFFICES ASSUME DgramInv, OrderInv, [Next]_vars PROVE OrderInv'
    OBVIOUS
  <1>0. TypeOK /\ RequestAwaited
    BY DEF DgramInv
  <1>1. CASE \E d \in Nodes : send_dgram(d)
    BY <1>0, <1>1, SendOrder
  <1>2. CASE \E n \in Nonce : FindFails(n) \/ timer_request(n)
    <2>1. PICK n \in Nonce : FindFails(n) \/ timer_request(n)
      BY <1>2
    <2>2. m_request[n].dst \in Nodes
      BY <1>0, <2>1, OpenDst DEF FindFails, timer_request, RequestAwaited
    <2>3. CASE RequestFailed(m_request[n].dst)
      BY <1>0, <2>1, <2>2, <2>3, EndsOrder DEF FindFails, timer_request
    <2>4. CASE UNCHANGED <<m_queue, sent, pushed>>
      BY <2>4 DEF OrderInv, Given
    <2> QED BY <2>1, <2>3, <2>4 DEF FindFails, timer_request
  <1>3. CASE RecvReply
    <2>1. PICK m \in net : recv_request_reply(m)
      BY <1>3 DEF RecvReply
    <2>2. m.dst \in Nodes /\ m.addr \in Addrs \cup {NoAddr}
      BY <1>0 DEF TypeOK, Message
    <2>3. m_map' \in [Nodes -> Addrs \cup {NoAddr}]
      BY <1>0, <2>1, <2>2, MapType DEF recv_request_reply
    <2> QED BY <1>0, <2>1, <2>2, <2>3, EndsOrder DEF recv_request_reply
  <1>4. CASE FindNodeEnds
    <2>1. PICK d \in finding_node : find_node_func(d)
      BY <1>4 DEF FindNodeEnds
    <2>2. d \in Nodes /\ m_map \in [Nodes -> Addrs \cup {NoAddr}]
      BY <1>0 DEF TypeOK
    <2> QED BY <1>0, <2>1, <2>2, EndsOrder DEF find_node_func
  <1>5. CASE UNCHANGED dgram
    BY <1>5 DEF OrderInv, Given, dgram
  <1>6. /\ FindEnds => UNCHANGED dgram \/ \E n \in Nonce : FindFails(n)
        /\ RequestTimeout => \E n \in Nonce : timer_request(n)
    BY <1>0 DEF FindEnds, RequestTimeout, FindSucceeds, TypeOK
  <1>7. /\ (\E d \in Nodes : recv_dgram(d)) => UNCHANGED dgram
        /\ refresh => UNCHANGED dgram
        /\ recv_request => UNCHANGED dgram
        /\ recv_request_by => UNCHANGED dgram
        /\ RemoteChange => UNCHANGED dgram
        /\ UNCHANGED vars => UNCHANGED dgram
    BY DEF recv_dgram, refresh, recv_request, recv_request_by, RemoteChange, vars
  <1> QED BY <1>1, <1>2, <1>3, <1>4, <1>5, <1>6, <1>7 DEF Next

\* The initial states satisfy the order.
LEMMA OrderInit == Init => OrderInv
  <1> SUFFICES ASSUME Init, NEW d \in Nodes PROVE Ordered(Given(d), pushed[d])
    BY DEF OrderInv
  <1>1. sent[d] = <<>> /\ m_queue[d] = <<>>
    BY DEF Init
  <1>2. <<>> \in Seq(Sent) /\ <<>> \in Seq(Num)
    BY EmptySeq
  <1>3. Msgs(<<>>) \in Seq(Num) /\ Len(Msgs(<<>>)) = 0
    BY <1>2, MsgsSeq, EmptySeq
  <1>4. Given(d) \in Seq(Num) /\ Len(Given(d)) = 0
    BY <1>1, <1>2, <1>3, ConcatProperties, EmptySeq DEF Given
  <1>5. DOMAIN Given(d) = {}
    BY <1>4, LenProperties
  <1> QED BY <1>5 DEF Ordered

\* The datagrams to a node leave in the order in which send_dgram() was given them,
\* none of them twice, whichever of the queue, the cache and the lookups they wait for.
THEOREM OrderInvariance == Spec => []InOrder
  <1>1. OrderInv => InOrder
    BY DEF OrderInv, InOrder, Ordered, Given, Msgs
  <1>2. Spec => [](DgramInv /\ OrderInv)
    BY DgramInit, DgramStep, OrderInit, OrderStep, PTL DEF Spec
  <1> QED BY <1>1, <1>2, PTL
=============================================================================
