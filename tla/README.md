# A verification of the OpenMonitor iOS agent and libcage

The repository is the iOS agent of OpenMonitor: an app (`src/icm-ios-agent`) that
watches websites and services and reports to an aggregator, and `libcage`
(`src/libcage`), the C++ peer-to-peer library it carries: reliable datagrams, NAT
detection, a tunnel network and a DHT, single-threaded on libevent. This directory
holds TLA+ modules translated from that code, the TLC runs that check them on small
instances, and TLAPS proofs of what matters most for every size.

`PROJECT.json` lists components, runs, mutants, the lines each definition models,
hazards and theorems. Every module runs with `tlc -config X.cfg MCModule`;
the proofs are checked with `tlapm XProofs.tla`, for `Rdp` (`RdpStream` and `RdpConn`),
`NatDetector`, `Proxy` (with `DtunRegister`), `ProxyGet` (with `DhtQuery`, `DtunQuery`,
`RtTable` and `NodeId`), `DhtStore`, `Dgram`, `Peers` (with `Advertise`) and `Agent`. Every
safety property of the runs is proved; liveness is left to TLC.

## 1. Inventory

### libcage

All of it runs in one thread. A handler (a datagram, a timer, a call of the
application) runs to its end before the next one starts, so one handler is one action;
interleaving comes from the network, from timers, and from callbacks that a call makes
before it returns.

| component | state | operations | what is hard | what makes it correct |
|---|---|---|---|---|
| `rdp` data transfer | two rings (`m_swnd`, `m_rwnd`), their marks and counters, `snd_*`, `rcv_*`, `rqueue` | send, receive, recv_ack, recv_eack, rwnd_recv_data, delayed_ack, retransmit | loss, repetition, reordering, wrapping numbers, ring marks that mean empty and full | a FIFO channel; rings hold exactly what is outstanding; nothing acknowledged is lost |
| `rdp` life cycle | one record per port pair: state, numbers, timeouts; listeners | connect, listen, close, `in_state_*`, timer_rdp, events | old datagrams of an earlier connection, half-open records, retries against late answers | both sides agree when both are open; events come once; every handshake ends |
| `rdp` descriptors | `m_desc_set`, `m_desc2conn`, `m_desc2event`, `m_is_invoke` | generate_desc, invoke_event, close inside a callback | tables changed while they are gone through | not modelled |
| `natdetector` | `m_state`, timers, second sockets, first replies, `timer_nat` | detect, the replies, the timers, udp_receiver | late replies, timers of an earlier attempt, stray datagrams | the answer is true of the network and kept; no wait without an end |
| `rttable` | rows of nodes, `m_nodes`, pings | add, remove, ping, lookup, merge_nodes | a removal between a ping and its end | one ping to a row; lookup gives the closest nodes |
| `dtun` lookups | `m_query` with its timers, counters and node list | find_node, find_value, send_find, replies, timers | late and repeated replies, counters | ends once, with the closest nodes or with the value |
| `dtun` requests | `m_request`, its timer and retries | request, recv_request, recv_request_by, recv_request_reply | a reply between the timer and the lookup's callback | no callback finds its request gone |
| `dtun` registrations | `m_registered_nodes`, `m_registering` | register_node, recv_register, refresh | restarts with a new session, moves, late registrations | the holder follows the node; nobody else takes the entry |
| `dgram` | a queue for each destination, `m_requesting` | send_dgram, request, its callbacks, recv_dgram | callbacks before the return, addresses that expire | order kept; no datagram waits for ever |
| `peers`, `advertise` | the address map, timed-out nodes; advertisements under way | add_node, refresh, add_timeout; advertise_to, its answer and timer | the bimap keeps old entries; sessions; moves and restarts | ages are honest; the other node gets to know where this one is |
| `dht` lookups | `m_query`: timers, counters, the holders that wait, the connection and its values | find_node, find_value, replies, rdp_get_func, sweep_rdp | late replies, connections that break or hang, several holders | ends once; the values are those of one holder, all of them |
| `dht` storage | `m_stored`: entries with owner, ttl, count of puts and those who have it; transfers | store, its lookup, store2local, restore, refresh, the removal | nodes that crash and start, transfers that end late, values that reads left uninitialised | the closest nodes have the value; nobody takes it over; it ends |
| `proxy` | registrations of nodes behind a symmetric NAT; `m_getdata` and the connections of gets | register and its reply, get by proxy, the reply, sweep_rdp | late replies, restarts of either side, a timer against a reply | the proxy follows its clients; every get is answered, by what the DHT has |
| `cage`, `udphandler`, `packetbuf`, `timer`, `cagetime` | none of their own, or input and output | dispatch, sockets, timer list | | their effect is what the other models take as given |

Interactions: `cage` dispatches datagrams by type. `dgram` looks into `peers`, asks
`dtun::request` or `dht::find_node`, and is the transport below `rdp`. `dtun` and `dht`
feed `rttable`, `rttable` reports silent nodes to `peers`, `natdetector` decides whether
a node joins the DHT or registers with a `proxy`. Callbacks are function objects kept in
queries and requests.

### The app

| component | state | operations | what is hard | what makes it correct |
|---|---|---|---|---|
| session (`ICMAggregatorEngine`, root view, login form, settings) | the agent's identity, in memory and in the defaults; the login form | register, login in two steps, logout | blocks that are called late and in any order, taps in between, the app ended anywhere | an app without identity shows the form; one registration; every login is answered |
| updater (`ICMUpdater`) | checks under way | timers, results, reports | a report after a logout | no report without identity, but for the known race |
| views, Core Data, crypto, encodings | | | | presentation, the system's frameworks: not modelled |

Vendored and generated code (MKNetworkKit, CocoaAsyncSocket, boost, protobuf and the
message classes) is left out. The test target is empty, and there are no documents
besides a one-line README: what the code promises is in its comments, of which those in
`rdp.cpp` (the pseudo code of RFC 908) say most.

## 2. Modules

| module | models | |
|---|---|---|
| `RdpChannel` | what an open connection promises | a FIFO queue; liveness: what is accepted is delivered, or the sender is told |
| `RdpStream` | `rdp_con` in `OPEN`, both ends of one direction | implements `RdpChannel` |
| `RdpConn` | the life cycle of a connection between two nodes | |
| `RdpProofs` | | proofs about `RdpStream` and `RdpConn` |
| `NatDetector` | `natdetector.cpp`, the node and its peers | |
| `NatDetectorProofs` | | proofs about `NatDetector` |
| `NodeId` | identifiers, the XOR distance, `merge_nodes` | used by `RtTable` and `Lookup` |
| `Lookup` | what the lookups of `dtun.cpp` and `dht.cpp` have in common | used by `DtunQuery` and `DhtQuery` |
| `RtTable` | `rttable.cpp` | |
| `DtunQuery` | lookups of `dtun.cpp` | takes `lookup()` as `RtTable` shows it to be |
| `DtunRegister` | registrations of `dtun.cpp` | |
| `Proxy` | the registrations of `proxy.cpp` | composes them with `DtunRegister`, whose state it shares |
| `ProxyProofs` | | proofs about `DtunRegister` and `Proxy` |
| `DhtQuery` | lookups of `dht.cpp` | takes `lookup()` as `RtTable` shows it to be |
| `ProxyGet` | the gets of `proxy.cpp` | composes them with the `DhtQuery` of the proxy |
| `ProxyGetProofs` | | proofs about `merge_nodes`, `RtTable`, `DtunQuery`, `DhtQuery` and `ProxyGet` |
| `DhtStore` | storage of `dht.cpp` | takes lookups as `DhtQuery`, transfers as `RdpConn` and `RdpStream` show them to end |
| `DhtStoreProofs` | | proofs about `DhtStore` |
| `Dgram` | `dgram.cpp` with the requests of `dtun.cpp` and the cache of `peers.cpp` | composes them; takes lookups as `DtunQuery` shows them to end |
| `DgramProofs` | | proofs about `Dgram` |
| `Peers` | `peers.cpp` | |
| `Advertise` | `advertise.cpp` | composes the caches of two nodes (`Peers`) |
| `PeersProofs` | | proofs about `Peers` and `Advertise` |
| `Agent` | the session and the updater | |
| `AgentProofs` | | proofs about `Agent` |

The `MC` modules have the values of the constants; `MCProxy` is an instance of
`DtunRegister` too, `MCAdvertise` of `Peers` and `MCProxyGet` of `DhtQuery`. Definitions keep the names of
the source. Definitions that begin with a `Mutant` comment are wrong variants: each
property has one that breaks it, and no specification uses them.

### How they correspond to the code

*RdpStream.* `snd` and `rcv` are the fields of `rdp_con` with the rings as functions from
indices; sequence numbers are words modulo `SeqMod`, 2^32 in the code. `dataNet` and
`ackNet` are sets from which nothing is taken out: that is loss (never received),
repetition and reordering at once. `Send`, `RecvAck`, `SenderTimer`,
`RecvData`, `ReceiverTimer`, `Piggyback` and `Receive` are the handlers; each does all
that its handler does, such as the refill of the window after an acknowledgement. The
application may stop reading at any time. A buffer longer than a segment is sent segment
by segment, as `send()` does. A segment is sent again after intervals that double
(`rt_sec`); once one is longer than `MaxRetrans` seconds the connection is closed.

*RdpConn.* A record per node; numbers do not wrap here (`RdpStream` covers that), but the
reset for an extended acknowledgement is cut to eight bits as in the code. `Dup` chooses
between datagrams that stay (repeated at any time) and datagrams taken once; time is a
flag `late` that `Elapse` sets and that handlers which set `syn_time` or `rst_time` clear.

*NatDetector.* Nonces are numbers never given twice. A NAT is external: `path` says which
port a peer sees and whether a reply gets to a second socket. `misled` is a history
variable: a datagram of another type was taken by a second socket.

*RtTable, DtunQuery.* An identifier is the set of its one bits. `rttable_lookup` takes rows
until they have enough nodes (`LookupRows`) and numbers the places in them by their distance.
A routing table of a peer is a set of nodes. `raced`, `late`, `expired`, `told`, `calls` and `found` are history.

*Dgram.* A message of the tunnel carries the address its receiver sees. Left out: requests
to a node that is known by a proxy, and the requests that `dht` itself makes for the same
node. `undef` is set where the code dereferences a request that is not in the map.

*DtunRegister.* One node, one holder. Time is the age of the entry. `quiet` is history: how
long no registration of the owner of the entry came, whatever the holder made of those that
did; the owner is the session of the entry or, for `dtun`, whoever has its address. With it
`OwnerKept` says that a late registration of another session never takes an entry over from
a session that still registers in time: one that arrives too early is refused, the entry
ends only by `refresh()` when its owner was quiet for longer than the time to live, or when
the holder restarts.

*Proxy.* `kind` chooses what the node is: a client of a proxy, whose registrations go
through `timer_proxy`, `register_func`, `recv_proxy_register`, `recv_register_reply` and
`timer_register`, or a proxy that registers in the tunnel network for itself and, in
between, for clients (`recv_client`, `client_callback`). Entries, sessions, addresses,
expiry and restarts are those of `DtunRegister`. A nonce is reduced to whether it is the
present one. `alone` is history: a lookup that found nobody else left
`m_is_registering` set. `Loss` is a restart of the holder.

*DhtQuery.* The fields of a query are those of `dht::query`; `conn` is its RDP
connection, with the values that the holder still has to send. A connection may end or
fall silent at any moment. `told`, `expired`, `broken`, `waited`, `calls` and `found` are
history; `undef` is set where `sweep_rdp()` goes on from a query that it removed.

*ProxyGet.* `get` is the entry of `m_getdata`, `req` and `rep` are the two ends of the
connections of the question and of the reply, with what is in flight. An action of
`DhtQuery` that ends the query of the client makes the reply in the same step, as the
callback does. `Cut` stands for a value of which `read_val()` took a piece. `broken` is set
where the client reads through `end()`. `m_nonce` of a reply that was not read yet is
uninitialised: `RepEnds` takes both outcomes. `forClient` is the nonce of the query that was
made for the client, if there is one.

*DhtStore.* The entries of one identifier and key, at every node; nodes are ordered by
their distance. A put is a lookup (`finding`), the transfers that it starts (`net`) and
the entry of the node itself. A transfer is one step at its receiver (`store2local`) or
fails. `Tick` is a unit of time, the period of the slow timer: in each every node runs
`restore()` once. Uninitialised fields take several values (`Wild`, and `is_unique` in
`store2local`); entries that have them are marked `wild`. `beside` is history: the nodes at
which `dec_origin_sdata()` has put an entry beside others, as is `had`: the nodes that have
had a value or were told to remove one. A put is a node's own or one for a client of which it
is the proxy, which is not itself a node of the DHT. A removal that reads an end
iterator sets `undef`, and the node goes on or ends.

*Advertise.* One node that advertises, another that is advertised to, and the entries that
each has of the other. The other hears of the node by protocols that name no session
(`Hear`), which add it too.

*Peers.* Ages instead of times. `remove_id`, `remove_addr` and `add_node_force` have no
caller and are left out.

*Agent.* Blocks are the pending operations `ops`; the aggregator may register an agent
whose app never hears of it. Writing the defaults is one step with the assignment of the
identity (the registration calls `setObject` without `synchronize`, so that the app can in
fact end before the identity is on disk). Also left out are an answer that does not parse,
which makes the identity an empty string; the `viewDidAppear` that follows the dismissal of
the form and shows it again when there is no identity, so that the model keeps an app without
form that the program repairs; and what a check finds.

## 3. Runs

Every run passes. `conn`, `conn_live`, `proxy_get` and `proxy` take one to two minutes, the
others less.

| run | properties | instance and why it is enough |
|---|---|---|
| `stream` | `NothingAckedIsLost`, `RingsExact` (`WindowKeptFull`, `RwndExact`), `NoRegress`, `ImplementsChannel` | five segments, a window of three, one extended acknowledgement to a message, numbers that wrap after three: gaps, held segments, a cut list. The sending ring does not fill up here; the proofs cover that |
| `conn` | `OpenInv` (types, `OpenTogether`, `OpenIsTold`), `EndsOnce`, `NoSpuriousReset` | the client may connect twice with the same ports, the server may make two records, data both ways, two segments of the server in any order; at most eight different datagrams (`FewDatagrams`), each repeated at will |
| `conn_live` | `HandshakeEnds`, `ClosedIsReleased` | every datagram arrives once or not at all, two timeouts (`MaxTout`) |
| `nat` | `Sound`, `FinalStays`, `WaitEnds` | two peers, as many as the code asks; five nonces: a full detection and a retry |
| `rttable` | `TableInv` (types, `OnePing`, `NodesExact`), `LookupExact` | three-bit identifiers, rows of two, every lookup of up to four nodes |
| `dtun` | `DtunQueryInv` (types, `NumQueryExact`, `CalledOnce`), `ResultExact` (`Converged`, `FoundIfAsked`), `DtunQueryEnds` | five peers as a chain towards the target, two questions at a time, a list of four: the list is cut and the closest node is three replies away |
| `dgram` | `AwaitInv` (types, `RequestAwaited`, `QueueAwaited`), `InOrder`, `QueueEmptied` | one node with two addresses, three datagrams, two requests with two attempts each, with and without the tunnel, IPv4 and IPv6 |
| `proxy` | `OwnerKept`, `ClientInv` (`RegisterAwaited`, `ServerKnown`), `ServerFollows`, `ProxyFollows` | two addresses, two sessions, a move, a restart of the holder, two lookups of the client at a time (a timer can fire under a lookup), one old message that meets a new registration, a ttl of one unit |
| `advertise` | `AgeIsHonest`, `PeerFollows` | two IPv4 addresses and one IPv6 address of the node, two sessions, a move, one repeated message, one advertisement at a time |
| `dht_store` | `StoreInv` (types, `UniqueAlone`), `Replicated`, `RemovalSafe`, `SrcKept`, `Forgotten` | three nodes, of which the closest starts late, two copies to a value, two values of the key, puts by two owners, unique and not, and a removal, a ttl of four units; two puts, or one with two starts, crashes or failed transfers (`MaxEvent`): a copy can be passed on and come back |
| `proxy_get` | `QueryInv` (`Awaited`, `CalledOnce`, `Converged`), `GetExact`, `GetInv` (`GetAwaited`, `ToldExact`), `QueryEnds`, `GetEnds` | three peers as a chain towards the target, two with values of the identifier and one of the key, so that a holder can wait and a connection give nothing; two values, one of them long; a repeated datagram; also lookups of the proxy itself |
| `agent` | `FormWhenOut`, `OneAgent`, `NilOnlyAfterLogout`, `LoginAnswered` | four taps or checks |

Invariants that belong together are conjoined under one name, given with its parts.

Deadlock is not checked where a bounded system may really stop (`conn`, `conn_live`,
`dtun`, `dgram`, `proxy_get`, `dht_store`: all is sent and answered) or where every bound is used up (`rttable`: a
table whose `undef` is set).

The type invariants of `RdpStream`, `NatDetector`, `DtunRegister` and `Peers` are proved
and not part of a run, like `OnePending` and `RetryArmed` of `NatDetector` and `InOrder`,
`SwndExact`, `NeededFitsWindow` and the inductive `StreamInv` of `RdpStream`. `HolderFollows` of
`DtunRegister` is checked as `ProxyFollows`.

What some properties do not say:
- `Sound` is about networks that deliver no datagram twice. With a repeated reply the code
  compares a port with itself and calls a symmetric NAT a cone.
- `OnePending` and `WaitEnds` except `misled`: a datagram of the right length and another
  type closes the second socket and leaves `echo_redirect_wait` for good.
- `NodesExact` and `LookupExact` except histories in which a node was removed from a row
  whose ping was under way: the timeout then takes another node off the front.
- `NumQueryExact` and `FoundIfAsked` except `find_value` queries that got a reply no timer
  waited for, which the code counts; `CalledOnce` and `DtunQueryEnds` hold with them too.
- `FormWhenOut`, `OneAgent` and `NilOnlyAfterLogout` are about a user who waits for the
  answer to a tap. With taps that overlap, the code loses the form or registers twice.
- `Replicated` is about the time when a unit has gone by since the last put, fault or
  start. It excepts nodes that an entry notes as having it (`recvd`) although they have
  lost it: `recvd` is never corrected. It also excepts nodes that were told to remove a
  value: `rdp_store_func` notes the receiver of a removal in the entry of the sender, which
  stays if another owner put it, and `restore()` then leaves out a node that never
  had the value. The proof brought this out; it takes two puts and a start, more than
  `MaxEvent` has in the run.
- `UniqueAlone` excepts the nodes at which `dec_origin_sdata()` put an entry beside others
  (`beside`), and not only that entry: with three values, two may be left
  beside each other, one of them unique, when the inserted one has gone. The proof brought
  this out; a run with two values cannot.
- `Forgotten` excepts entries that `dec_origin_sdata()` inserted with
  uninitialised fields, and a ttl of at most two periods of the slow timer.
  With it a copy that was passed on comes back when its sender has dropped its own, and
  `recvd` with it, so that the value may live on for ever.
- `RemovalSafe` is about keys with one value. With two, the removal of a value that a node
  does not have reads an end iterator.
- `GetExact` excepts connections that ended early, questions that timed out, and holders
  that answered while there was a connection: those are connected to with the ports
  exchanged and never reached.
- `GetAwaited` lets `func` be called a second time when the connection of the question
  breaks after the reply, as the code does; `ToldExact` leaves out values that are longer
  than a segment, of which the code takes the first piece.
- `ServerFollows` and `RegisterAwaited` except a client whose lookup found nobody else: the
  code never tries again.
- `PeerFollows` is about IPv4 addresses: `add_node()` refuses the others.
- `OpenIsTold` is about a client and a server. When both sides connect at once, the side
  that is opened by a plain acknowledgement is not told.

### Fairness

libevent calls a timer that is due, so timers are weakly fair, and little else is fair:

- `RdpStream`: the timer of the segment at the head of the window (`HeadTimer`). Nothing
  is said of delivery: `RdpChannel`'s liveness is that accepted segments do not stay
  behind in silence, that is, they are delivered or the sender is told that the
  connection broke.
- `RdpConn`: `Elapse` and the two retries of `timer_rdp`.
- `NatDetector`, `DtunQuery`: their timers. No reply is assumed to come.
- `Dgram`: the timer of a request, and the ends of lookups, which `DtunQueryEnds` of
  `DtunQuery` and `QueryEnds` of `DhtQuery` justify.
- `DtunRegister`: timers, and the one assumption on the network: among the registrations
  that are repeated for ever, some find the holder and arrive (strong fairness).
- `Proxy`: the same assumption for both kinds of registration; timers, and lookups that call
  back. `timer_refresh` of a proxy is called for ever while clients are new only now and
  then, so that it is not always called inside a lookup for one (strong fairness).
- `DhtQuery`, `ProxyGet`: the timers of questions, the sweep of the fast timer, `timer_get`.
  Nothing is said of replies and connections.
- `DhtStore`: timers fire, lookups end (`QueryEnds`) and transfers end, well or badly
  (`HandshakeEnds`, `ImplementsChannel` and the sweeps).
- `Advertise`: timers and time; the node has something to send to the other again and again,
  and of the advertisements sent for ever some arrive (strong fairness).
- `Agent`: a request ends, by an answer or by the timeout of the library that sends it.

### Where the code and its comments or names disagree

The models follow the code. The places where it does something else than a comment, a name
or the same code elsewhere says:

- `rdp.cpp:575`: `continue` goes to the test at the end of the loop, so that `connect()` also takes
  ports below `well_known_port_max`, which it means to leave out.
- `rdp.cpp:1175`: a repeated SYN is said to be answered by a SYN|ACK that acknowledges it;
  the code leaves the number 0, and a client that gets this one refuses it with a reset.
  `OpenTogether` and `HandshakeEnds` hold all the same, by the retries.
- `rdp.cpp:1303`: the number of a reset passes through a `uint8_t`; `rdp.cpp:1519`: a SYN in an
  open connection is sent back instead of a reset.
- `peers.cpp:312`: the test in `add_timeout()` is inverted, so that nothing is ever added
  where `rttable.cpp:54` says `// add timed out`.
- `peers.cpp:202`: `add_node()` means to refuse other domains than IPv4 and IPv6, and refuses
  IPv6.
- `dht.cpp:445` and `2526`: the next holder is connected to with the ports exchanged, unlike at
  2060.
- `proxy.cpp:183`: a point in time is taken for a duration, so that the sweep closes every
  connection of a reply; `proxy.cpp:194`: the test of `find()` is inverted; `proxy.cpp:639`:
  `+=` stands where a comparison is meant.
- `advertise.cpp:78`: a point in time is compared with a duration, so that every call
  advertises again.

## 4. Proofs

`RdpProofs`, of `RdpStream`, for every window, sequence space larger than what is outstanding,
payload and number of segments (`StreamAssumption`):
`TypeCorrect`, `Invariance` (`StreamInv`), `DeliveryInOrder`, `NothingLost`,
`SendingRingExact`, `SenderFitsWindow`, `RingsAreExact` (`RingsExact`), `NeverBack`
(`NoRegress`), and `ImplementsSafety`: initial states and steps
of `RdpStream` are those of `RdpChannel`, or stutter.

None of the safety properties is inductive. An acknowledgement that is still under way
could, as far as `InOrder` says, acknowledge what was never received, and a segment under
way could carry other data. `StreamInv` adds what the handlers rely on, in positions
(`Pos(w)` numbers the segments from 1, so that wrapping is dealt with once, in lemmas on
`Add` and `Sub`):
- `SndInv`: the ring holds the accepted and unflushed segments in order, the first
  `Outstanding` of them sent, with their numbers; at most a window is outstanding.
- `RcvInv`: what was delivered is a prefix of the input; a used slot `i` holds segment
  `cur + 1 + i`, and the slot of the next segment is free.
- Segments under way carry the data of their position; acknowledgements under way and
  `snd.una` do not run ahead of the receiver.
- An extended acknowledgement, under way or recorded, names a segment that the receiver
  has and that no acknowledgement stopped just before. This is the part that is hard to
  see: without it `recv_eack()` could mark the head of the ring without advancing `una`.

`RingsExact` needs `StreamInv` and itself: a full ring of which nothing is outstanding
looks empty to `send_ostand_swnd()` (its mark is at the head, which is the end too), and
would never send again. It cannot come about because a ring that has segments waiting has
the whole window outstanding. That `m_rwnd_used` counts the used slots is an argument on
cardinalities: a run of `k` slots from the head on has `k` slots.

Of `RdpConn`, for any initial numbers, amounts of data, windows and timeouts, with datagrams
that are lost, reordered and repeated: `ConnTypes`, `ConnEndsOnce` (`EndsOnce`), and, of a client
and a server, `ConnOpen` (`OpenInv`) and `ConnNoSpuriousReset` (`NoSpuriousReset`). `EndsOnce` needs
types, windows and events only (`ConnBase`). The other two take two hypotheses:
`ClientServer`, at most one side connects with a pair of ports (`connect()` takes its own port
at random, `rdp.cpp:573`, and goes to one that is listened on); and `IssApart`, the
numbers of one record of a node are not those of another one, nor as small as the number of a
reset that has none of its own (0, or the eight bits of `rdp.cpp:1303`), which is what `m_rnd()` is for.
Without it an old datagram passes for a new one. `MCRdpConn` assumes both of its values, so
that they can be met.

`OpenTogether` says that two open records that face each other are the ends of one
connection. `ConnInv` traces this back to the numbers:
- `Numbered`: every datagram under way carries numbers that a record of its sender has used, and
  acknowledges such of the other side; a reset carries that of a record which is over.
- `Opened`, `Offered` and `Asked`: a client that is open is on a record of the server after which the
  server has made none that the client has acknowledged (`NotYet`); what a client in `SYN_SENT` may
  be answered is of a record that it has not acknowledged. This is what keeps an old SYN|ACK
  from opening a new record of the client on an old one of the server.
- `Answered`: the SYN|ACKs of the record of the server are to the client that made it.
- `Matched`: where the numbers fit on the side of the client they fit on the side of the server,
  and neither believes the other to have received more than it has (`KnownTo`).

The steps are dealt with by kind (`StepKind`: a node connects, accepts, opens, goes on, ends, ...),
of which there are far fewer than handlers and states. TLC has checked `ConnInv` on the instance of `conn`.

`NatDetectorProofs`, for any peers, ports and number of nonces: `NatTypeCorrect`,
`DetectionGoesOn` (`RetryArmed`), `OneIsPending`, `AnswerIsKept` (`FinalStays`) and
`AnswerIsRight` (`Sound`, for networks without duplication). The invariant: `Pending`
(at most one timer or socket, which fits the state), `Armed`, `Told` (who was told of the
answer), and for `Sound` also `Echoes` and `Replies`: a nonce is under way to a peer at
most once, as question or as reply, so that two replies of one attempt are of two peers,
whose ports at a symmetric NAT differ. Duplication breaks exactly this.

`PeersProofs`, for any nodes, addresses, sessions and times to live: `PeersInvariance`
and `AgesAreHonest` (`AgeIsHonest`). That an entry is at most `MapTtl + Interval` old is
not inductive: the invariant says that it is at most `MapTtl` and the time since
`refresh()` ran last.

`AdvertisedAgesAreHonest` says the same of the two caches of `Advertise`: every message
under way names an address and a session that its sender can have.

`ProxyProofs`, for any addresses, sessions and moves: `RegInvariance` and
`EntryKeepsOwner` (`SameOwner` of `DtunRegister`), from the invariant that every
registration under way, however late, is one the node had, and that the time of an entry is
exactly how long its owner was quiet (without that, `refresh()` could end the entry of a
node that registers in time); and of the composition `ProxyKeepsOwner` (`OwnerKept`) and `ClientInvariance` (`ClientInv`). The invariant adds that
a message with the present nonce is of the present session, and that a reply answers a
registration that the proxy took: otherwise a reply to a former self could make a client
believe that it is registered.

`DgramProofs`, for any nodes, addresses, datagrams and retries: `AwaitInvariance`
(`AwaitInv`) and `OrderInvariance` (`InOrder`). The invariant of the first says that a
message is under way only for a request that was drawn and whose lookup is over, so that a
reply meets a timer to stop; that of the second that nothing in the queue or sent is newer
than the last datagram given.

`DhtStoreProofs`, for any nodes, owners, times and any finite set of values:
`StoreInvariance` (`StoreInv`), `RemovalSafety` (`RemovalSafe`), `OwnersKept` (`SrcKept`) and
`Replication` (`Replicated`). The invariant of the first three says that whatever is stored, looked up or under way is of a value that was
put, so that a removal that goes astray has met two. They follow from what a step may
do to the entries of a node (`EntryStep`), shown for each way in which entries change.

`Replicated` is about the moment when nothing is under way; `CopyInv` says what holds in
between. `Calm`: in a unit without a put, a fault and a start the tables have exactly
running nodes, nothing under way is a removal, and a node whose slow timer has fired has, for
each of its values that is neither new nor made up and for each of the closest nodes, noted
that node, a transfer to it under way or a lookup for one (`Passed`). Timers, lookups and
transfers of the nodes interleave, and change the entries under each other: `Follows`
says that an old entry keeps its age and loses no receiver by any of them. `Holders` and
`Sources`: whoever has a value, is noted in an entry or owns what is under way has had a value
or was told to remove one, or there was a fault. TLC has checked `CopyInv` on the instance of
`dht_store`, and with one more put and a start on two nodes.

`ProxyGetProofs`, for identifiers of any length, any peers, tables, values, widths of the
search and numbers of queries:
- `MergeNearest`: `merge_nodes` of two sorted lists gives exactly the nearest nodes of both,
  sorted, as many as fit. The distance is a strict order on identifiers; a round keeps that
  what was taken from the lists, cut to the nearest, is what was put out.
- `QueryInvariance` (`QueryInv`) and `GetsAreExact` (`GetExact`) of `DhtQuery`. A query is unused,
  open or over (`QueryOK`). An open one counts its timers, its list has the nearest of the
  nodes it was told (`Best`), it has what its holder does not have to send any more (`Linked`),
  and every holder that was asked is waited for, connected to, or has no value (`Seen`). A
  datagram belongs to a query that asked its sender (`Message`). Without `Seen` nothing says
  that a get which ends without a value has missed none.
- `GetInvariance` (`GetInv`) and `ProxyLookups` of `ProxyGet`. A query that is over does not change
  (`Steady`), and from then on what the client has, what is in flight and what is left to
  send make up what it found (`Told`).
- `TableInvariance` (`TableInv` of `RtTable`): the invariant is inductive as it stands. Each way
  in which a row changes (`add`, `remove`, the end of a ping, answered or not) is a lemma on
  the row; `RowReplaced` and `EndPingOK` carry it over to the table, to `m_nodes` and to the pings
  of the other rows. A removal under a ping sets `raced`, from which on only the
  types, the lengths of the rows and the pairing of rows and pings are claimed.
- `LookupExactness` (`LookupExact` of `RtTable`), for a lookup of any identifier and number of
  nodes. `lookup()` goes through the bits in which the identifier differs from this node
  from the highest down, and through the others upwards. In this order (`Before`) every node of
  a row is nearer than every node of a later one (by the highest bit in which two distances
  differ), and `LookupRows` are the rows before which there are fewer nodes than are asked
  for. So the nodes found are closed towards the identifier, there are enough of them or all
  (`Enough`), and the rank of a place among those found is its rank in the whole table.
- `TunnelLookups` (`DtunQueryInv`) and `TunnelResults` (`ResultExact`) of `DtunQuery`, from `DtInv`, which
  is like the invariant of `DhtQuery` but for replies that no timer waits for: `find_value()`
  counts those too, so an open query has at most as many questions counted as timers, and
  exactly as many until such a reply came (`DtOpen`).

`AgentProofs`, for any number of taps and checks: `AgentInvariance`, and from it
`FormShown` (`FormWhenOut`), `OneRegistration` (`OneAgent`) and `ReportHasIdentity`
(`NilOnlyAfterLogout`). The invariant adds to these: a user who waits for answers has
one request of the session under way (`OneSession`), so that a registration belongs to
an app without identity and a login to one that has it; and every registered agent is
accounted for by this app, by an answer under way to it, by a logout or as lost
(`Counted`). Without the first, the block of an old login could close the form after a
logout; without the second, nothing says that an app about to register has not
used up its one agent already.

The assumptions of all proofs are the named `ASSUME`s of the modules, which TLC
evaluates in the runs, and the two hypotheses of `RdpConn`.

Induction over data: the library's induction theorems take an operator as a parameter and
cannot be used. The proofs use sets instead: every set of numbers that is not empty has a least element
(`WFMin` of the well-founded order on the naturals), so a set that holds 0 and with each
number the next one holds them all (`NatSetInduction`). `MergeNearest` is an induction over the
rounds of `merge_nodes` in this form, and its recursive function is unfolded by showing that a
function with these equations exists (`RoundsExist`).

Only model-checked: all liveness (fairness and `ENABLED` are out of the prover's reach), and
with it the liveness part of `ImplementsChannel`.

## 5. Plan

Done: (1) `RdpStream`, `RdpChannel` and proofs; (2) `RdpConn`; (3) `NatDetector` and
proofs; (4) `NodeId`, `RtTable`, `DtunQuery`; (5) `Dgram`, `DtunRegister`, `Peers`
and proofs of the last two; (6) `Agent` and proofs; (7) `DhtStore`, `DhtQuery`; (8) `Proxy`,
`ProxyGet` and `Advertise`, composed with `DtunRegister`, `DhtQuery` and `Peers`;
(9) proofs of all safety properties of `RdpStream`, `Dgram`, `Proxy`, `Advertise`, `DhtQuery`,
`ProxyGet` and `DtunQuery`; (10) of those that were left: `RdpConn`, `Replicated` of `DhtStore` and
`LookupExact` of `RtTable`.

Next: the descriptor tables of `rdp` and a `close()` inside a callback.

## 6. Not modelled

- The descriptor tables of `rdp` (`generate_desc`, `m_desc2conn`, `m_is_invoke`,
  `m_desc_closed`): which number a descriptor has and a `close()` inside its own callback.
  The models use one descriptor for each connection.
- The variants without RDP (`store_by_udp`, `restore_by_udp`, `recv_store`, values in replies,
  gets and replies of the proxy over datagrams): nothing calls `set_enabled_rdp()`.
- Stores through the proxy and the datagrams that it forwards: what the proxy stores for a
  client enters `DhtStore` as a put with another owner. (`retry_storing()` connects to
  `m_server` also before there is one, when the client is behind a symmetric NAT and not yet
  registered.)
- `cage`, `udphandler`, `packetbuf`, `timer`, `cagetime`: dispatch, sockets and the timer list.
  The models take their effect: handlers run to their end, due timers fire.
- IPv6 in `rttable::recv_ping_reply`, and the setters of the NAT state.
- In the app: views, Core Data, encryption, requests whose answers are only logged, and what
  the updater saves of a check. A socket that connected ends later and its service is then
  saved as down (`ICMUpdater.m:222`): no comment says which result should win.
- Vendored and generated code.
