------------------------------ MODULE DhtStore -------------------------------
(***************************************************************************)
(* Storage in the DHT (libcage/dht.cpp): store() keeps a value and sends   *)
(* it over RDP to the nodes closest to its identifier, again by restore()  *)
(* as long as it is `original', and restore() passes the copies on when    *)
(* the closest nodes change.  refresh() drops what is past its ttl, and a  *)
(* put with ttl 0 removes a value.                                         *)
(*                                                                         *)
(* The entries of one identifier and key are modelled: those of others are *)
(* kept apart by m_stored.  find_node() and lookup() give the closest of   *)
(* the nodes that the routing tables have (RtTable, DtunQuery).  A         *)
(* transfer is delivered whole and once, or its connection fails           *)
(* (RdpStream, RdpConn).  m_is_use_rdp is true: nothing calls              *)
(* set_enabled_rdp().                                                      *)
(*                                                                         *)
(* The unit of time is slow_timer_interval: a lookup, a transfer and the   *)
(* fast timer take less.                                                   *)
(***************************************************************************)
EXTENDS Integers, Sequences, FiniteSets

CONSTANTS
    Order,          \* the nodes, the closest to the identifier first
    Values,         \* the values of the key
    Clients,        \* nodes that others store for, as their proxies
    Puts,           \* the calls of store() that may happen
    MaxTtl,         \* the longest lifetime
    NumFindNode,    \* num_find_node
    OriginalPutNum, \* original_put_num
    Late,           \* the nodes that are started later
    MaxEvent        \* how many puts, which count twice, starts, crashes and failed
                    \* transfers there are (a bound)

Nodes == {Order[k] : k \in DOMAIN Order}
Owners == Nodes \cup Clients

ASSUME StoreAssumption ==
    /\ IsFiniteSet(Values)
    /\ Clients \cap Nodes = {}
    /\ MaxTtl \in Nat \ {0}
    /\ Puts \subseteq [node: Nodes, value: Values, ttl: 0..MaxTtl, is_unique: BOOLEAN, src: Owners]
    /\ \A p \in Puts : p.src \in {p.node} \cup Clients
    /\ NumFindNode \in Nat \ {0, 1}
    /\ OriginalPutNum \in Nat \ {0}
    /\ Late \subseteq Nodes
    /\ MaxEvent \in Nat

VARIABLES
    m_stored,   \* m_stored[n][v]: the entry of v at n
    state,      \* the NAT state of the nodes, or that they are not running
    tables,     \* the nodes that the routing tables have
    finding,    \* the store_func of the find_node() that have not called back
    net,        \* the transfers under way
    due,        \* the nodes whose slow timer fires before the unit is over
    undef,      \* a node used an iterator that points nowhere
    puts,       \* history: how many puts there were ...
    asked,      \* ... and which values they put or removed
    faults,     \* history: how many faults there were
    calm,       \* history: whether a unit went by since the last put, fault or start
    had,        \* history: the nodes that have had a value of the key, or were told
                \* to remove one ...
    beside      \* ... and those where dec_origin_sdata() put one beside others

remote == <<state, tables>>
history == <<puts, asked, faults, calm>>
vars == <<m_stored, remote, finding, net, due, undef, history, had, beside>>
-----------------------------------------------------------------------------
Running == {"undefined", "global"}
NoEntry == [src |-> "none"]

\* age is the time since stored_time.  wild is history: the fields were not initialised.
Entry == [src: Owners, is_unique: BOOLEAN, recvd: SUBSET Owners,
          original: 0..OriginalPutNum, ttl: 0..MaxTtl, age: -1..MaxTtl, wild: BOOLEAN]
Func == [node: Nodes, value: Values, src: Owners, ttl: 0..MaxTtl, is_unique: BOOLEAN, wild: BOOLEAN]

NewEntry(f, unique, original) ==
    [src |-> f.src, is_unique |-> unique, recvd |-> {}, original |-> original,
     ttl |-> f.ttl, age |-> 0, wild |-> f.wild]

Held(s) == {v \in Values : s[v] # NoEntry}
Transfer(f, p) == [to |-> p, f |-> f]

\* lookup(): the closest nodes that n knows, itself among them.
Closest(n) ==
    LET known == tables \cup {n}
        before(k) == {j \in 1..k : Order[j] \in known}
    IN  {Order[k] : k \in {i \in DOMAIN Order :
                             Order[i] \in known /\ Cardinality(before(i)) <= NumFindNode}}
-----------------------------------------------------------------------------
(* The entries of a node: s is its part of m_stored. *)

\* Mutant: the owner of what is there is not compared.
Renewed_AnySrc(s, v, e, original) ==
    LET old == s[v]
    IN  [s EXCEPT ![v] = [old EXCEPT !.src = e.src, !.ttl = e.ttl, !.age = e.age,
                                     !.wild = @ \/ e.wild,
                                     !.original = IF original THEN e.original ELSE @]]

Renewed(s, v, e, original) ==
    LET old == s[v]
    IN  IF old.src # e.src THEN s
        ELSE [s EXCEPT ![v] = [old EXCEPT !.ttl = e.ttl, !.age = e.age, !.wild = @ \/ e.wild,
                                          !.original = IF original THEN e.original ELSE @]]

\* Mutant: a value is put beside one that is unique.
add_sdata_Beside(s, v, e, is_origin) ==
    LET w == CHOOSE x \in Values : s[x] # NoEntry
    IN  IF e.is_unique /\ Held(s) # {}
        THEN IF Cardinality(Held(s)) > 1 \/ s[w].src # e.src \/ ~ s[w].is_unique THEN s
             ELSE IF w = v THEN Renewed(s, v, e, TRUE)
             ELSE [s EXCEPT ![w] = NoEntry, ![v] = e]
        ELSE IF s[v] = NoEntry THEN [s EXCEPT ![v] = e]
        ELSE Renewed(s, v, e, is_origin)

add_sdata(s, v, e, is_origin) ==
    LET one == Cardinality(Held(s)) = 1
        w == CHOOSE x \in Values : s[x] # NoEntry
    IN  CASE Held(s) = {} -> [s EXCEPT ![v] = e]
          [] Held(s) # {} /\ e.is_unique ->
                IF ~ one \/ s[w].src # e.src \/ ~ s[w].is_unique THEN s
                ELSE IF w = v THEN Renewed(s, v, e, TRUE)
                ELSE [s EXCEPT ![w] = NoEntry, ![v] = e]
          [] Held(s) # {} /\ ~ e.is_unique ->
                IF one /\ s[w].is_unique THEN s
                ELSE IF s[v] = NoEntry THEN [s EXCEPT ![v] = e]
                ELSE Renewed(s, v, e, is_origin)

\* Mutant: the key need not be there.
Astray_NoKey(s, v) == s[v] = NoEntry

\* v is not there while another value is: its removal reads an end iterator.
Astray(s, v) == Held(s) # {} /\ s[v] = NoEntry

erase_sdata(s, v, src) ==
    IF s[v] # NoEntry /\ s[v].src = src THEN [s EXCEPT ![v] = NoEntry] ELSE s

\* Mutant: nobody is noted as having the value.
insert2recvd_sdata_None(s, v, id) == s

insert2recvd_sdata(s, v, id) ==
    IF s[v] = NoEntry THEN s ELSE [s EXCEPT ![v].recvd = @ \cup {id}]

\* dec_origin_sdata(): if the entry is gone meanwhile it is inserted, with a
\* ttl, stored_time (which may be in the future) and original that nobody set.
Wild(f) ==
    {[NewEntry(f, f.is_unique, t[1]) EXCEPT !.ttl = t[2], !.age = t[3], !.wild = TRUE] :
        t \in {<<0, 0, 0>>, <<0, MaxTtl, 0>>, <<OriginalPutNum, MaxTtl, -1>>}}

DecOrigin(s, v) == [s EXCEPT ![v].original = IF @ > 0 THEN @ - 1 ELSE @]

\* What store_func leaves of the entries when the lookup found enough nodes.
AfterLookup(s, f, me) ==
    IF s[f.value] = NoEntry THEN {[s EXCEPT ![f.value] = e] : e \in Wild(f)}
    ELSE LET d == DecOrigin(s, f.value)
         IN  {IF d[f.value].original = 0 /\ ~ me THEN erase_sdata(d, f.value, f.src) ELSE d}
-----------------------------------------------------------------------------
(* Operations. *)

Disturb == calm' = FALSE
Event(cost) ==
    cost + 2 * puts + faults + Cardinality({n \in Late : state[n] # "new"}) <= MaxEvent
Fault == Event(1) /\ faults' = faults + 1 /\ Disturb /\ UNCHANGED <<puts, asked>>

Store(n, s) ==
    /\ m_stored' = [m_stored EXCEPT ![n] = s]
    /\ had' = IF Held(s) # {} THEN had \cup {n} ELSE had

\* A transfer ends: s is left at the receiver, and its reset tells the sender that
\* the receiver has the value (rdp_store_func, RESET).
StoreBoth(t, s) ==
    /\ net' = net \ {t}
    /\ m_stored' = [n \in Nodes |->
                      LET r == IF n = t.to THEN s ELSE m_stored[n]
                      IN  IF n = t.f.node THEN insert2recvd_sdata(r, t.f.value, t.to) ELSE r]
    /\ had' = IF Held(s) # {} \/ t.f.ttl = 0 THEN had \cup {t.to} ELSE had

\* A node ends, which may be what happens when a removal went astray.
Down(n) ==
    /\ state' = [state EXCEPT ![n] = "down"]
    /\ due' = due \ {n}
    /\ finding' = {f \in finding : f.node # n}
    /\ net' = {t \in net : t.f.node # n}
    /\ Store(n, [v \in Values |-> NoEntry])

\* store(): the lookup, then the own entry.  Behind a NAT, or before it is known
\* that there is none, find_node() calls back with no nodes.
store(p) ==
    LET n == p.node
        v == p.value
        s == m_stored[n]
        f == [node |-> n, value |-> v, src |-> p.src, ttl |-> p.ttl, is_unique |-> p.is_unique,
              wild |-> FALSE]
        search == finding' = IF state[n] = "global" THEN finding \cup {f} ELSE finding
    IN  /\ state[n] \in Running
        /\ Event(2)
        /\ puts' = puts + 1
        /\ asked' = asked \cup {v}
        /\ Disturb
        /\ UNCHANGED <<tables, faults, beside>>
        /\ \/ /\ p.ttl # 0
              /\ search
              /\ Store(n, add_sdata(s, v, NewEntry(f, p.is_unique, OriginalPutNum), TRUE))
              /\ UNCHANGED <<state, net, due, undef>>
           \/ /\ p.ttl = 0
              /\ undef' = (undef \/ Astray(s, v))
              /\ \/ /\ search
                    /\ Store(n, erase_sdata(s, v, p.src))
                    /\ UNCHANGED <<state, net, due>>
                 \/ Astray(s, v) /\ Down(n)

\* store_func: the lookup ends.
store_func(f) ==
    LET nodes == Closest(f.node)
    IN  /\ finding' = finding \ {f}
        /\ net' = net \cup {Transfer(f, p) : p \in nodes \ {f.node}}
        /\ IF Cardinality(nodes) >= NumFindNode
           THEN /\ \E s \in AfterLookup(m_stored[f.node], f, f.node \in nodes) : Store(f.node, s)
                /\ beside' = IF Astray(m_stored[f.node], f.value) THEN beside \cup {f.node} ELSE beside
           ELSE UNCHANGED <<m_stored, had, beside>>
        /\ UNCHANGED <<remote, due, undef, history>>

\* rdp_recv_store_func, store2local(): the transfer is complete and its receiver
\* closes the connection.  is_unique has a value only if the flag was set.
store2local(t) ==
    LET s == m_stored[t.to]
        v == t.f.value
    IN  /\ state[t.to] # "down"
        /\ UNCHANGED <<tables, history, beside>>
        /\ \/ /\ t.f.ttl # 0
              /\ \E unique \in IF t.f.is_unique THEN {TRUE} ELSE BOOLEAN :
                    StoreBoth(t, insert2recvd_sdata(
                                    add_sdata(s, v, NewEntry(t.f, unique, 0), FALSE), v, t.f.src))
              /\ UNCHANGED <<state, finding, due, undef>>
           \/ /\ t.f.ttl = 0
              /\ undef' = (undef \/ Astray(s, v))
              /\ \/ /\ StoreBoth(t, erase_sdata(s, v, t.f.src))
                    /\ UNCHANGED <<state, finding, due>>
                 \/ Astray(s, v) /\ Down(t.to)

\* rdp_store_func: FAILED or BROKEN, or sweep_rdp() gives the connection up.
store_failed(t) ==
    /\ IF state[t.to] = "down" THEN UNCHANGED history ELSE Fault
    /\ net' = net \ {t}
    /\ UNCHANGED <<m_stored, remote, finding, due, undef, had, beside>>

\* The receiver's sweep_rdp() closes the connection before the transfer is complete.
sweep_rdp(t) ==
    /\ state[t.to] # "down"
    /\ Fault
    /\ StoreBoth(t, m_stored[t.to])
    /\ UNCHANGED <<remote, finding, due, undef, beside>>

\* refresh() of the fast timer.
refresh(s) == [v \in Values |-> IF s[v] # NoEntry /\ s[v].age > s[v].ttl THEN NoEntry ELSE s[v]]

\* The store_func and rdp_store_func of restore_by_rdp(); the latter has the whole ttl.
SFunc(n, v, ttl) ==
    LET e == m_stored[n][v]
    IN  [node |-> n, value |-> v, src |-> e.src, ttl |-> ttl, is_unique |-> e.is_unique,
         wild |-> e.wild]

Remaining(e) == IF e.age < 0 THEN MaxTtl ELSE e.ttl - e.age

Live(n) == {v \in Held(m_stored[n]) : m_stored[n][v].age < m_stored[n][v].ttl}

\* Mutant: a copy that was passed on is not passed on again.
PassTo_Once(n, e) == IF e.recvd \ {e.src} # {} THEN {} ELSE Closest(n) \ {n}

\* The nodes that restore_by_rdp() connects to.
PassTo(n, e) == Closest(n) \ ({n} \cup e.recvd)

\* restore() of the slow timer: the lookup of the own identifier and restore_func.
restore(n) ==
    LET entry(v) == m_stored[n][v]
        originals == {v \in Live(n) : entry(v).original > 0}
        copies == Live(n) \ originals
        pass(v) == {Transfer(SFunc(n, v, entry(v).ttl), p) : p \in PassTo(n, entry(v))}
    IN  /\ n \in due
        /\ due' = due \ {n}
        /\ IF state[n] # "global" THEN UNCHANGED <<m_stored, finding, net, had>>
           ELSE /\ finding' = finding \cup {SFunc(n, v, Remaining(entry(v))) : v \in originals}
                /\ net' = net \cup UNION {pass(v) : v \in copies}
                /\ Store(n, [v \in Values |-> IF v \in originals \/ (v \in copies /\ n \in Closest(n))
                                              THEN entry(v) ELSE NoEntry])
        /\ UNCHANGED <<remote, undef, history, beside>>
-----------------------------------------------------------------------------
(* The nodes and the time. *)

Start(n) ==
    /\ n \in Late /\ state[n] = "new"
    /\ Event(1)
    /\ state' = [state EXCEPT ![n] = "undefined"]
    /\ Disturb
    /\ UNCHANGED <<m_stored, tables, finding, net, due, undef, puts, asked, faults, had, beside>>

\* natdetector finds out; the node joins and the tables get it.
Detected(n) ==
    /\ state[n] = "undefined"
    /\ state' = [state EXCEPT ![n] = "global"]
    /\ tables' = tables \cup {n}
    /\ Disturb
    /\ UNCHANGED <<m_stored, finding, net, due, undef, puts, asked, faults, had, beside>>

Crash(n) ==
    /\ state[n] \in Running
    /\ Fault
    /\ Down(n)
    /\ UNCHANGED <<tables, undef, beside>>

Quiet == finding = {} /\ net = {} /\ due = {}

Aged(s) == [v \in Values |-> IF s[v] = NoEntry \/ s[v].age < 0 THEN s[v]
                             ELSE [s[v] EXCEPT !.age = @ + 1]]

\* A unit goes by: the fast timer has fired, and the tables have got rid of the
\* nodes that are down.
Tick ==
    /\ Quiet
    /\ m_stored' = [n \in Nodes |-> refresh(Aged(m_stored[n]))]
    /\ tables' = {n \in tables : state[n] # "down"}
    /\ due' = {n \in Nodes : state[n] \in Running}
    /\ calm' = TRUE
    /\ UNCHANGED <<state, finding, net, undef, puts, asked, faults, had, beside>>
-----------------------------------------------------------------------------
Init ==
    /\ m_stored = [n \in Nodes |-> [v \in Values |-> NoEntry]]
    /\ state = [n \in Nodes |-> IF n \in Late THEN "new" ELSE "global"]
    /\ tables = Nodes \ Late
    /\ finding = {} /\ net = {}
    /\ due = {}
    /\ undef = FALSE
    /\ puts = 0 /\ asked = {} /\ faults = 0 /\ calm = FALSE /\ had = {} /\ beside = {}

Proceed ==
    \/ \E f \in finding : store_func(f)
    \/ \E t \in net : store2local(t) \/ (state[t.to] = "down" /\ store_failed(t))
    \/ \E n \in Nodes : restore(n)
    \/ Tick

Disturbance ==
    \/ \E t \in net : (state[t.to] # "down" /\ store_failed(t)) \/ sweep_rdp(t)
    \/ \E n \in Nodes : Start(n) \/ Detected(n) \/ Crash(n)

Next == (\E p \in Puts : store(p)) \/ Proceed \/ Disturbance

Spec == Init /\ [][Next]_vars

\* Timers fire, lookups end (DtunQuery) and transfers end (RdpConn).
FairSpec == Spec /\ WF_vars(Proceed)
-----------------------------------------------------------------------------
(* Properties. *)

TypeOK ==
    /\ m_stored \in [Nodes -> [Values -> Entry \cup {NoEntry}]]
    /\ state \in [Nodes -> {"new", "undefined", "global", "down"}]
    /\ tables \subseteq Nodes
    /\ finding \subseteq Func
    /\ net \subseteq [to: Nodes, f: Func]
    /\ due \subseteq Nodes

\* A value that is unique is the only one of its key at a node, unless
\* dec_origin_sdata() has put one beside others there.
UniqueAlone ==
    \A n \in Nodes \ beside : \A v, w \in Held(m_stored[n]) :
        v # w => ~ m_stored[n][v].is_unique

\* What a node has is well formed.
StoreInv == TypeOK /\ UniqueAlone

\* Nobody takes over what another has stored.
SrcKept ==
    [][\A n \in Nodes, v \in Values :
         m_stored[n][v] # NoEntry /\ m_stored'[n][v] # NoEntry =>
            m_stored'[n][v].src = m_stored[n][v].src]_vars

\* A unit after the last put, fault or start, each of the nodes closest to a value
\* that somebody has had since has it too, or another one of the key; except that
\* the copies end at different times, so that it may have had it, that the sender of a
\* removal takes the receiver to have the value (rdp_store_func does not look at the
\* ttl), and that after a fault a node may wrongly be taken to have it.
Replicated ==
    Quiet /\ calm =>
        \A n \in Nodes : state[n] = "global" =>
            \A v \in Live(n), p \in Closest(n) :
                \/ m_stored[n][v].wild \/ m_stored[n][v].age = 0
                \/ Held(m_stored[p]) # {}
                \/ p \in m_stored[n][v].recvd /\ (p \in had \/ faults > 0)

\* The removal of a value cannot go astray while the key has one value.
RemovalSafe == undef => Cardinality(asked) > 1

\* When the puts are over, the copies that the nodes pass to each other end too,
\* except those whose ttl is so short (two units) that a node has lost its copy
\* when the one that it passed on comes back.
Forgotten ==
    <>[](\A n \in Nodes : \A v \in Held(m_stored[n]) :
            m_stored[n][v].wild \/ m_stored[n][v].ttl <= 2)
=============================================================================
