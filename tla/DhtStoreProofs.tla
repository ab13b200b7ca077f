--------------------------- MODULE DhtStoreProofs ----------------------------
(***************************************************************************)
(* Proofs about DhtStore, for any nodes, values, puts and lifetimes.       *)
(***************************************************************************)
EXTENDS DhtStore, FiniteSetTheorems, TLAPS

\* The part of m_stored of a node.
Part == [Values -> Entry \cup {NoEntry}]

\* A unique value is alone in s.
Alone(s) == \A v, w \in Held(s) : v # w => ~ s[v].is_unique

\* r is s without some of its values, with other lifetimes.
Shrunk(s, r) ==
    /\ r \in Part
    /\ \A v \in Values : r[v] # NoEntry =>
         s[v] # NoEntry /\ r[v].src = s[v].src /\ r[v].is_unique = s[v].is_unique

\* r is what an operation about v makes of s: it takes over nothing.
Kept(s, r, v) ==
    /\ r \in Part
    /\ \A x \in Values : s[x] # NoEntry /\ r[x] # NoEntry => r[x].src = s[x].src
    /\ Alone(s) => Alone(r)
    /\ Held(r) \subseteq Held(s) \cup {v}

\* The bounds on constants.
LEMMA Constants ==
    /\ IsFiniteSet(Values)
    /\ MaxTtl \in Nat /\ MaxTtl > 0
    /\ OriginalPutNum \in Nat /\ OriginalPutNum > 0
    /\ Nodes \subseteq Owners
  BY StoreAssumption DEF Owners

\* The values that are held are values, and their entries are entries.
LEMMA HeldFacts ==
    ASSUME NEW s \in Part
    PROVE  /\ \A v : v \in Held(s) <=> v \in Values /\ s[v] # NoEntry
           /\ \A v \in Held(s) : s[v] \in Entry
           /\ IsFiniteSet(Held(s))
  <1>1. \A v : v \in Held(s) <=> v \in Values /\ s[v] # NoEntry
    BY DEF Held
  <1>2. \A v \in Held(s) : s[v] \in Entry
    BY <1>1 DEF Part
  <1>3. Held(s) \subseteq Values
    BY <1>1
  <1> QED BY <1>1, <1>2, <1>3, Constants, FS_Subset

\* The one value that is held.
LEMMA OneHeld ==
    ASSUME NEW s \in Part, Held(s) # {}
    PROVE  LET w == CHOOSE x \in Values : s[x] # NoEntry
           IN  /\ w \in Held(s)
               /\ Cardinality(Held(s)) = 1 => Held(s) = {w}
  <1> DEFINE w == CHOOSE x \in Values : s[x] # NoEntry
  <1>1. \E x \in Values : s[x] # NoEntry
    BY HeldFacts
  <1>2. w \in Values /\ s[w] # NoEntry
    BY <1>1
  <1>3. w \in Held(s)
    BY <1>2 DEF Held
  <1> HIDE DEF w
  <1>4. ASSUME Cardinality(Held(s)) = 1
        PROVE  Held(s) = {w}
    <2>1. IsFiniteSet(Held(s)) /\ IsFiniteSet(Held(s) \ {w})
          /\ Cardinality(Held(s) \ {w}) = Cardinality(Held(s)) - 1
      BY <1>3, HeldFacts, FS_RemoveElement
    <2>2. Held(s) \ {w} = {}
      BY <1>4, <2>1, FS_EmptySet
    <2> QED BY <1>3, <2>2
  <1> QED BY <1>3, <1>4 DEF w

\* What shrinks is kept, and what is kept may shrink.
LEMMA ShrunkKept ==
    ASSUME NEW s \in Part, NEW r \in Part, NEW q, NEW v
    PROVE  /\ Shrunk(s, r) => Kept(s, r, v)
           /\ Kept(s, r, v) /\ Shrunk(r, q) => Kept(s, q, v)
           /\ Shrunk(s, r) /\ Shrunk(r, q) => Shrunk(s, q)
           /\ Shrunk(s, s)
  <1>1. Shrunk(s, r) => Kept(s, r, v)
    BY DEF Shrunk, Kept, Alone, Held
  <1>2. ASSUME Kept(s, r, v), Shrunk(r, q)
        PROVE  Kept(s, q, v)
    <2>1. q \in Part /\ Held(q) \subseteq Held(s) \cup {v}
      BY <1>2 DEF Kept, Shrunk, Held
    <2>2. Alone(r) => Alone(q)
      BY <1>2 DEF Shrunk, Alone, Held
    <2>3. \A x \in Values : s[x] # NoEntry /\ q[x] # NoEntry => q[x].src = s[x].src
      BY <1>2 DEF Kept, Shrunk
    <2> QED BY <1>2, <2>1, <2>2, <2>3 DEF Kept
  <1>3. Shrunk(s, r) /\ Shrunk(r, q) => Shrunk(s, q)
    BY DEF Shrunk
  <1>4. Shrunk(s, s)
    BY DEF Shrunk
  <1> QED BY <1>1, <1>2, <1>3, <1>4

\* An entry of which only fields other than src and is_unique change.
LEMMA ReplaceShrunk ==
    ASSUME NEW s \in Part, NEW v \in Values, s[v] # NoEntry, NEW e \in Entry,
           e.src = s[v].src, e.is_unique = s[v].is_unique
    PROVE  Shrunk(s, [s EXCEPT ![v] = e])
  BY DEF Shrunk, Part
-----------------------------------------------------------------------------
(* The entries of a node. *)

\* The fields of a new entry.
LEMMA NewFields ==
    ASSUME NEW f \in Func, NEW unique \in BOOLEAN, NEW original \in 0..OriginalPutNum
    PROVE  /\ NewEntry(f, unique, original) \in Entry
           /\ NewEntry(f, unique, original).is_unique = unique
           /\ NewEntry(f, unique, original).src = f.src
  <1>1. f.src \in Owners /\ f.ttl \in 0..MaxTtl /\ f.wild \in BOOLEAN
    BY DEF Func
  <1>2. 0 \in -1..MaxTtl /\ {} \in SUBSET Owners
    BY Constants
  <1> QED BY <1>1, <1>2 DEF NewEntry, Entry

\* Renewing keeps owner and uniqueness.
LEMMA RenewedSafe ==
    ASSUME NEW s \in Part, NEW v \in Values, s[v] # NoEntry, NEW e \in Entry,
           NEW original \in BOOLEAN
    PROVE  Shrunk(s, Renewed(s, v, e, original))
  <1> DEFINE r == [s[v] EXCEPT !.ttl = e.ttl, !.age = e.age, !.wild = s[v].wild \/ e.wild,
                               !.original = IF original THEN e.original ELSE s[v].original]
  <1>1. s[v] \in Entry
    BY DEF Part
  <1>2. r \in Entry /\ r.src = s[v].src /\ r.is_unique = s[v].is_unique
    BY <1>1 DEF Entry
  <1>3. s[v].src = e.src => Renewed(s, v, e, original) = [s EXCEPT ![v] = r]
    BY DEF Renewed, Part
  <1>4. s[v].src # e.src => Renewed(s, v, e, original) = s
    BY DEF Renewed
  <1> HIDE DEF r
  <1> QED BY <1>2, <1>3, <1>4, ReplaceShrunk, ShrunkKept

\* A value is put where there is none.
LEMMA PutKept ==
    ASSUME NEW s \in Part, NEW v \in Values, s[v] = NoEntry, NEW e \in Entry,
           Alone(s) => Held(s) = {} \/ (~ e.is_unique /\ \A w \in Held(s) : ~ s[w].is_unique)
    PROVE  Kept(s, [s EXCEPT ![v] = e], v)
  <1> DEFINE r == [s EXCEPT ![v] = e]
  <1>1. r \in Part /\ r[v] = e /\ \A x \in Values : x # v => r[x] = s[x]
    BY DEF Part
  <1> HIDE DEF r
  <1>2. Held(r) \subseteq Held(s) \cup {v}
    BY <1>1 DEF Held
  <1>3. Alone(s) => Alone(r)
    BY <1>1, <1>2 DEF Alone, Held
  <1> QED BY <1>1, <1>2, <1>3 DEF Kept, r

\* add_sdata() takes over nothing, and puts no value beside a unique one.
LEMMA AddKept ==
    ASSUME NEW s \in Part, NEW v \in Values, NEW e \in Entry, NEW is_origin \in BOOLEAN
    PROVE  Kept(s, add_sdata(s, v, e, is_origin), v)
  <1> DEFINE r == add_sdata(s, v, e, is_origin)
             w == CHOOSE x \in Values : s[x] # NoEntry
             one == Cardinality(Held(s)) = 1
  <1>0. Kept(s, s, v)
    BY ShrunkKept
  <1>1. CASE Held(s) = {}
    <2>1. r = [s EXCEPT ![v] = e]
      BY <1>1 DEF add_sdata
    <2>2. s[v] = NoEntry
      BY <1>1 DEF Held
    <2> QED BY <1>1, <2>1, <2>2, PutKept
  <1>2. CASE Held(s) # {} /\ e.is_unique
    <2>1. w \in Held(s) /\ (one => Held(s) = {w})
      BY <1>2, OneHeld
    <2>2. r = IF ~ one \/ s[w].src # e.src \/ ~ s[w].is_unique THEN s
              ELSE IF w = v THEN Renewed(s, v, e, TRUE)
              ELSE [s EXCEPT ![w] = NoEntry, ![v] = e]
      BY <1>2 DEF add_sdata
    <2> HIDE DEF r, w
    <2>3. CASE ~ one \/ s[w].src # e.src \/ ~ s[w].is_unique
      BY <1>0, <2>2, <2>3 DEF r
    <2>4. CASE one /\ w = v
      <3>1. Shrunk(s, Renewed(s, v, e, TRUE))
        BY <2>1, <2>4, RenewedSafe, HeldFacts
      <3>2. Kept(s, Renewed(s, v, e, TRUE), v)
        BY <3>1, ShrunkKept DEF Shrunk
      <3> QED BY <1>0, <2>2, <2>4, <3>2 DEF r
    <2>5. CASE one /\ w # v /\ ~ (s[w].src # e.src \/ ~ s[w].is_unique)
      <3>1. r = [s EXCEPT ![w] = NoEntry, ![v] = e]
        BY <2>2, <2>5
      <3>2. w \in Values /\ s[v] = NoEntry /\ \A x \in Values : x # w => s[x] = NoEntry
        BY <2>1, <2>5 DEF Held
      <3>3. /\ r \in Part /\ r[v] = e /\ r[w] = NoEntry
            /\ \A x \in Values : x # v => r[x] = NoEntry
        BY <2>5, <3>1, <3>2 DEF Part
      <3>4. Held(r) \subseteq {v}
        BY <3>3 DEF Held
      <3> QED BY <3>2, <3>3, <3>4 DEF Kept, Alone, r
    <2> QED BY <2>3, <2>4, <2>5
  <1>3. CASE Held(s) # {} /\ ~ e.is_unique
    <2>1. w \in Held(s) /\ (one => Held(s) = {w})
      BY <1>3, OneHeld
    <2>2. r = IF one /\ s[w].is_unique THEN s
              ELSE IF s[v] = NoEntry THEN [s EXCEPT ![v] = e]
              ELSE Renewed(s, v, e, is_origin)
      BY <1>3 DEF add_sdata
    <2> HIDE DEF r, w
    <2>3. CASE one /\ s[w].is_unique
      BY <1>0, <2>2, <2>3 DEF r
    <2>4. CASE ~ (one /\ s[w].is_unique) /\ s[v] = NoEntry
      <3>1. ASSUME Alone(s), NEW x \in Held(s), s[x].is_unique
            PROVE  FALSE
        <4>1. Held(s) = {x}
          BY <3>1 DEF Alone
        <4>2. Cardinality(Held(s)) = 1 /\ w = x
          BY <2>1, <4>1, FS_Singleton
        <4> QED BY <2>4, <3>1, <4>2
      <3>2. r = [s EXCEPT ![v] = e]
        BY <2>2, <2>4
      <3> QED BY <1>3, <2>4, <3>1, <3>2, PutKept DEF r
    <2>5. CASE ~ (one /\ s[w].is_unique) /\ s[v] # NoEntry
      <3>1. Shrunk(s, Renewed(s, v, e, is_origin))
        BY <2>5, RenewedSafe
      <3>2. r = Renewed(s, v, e, is_origin)
        BY <2>2, <2>5
      <3> QED BY <3>1, <3>2, ShrunkKept DEF Shrunk, r
    <2> QED BY <2>3, <2>4, <2>5
  <1> QED BY <1>1, <1>2, <1>3

\* erase_sdata() and insert2recvd_sdata().
LEMMA EraseInsertSafe ==
    ASSUME NEW s \in Part, NEW v \in Values, NEW src, NEW id \in Owners
    PROVE  Shrunk(s, erase_sdata(s, v, src)) /\ Shrunk(s, insert2recvd_sdata(s, v, id))
  <1>1. Shrunk(s, [s EXCEPT ![v] = NoEntry]) /\ Shrunk(s, s)
    BY DEF Shrunk, Part
  <1>2. ASSUME s[v] # NoEntry
        PROVE  Shrunk(s, insert2recvd_sdata(s, v, id))
    <2> DEFINE e == [s[v] EXCEPT !.recvd = s[v].recvd \cup {id}]
    <2>1. s[v] \in Entry
      BY <1>2 DEF Part
    <2>2. e \in Entry /\ e.src = s[v].src /\ e.is_unique = s[v].is_unique
      BY <2>1 DEF Entry
    <2>3. insert2recvd_sdata(s, v, id) = [s EXCEPT ![v] = e]
      BY <1>2 DEF insert2recvd_sdata
    <2> HIDE DEF e
    <2> QED BY <1>2, <2>2, <2>3, ReplaceShrunk
  <1> QED BY <1>1, <1>2 DEF erase_sdata, insert2recvd_sdata

\* What the end of a lookup makes of the entries: dec_origin_sdata() puts the value
\* where there is none, or counts, and the value may be erased.
LEMMA AfterLookupKept ==
    ASSUME NEW s \in Part, NEW f \in Func, NEW me, NEW r \in AfterLookup(s, f, me)
    PROVE  /\ r \in Part
           /\ \A x \in Values : s[x] # NoEntry /\ r[x] # NoEntry => r[x].src = s[x].src
           /\ Held(r) \subseteq Held(s) \cup {f.value}
           /\ ~ Astray(s, f.value) => Kept(s, r, f.value)
  <1> DEFINE v == f.value
  <1>1. v \in Values /\ f.is_unique \in BOOLEAN
    BY DEF Func
  <1>2. CASE s[v] = NoEntry
    <2>1. PICK e \in Wild(f) : r = [s EXCEPT ![v] = e]
      BY <1>2 DEF AfterLookup
    <2>2. e \in Entry
      <3>1. /\ NewEntry(f, f.is_unique, 0) \in Entry
            /\ NewEntry(f, f.is_unique, OriginalPutNum) \in Entry
        BY <1>1, NewFields, Constants
      <3> DEFINE W(o, ttl, age) ==
                   [NewEntry(f, f.is_unique, o) EXCEPT !.ttl = ttl, !.age = age, !.wild = TRUE]
                 T == {<<0, 0, 0>>, <<0, MaxTtl, 0>>, <<OriginalPutNum, MaxTtl, -1>>}
      <3>2. PICK t \in T : e = W(t[1], t[2], t[3])
        BY <2>1 DEF Wild
      <3>3. ASSUME NEW o \in {0, OriginalPutNum}, NEW ttl \in 0..MaxTtl, NEW age \in -1..MaxTtl
            PROVE  W(o, ttl, age) \in Entry
        BY <3>1 DEF Entry
      <3>4. 0 \in 0..MaxTtl /\ MaxTtl \in 0..MaxTtl /\ 0 \in -1..MaxTtl /\ -1 \in -1..MaxTtl
        BY Constants
      <3>5. t[1] \in {0, OriginalPutNum} /\ t[2] \in 0..MaxTtl /\ t[3] \in -1..MaxTtl
        BY <3>2, <3>4
      <3> HIDE DEF W
      <3> QED BY <3>2, <3>3, <3>5
    <2>3. /\ r \in Part /\ Held(r) \subseteq Held(s) \cup {v}
          /\ \A x \in Values : x # v => r[x] = s[x]
      BY <1>1, <2>1, <2>2 DEF Part, Held
    <2>4. ~ Astray(s, v) => Kept(s, r, v)
      BY <1>1, <1>2, <2>1, <2>2, PutKept DEF Astray
    <2> QED BY <1>2, <2>3, <2>4
  <1>3. CASE s[v] # NoEntry
    <2> DEFINE n == IF s[v].original > 0 THEN s[v].original - 1 ELSE s[v].original
               e == [s[v] EXCEPT !.original = n]
               d == DecOrigin(s, v)
    <2>1. s[v] \in Entry
      BY <1>1, <1>3 DEF Part
    <2>2. n \in 0..OriginalPutNum
      BY <2>1, Constants DEF Entry
    <2>3. e \in Entry /\ e.src = s[v].src /\ e.is_unique = s[v].is_unique
      BY <2>1, <2>2 DEF Entry
    <2>4. d = [s EXCEPT ![v] = e]
      BY <1>1 DEF DecOrigin, Part
    <2>5. Shrunk(s, d)
      <3> HIDE DEF d, e
      <3> QED BY <1>1, <1>3, <2>3, <2>4, ReplaceShrunk
    <2>6. r = d \/ r = erase_sdata(d, v, f.src)
      BY <1>3 DEF AfterLookup
    <2> HIDE DEF d
    <2>7. Shrunk(s, r)
      <3>1. Shrunk(d, erase_sdata(d, v, f.src))
        <4>1. f.src \in Owners /\ d \in Part
          BY <2>5 DEF Func, Shrunk
        <4> QED BY <1>1, <4>1, EraseInsertSafe
      <3> QED BY <2>5, <2>6, <3>1, ShrunkKept DEF Shrunk
    <2>8. Kept(s, r, v)
      BY <2>7, ShrunkKept DEF Shrunk
    <2> QED BY <2>8 DEF Kept
  <1> QED BY <1>2, <1>3

\* The time of a unit, and refresh().
LEMMA AgedSafe ==
    ASSUME NEW s \in Part
    PROVE  Shrunk(s, refresh(Aged(s)))
  <1> DEFINE a == Aged(s)
             r == refresh(a)
  <1>1. ASSUME NEW v \in Values, r[v] # NoEntry
        PROVE  /\ s[v] # NoEntry /\ r[v] \in Entry
               /\ r[v].src = s[v].src /\ r[v].is_unique = s[v].is_unique
    <2>1. r[v] = a[v] /\ a[v] # NoEntry /\ ~ (a[v].age > a[v].ttl)
      BY <1>1 DEF refresh
    <2>2. a[v] = IF s[v] = NoEntry \/ s[v].age < 0 THEN s[v]
                 ELSE [s[v] EXCEPT !.age = s[v].age + 1]
      BY DEF Aged
    <2>3. s[v] \in Entry /\ s[v] # NoEntry
      BY <2>1, <2>2 DEF Part
    <2> HIDE DEF a, r
    <2>4. CASE s[v].age < 0
      BY <2>1, <2>2, <2>3, <2>4
    <2>5. CASE ~ (s[v].age < 0)
      <3>1. a[v] = [s[v] EXCEPT !.age = s[v].age + 1]
        BY <2>2, <2>3, <2>5
      <3>2. s[v].age \in -1..MaxTtl /\ s[v].ttl \in 0..MaxTtl
        BY <2>3 DEF Entry
      <3>3. a[v].age = s[v].age + 1 /\ a[v].ttl = s[v].ttl
        BY <2>3, <3>1 DEF Entry
      <3>4. s[v].age + 1 \in -1..MaxTtl
        BY <2>1, <2>5, <3>2, <3>3, Constants
      <3> QED BY <2>1, <2>3, <3>1, <3>4 DEF Entry
    <2> QED BY <2>4, <2>5
  <1>2. r \in [Values -> Entry \cup {NoEntry}]
    <2>1. r = [v \in Values |-> r[v]]
      BY DEF refresh
    <2> HIDE DEF r
    <2> QED BY <1>1, <2>1
  <1> QED BY <1>1, <1>2 DEF Shrunk, Part
-----------------------------------------------------------------------------
(* The invariant. *)

States == {"new", "undefined", "global", "down"}
Transfers == [to: Nodes, f: Func]

\* The entries of the nodes are of values that were put.
Entries ==
    /\ m_stored \in [Nodes -> Part]
    /\ \A n \in Nodes \ beside : Alone(m_stored[n])
    /\ \A n \in Nodes : Held(m_stored[n]) \subseteq asked

\* So are the lookups and the transfers; a removal went astray only between two values.
Moving ==
    /\ finding \subseteq Func /\ net \subseteq Transfers
    /\ asked \subseteq Values
    /\ \A f \in finding : f.value \in asked
    /\ \A t \in net : t.f.value \in asked
    /\ undef => \E v, w \in asked : v # w

Remote == state \in [Nodes -> States] /\ tables \subseteq Nodes /\ due \subseteq Nodes

\* The inductive invariant.
DhtInv == Entries /\ Moving /\ Remote

\* It gives the invariants that the runs check.
LEMMA StoreByInv == DhtInv => StoreInv /\ RemovalSafe
  <1> SUFFICES ASSUME DhtInv PROVE StoreInv /\ RemovalSafe
    OBVIOUS
  <1>1. TypeOK
    BY DEF DhtInv, Entries, Moving, Remote, TypeOK, Part, States, Transfers
  <1>2. UniqueAlone
    BY DEF DhtInv, Entries, UniqueAlone, Alone
  <1>3. ASSUME undef PROVE Cardinality(asked) > 1
    <2>1. PICK v \in asked, w \in asked : v # w
      BY <1>3 DEF DhtInv, Moving
    <2>2. IsFiniteSet(asked)
      BY Constants, FS_Subset DEF DhtInv, Moving
    <2>3. IsFiniteSet(asked \ {v}) /\ Cardinality(asked \ {v}) = Cardinality(asked) - 1
      BY <2>1, <2>2, FS_RemoveElement
    <2>4. Cardinality(asked \ {v}) \in Nat /\ Cardinality(asked \ {v}) # 0
      BY <2>1, <2>3, FS_EmptySet, FS_CardinalityType
    <2>5. Cardinality(asked) \in Nat
      BY <2>2, FS_CardinalityType
    <2> QED BY <2>3, <2>4, <2>5
  <1> QED BY <1>1, <1>2, <1>3 DEF StoreInv, RemovalSafe

\* The initial states satisfy the invariant.
LEMMA DhtInit == Init => DhtInv
  <1> SUFFICES ASSUME Init PROVE DhtInv
    OBVIOUS
  <1>1. Entries
    BY DEF Init, Entries, Part, Held, Alone
  <1>2. Moving
    BY DEF Init, Moving
  <1>3. Remote
    BY StoreAssumption DEF Init, Remote, States
  <1> QED BY <1>1, <1>2, <1>3 DEF DhtInv

\* What a step may do to the entries of a node.
EntryStep(n) ==
    LET s == m_stored[n]
        r == m_stored'[n]
    IN  /\ r \in Part
        /\ \A v \in Values : s[v] # NoEntry /\ r[v] # NoEntry => r[v].src = s[v].src
        /\ n \notin beside' /\ Alone(s) => Alone(r)
        /\ Held(r) \subseteq Held(s) \cup asked'

\* No entry changes its owner (SrcKept, of one step).
SrcStep ==
    \A n \in Nodes, v \in Values :
        m_stored[n][v] # NoEntry /\ m_stored'[n][v] # NoEntry =>
            m_stored'[n][v].src = m_stored[n][v].src

\* If all of the nodes do, the entries stay right.
LEMMA EntriesSafe ==
    ASSUME Entries, DOMAIN m_stored' = Nodes, m_stored' = [n \in Nodes |-> m_stored'[n]],
           asked \subseteq asked', beside \subseteq beside', \A n \in Nodes : EntryStep(n)
    PROVE  Entries' /\ SrcStep
  <1>1. m_stored' \in [Nodes -> Part]
    <2>1. \A n \in Nodes : m_stored'[n] \in Part
      BY DEF EntryStep
    <2> QED BY <2>1
  <1>2. \A n \in Nodes \ beside' : Alone(m_stored'[n])
    BY DEF EntryStep, Entries
  <1>3. \A n \in Nodes : Held(m_stored'[n]) \subseteq asked'
    BY DEF EntryStep, Entries
  <1>4. SrcStep
    BY DEF EntryStep, SrcStep
  <1> QED BY <1>1, <1>2, <1>3, <1>4 DEF Entries, Alone, Held

\* A node whose entries are kept.
LEMMA KeptStep ==
    ASSUME NEW n \in Nodes, NEW v \in asked', Kept(m_stored[n], m_stored'[n], v)
    PROVE  EntryStep(n)
  BY DEF Kept, EntryStep

\* A node whose entries shrink, as those do that no step is about.
LEMMA ShrunkStep ==
    ASSUME NEW n \in Nodes, m_stored[n] \in Part, Shrunk(m_stored[n], m_stored'[n])
    PROVE  EntryStep(n)
  BY DEF Shrunk, EntryStep, Alone, Held

\* Nothing happens to the entries.
LEMMA SameEntries ==
    ASSUME Entries, UNCHANGED m_stored, asked \subseteq asked', beside \subseteq beside'
    PROVE  Entries' /\ SrcStep
  BY DEF Entries, SrcStep, Alone, Held

\* Store() of entries that are kept.
LEMMA StoreSafe ==
    ASSUME Entries, NEW n \in Nodes, NEW s, Store(n, s), asked \subseteq asked',
           beside \subseteq beside', NEW v \in asked', Kept(m_stored[n], s, v)
    PROVE  Entries' /\ SrcStep
  <1>1. m_stored' = [m_stored EXCEPT ![n] = s] /\ m_stored \in [Nodes -> Part]
    BY DEF Store, Entries
  <1>2. m_stored'[n] = s /\ \A k \in Nodes : k # n => m_stored'[k] = m_stored[k]
    BY <1>1
  <1>3. DOMAIN m_stored' = Nodes /\ m_stored' = [k \in Nodes |-> m_stored'[k]]
    BY <1>1
  <1>4. ASSUME NEW k \in Nodes PROVE EntryStep(k)
    <2>1. CASE k = n
      BY <1>2, <2>1, KeptStep
    <2>2. CASE k # n
      <3>1. m_stored[k] \in Part /\ Shrunk(m_stored[k], m_stored'[k])
        BY <1>1, <1>2, <2>2, ShrunkKept
      <3> QED BY <3>1, ShrunkStep
    <2> QED BY <2>1, <2>2
  <1> QED BY <1>3, <1>4, EntriesSafe

\* The end of a transfer: the receiver's entries are kept, and those of the sender.
LEMMA StoreBothSafe ==
    ASSUME Entries, NEW t \in Transfers, NEW s, StoreBoth(t, s), UNCHANGED <<asked, beside>>,
           t.f.value \in asked, Kept(m_stored[t.to], s, t.f.value)
    PROVE  Entries' /\ SrcStep
  <1> DEFINE n == t.f.node
             v == t.f.value
             ins(r) == insert2recvd_sdata(r, v, t.to)
  <1>1. n \in Nodes /\ t.to \in Nodes /\ v \in Values /\ t.to \in Owners
    BY Constants DEF Transfers, Func
  <1>2. m_stored \in [Nodes -> Part]
    BY DEF Entries
  <1>3. /\ DOMAIN m_stored' = Nodes
        /\ m_stored' = [k \in Nodes |-> m_stored'[k]]
        /\ \A k \in Nodes : m_stored'[k] =
             IF k = n THEN ins(IF k = t.to THEN s ELSE m_stored[k])
             ELSE IF k = t.to THEN s ELSE m_stored[k]
    BY DEF StoreBoth
  <1> HIDE DEF n, v
  <1>4. s \in Part /\ \A k \in Nodes : m_stored[k] \in Part
    BY <1>2 DEF Kept
  <1>5. \A r \in Part : Shrunk(r, ins(r))
    BY <1>1, EraseInsertSafe
  <1> HIDE DEF ins
  <1>6. ASSUME NEW k \in Nodes PROVE EntryStep(k)
    <2>1. CASE k = t.to
      <3>1. m_stored'[k] = s \/ m_stored'[k] = ins(s)
        BY <1>3, <2>1
      <3>2. Shrunk(s, m_stored'[k])
        BY <1>4, <1>5, <3>1, ShrunkKept
      <3>3. Kept(m_stored[k], m_stored'[k], v)
        BY <1>4, <2>1, <3>2, ShrunkKept DEF v
      <3> QED BY <3>3, KeptStep DEF v
    <2>2. CASE k # t.to
      <3>1. Shrunk(m_stored[k], m_stored'[k])
        BY <1>3, <1>4, <1>5, <2>2, ShrunkKept
      <3> QED BY <1>4, <3>1, ShrunkStep
    <2> QED BY <2>1, <2>2
  <1> QED BY <1>3, <1>6, EntriesSafe

\* A node ends: what it had and did is gone.
LEMMA DownSafe ==
    ASSUME DhtInv, NEW n \in Nodes, Down(n), asked' \subseteq Values, asked \subseteq asked',
           UNCHANGED <<tables, beside>>, undef' => \E v, w \in asked' : v # w
    PROVE  DhtInv' /\ SrcStep
  <1>0. Entries /\ Moving /\ Remote
    BY DEF DhtInv
  <1> DEFINE s == [v \in Values |-> NoEntry]
  <1>1. Store(n, s) /\ m_stored[n] \in Part /\ s \in Part
    BY <1>0 DEF Down, Entries, Part
  <1>2. Shrunk(m_stored[n], s)
    BY <1>1 DEF Shrunk
  <1> HIDE DEF s
  <1>3. m_stored' = [m_stored EXCEPT ![n] = s] /\ m_stored \in [Nodes -> Part]
    BY <1>0, <1>1 DEF Store, Entries
  <1>4. DOMAIN m_stored' = Nodes /\ m_stored' = [k \in Nodes |-> m_stored'[k]]
    BY <1>3
  <1>5. \A k \in Nodes : m_stored[k] \in Part /\ Shrunk(m_stored[k], m_stored'[k])
    BY <1>1, <1>2, <1>3, ShrunkKept
  <1>6. Entries' /\ SrcStep
    BY <1>0, <1>4, <1>5, ShrunkStep, EntriesSafe
  <1>7. finding' \subseteq finding /\ net' \subseteq net
    BY DEF Down
  <1>8. Moving'
    BY <1>0, <1>7 DEF Moving
  <1>9. Remote'
    BY <1>0 DEF Down, Remote, States
  <1> QED BY <1>6, <1>8, <1>9 DEF DhtInv
-----------------------------------------------------------------------------
(* The steps. *)

\* If a removal goes astray there are two values.
LEMMA AstrayTwo ==
    ASSUME Entries, Moving, asked \subseteq asked', NEW n \in Nodes, NEW v \in asked',
           undef' = (undef \/ Astray(m_stored[n], v))
    PROVE  undef' => \E x, y \in asked' : x # y
  <1>1. CASE undef
    BY <1>1 DEF Moving
  <1>2. CASE Astray(m_stored[n], v)
    <2>1. PICK w \in Held(m_stored[n]) : w # v
      BY <1>2 DEF Astray, Held
    <2> QED BY <2>1 DEF Entries
  <1> QED BY <1>1, <1>2

\* store().
LEMMA PutSafe ==
    ASSUME DhtInv, NEW p \in Puts, store(p)
    PROVE  DhtInv' /\ SrcStep
  <1> DEFINE n == p.node
             v == p.value
             s == m_stored[n]
             f == [node |-> n, value |-> v, src |-> p.src, ttl |-> p.ttl,
                   is_unique |-> p.is_unique, wild |-> FALSE]
             search == finding' = IF state[n] = "global" THEN finding \cup {f} ELSE finding
  <1>0. Entries /\ Moving /\ Remote
    BY DEF DhtInv
  <1>1. /\ n \in Nodes /\ v \in Values /\ p.src \in Owners
        /\ p.ttl \in 0..MaxTtl /\ p.is_unique \in BOOLEAN
    BY StoreAssumption
  <1>2. f \in Func /\ f.value = v /\ f.src = p.src
    BY <1>1 DEF Func
  <1>3. s \in Part
    BY <1>0, <1>1 DEF Entries
  <1>4. asked' = asked \cup {v} /\ UNCHANGED <<tables, beside>>
    BY DEF store
  <1>5. asked' \subseteq Values /\ asked \subseteq asked' /\ v \in asked'
    BY <1>0, <1>1, <1>4 DEF Moving
  <1>6. search => finding' \subseteq Func /\ \A g \in finding' : g.value \in asked'
    BY <1>0, <1>2, <1>4 DEF Moving
  <1>7. CASE p.ttl # 0
    <2>1. /\ search
          /\ Store(n, add_sdata(s, v, NewEntry(f, p.is_unique, OriginalPutNum), TRUE))
          /\ UNCHANGED <<state, net, due, undef>>
      BY <1>7 DEF store
    <2> HIDE DEF f, search
    <2>2. NewEntry(f, p.is_unique, OriginalPutNum) \in Entry
      BY <1>1, <1>2, NewFields, Constants
    <2>3. Kept(s, add_sdata(s, v, NewEntry(f, p.is_unique, OriginalPutNum), TRUE), v)
      BY <1>1, <1>3, <2>2, AddKept
    <2>4. Entries' /\ SrcStep
      BY <1>0, <1>1, <1>4, <1>5, <2>1, <2>3, StoreSafe
    <2>5. Moving'
      BY <1>0, <1>4, <1>5, <1>6, <2>1 DEF Moving
    <2>6. Remote'
      BY <1>0, <1>4, <2>1 DEF Remote
    <2> QED BY <2>4, <2>5, <2>6 DEF DhtInv
  <1>8. CASE /\ p.ttl = 0
             /\ undef' = (undef \/ Astray(s, v))
             /\ search
             /\ Store(n, erase_sdata(s, v, p.src))
             /\ UNCHANGED <<state, net, due>>
    <2> HIDE DEF f, search
    <2>1. Shrunk(s, erase_sdata(s, v, p.src))
      BY <1>1, <1>3, EraseInsertSafe
    <2>2. Kept(s, erase_sdata(s, v, p.src), v)
      BY <1>3, <2>1, ShrunkKept DEF Shrunk
    <2>3. Entries' /\ SrcStep
      BY <1>0, <1>1, <1>4, <1>5, <1>8, <2>2, StoreSafe
    <2>4. undef' => \E x, y \in asked' : x # y
      BY <1>0, <1>1, <1>5, <1>8, AstrayTwo
    <2>5. Moving'
      BY <1>0, <1>5, <1>6, <1>8, <2>4 DEF Moving
    <2>6. Remote'
      BY <1>0, <1>4, <1>8 DEF Remote
    <2> QED BY <2>3, <2>5, <2>6 DEF DhtInv
  <1>9. CASE undef' = (undef \/ Astray(s, v)) /\ Down(n)
    <2>1. undef' => \E x, y \in asked' : x # y
      BY <1>0, <1>1, <1>5, <1>9, AstrayTwo
    <2> QED BY <1>1, <1>4, <1>5, <1>9, <2>1, DownSafe
  <1> QED BY <1>7, <1>8, <1>9 DEF store

\* The nodes that a lookup finds are nodes.
LEMMA ClosestNodes == \A n \in Nodes : Closest(n) \subseteq Nodes
  BY DEF Closest, Nodes

\* store_func.
LEMMA LookupSafe ==
    ASSUME DhtInv, NEW f \in finding, store_func(f)
    PROVE  DhtInv' /\ SrcStep
  <1> DEFINE n == f.node
             s == m_stored[n]
             nodes == Closest(n)
  <1>0. Entries /\ Moving /\ Remote
    BY DEF DhtInv
  <1>1. f \in Func /\ n \in Nodes /\ f.value \in Values /\ f.value \in asked
    BY <1>0 DEF Moving, Func
  <1>2. s \in Part /\ m_stored \in [Nodes -> Part]
    BY <1>0, <1>1 DEF Entries
  <1>3. /\ finding' = finding \ {f}
        /\ net' = net \cup {Transfer(f, p) : p \in nodes \ {n}}
        /\ UNCHANGED <<remote, due, undef, history>>
    BY DEF store_func
  <1>4. \A p \in nodes : Transfer(f, p) \in Transfers /\ Transfer(f, p).f = f
    BY <1>1, ClosestNodes DEF Transfer, Transfers
  <1>5. Moving'
    BY <1>0, <1>1, <1>3, <1>4 DEF Moving, history
  <1>6. Remote'
    BY <1>0, <1>3 DEF Remote, remote
  <1>7. Entries' /\ SrcStep
    <2>1. asked' = asked
      BY <1>3 DEF history
    <2>2. CASE UNCHANGED <<m_stored, beside>>
      BY <1>0, <2>1, <2>2, SameEntries
    <2>3. CASE /\ \E r \in AfterLookup(s, f, n \in nodes) : Store(n, r)
               /\ beside' = IF Astray(s, f.value) THEN beside \cup {n} ELSE beside
      <3>1. PICK r \in AfterLookup(s, f, n \in nodes) : Store(n, r)
        BY <2>3
      <3>2. /\ r \in Part
            /\ \A x \in Values : s[x] # NoEntry /\ r[x] # NoEntry => r[x].src = s[x].src
            /\ Held(r) \subseteq Held(s) \cup {f.value}
            /\ ~ Astray(s, f.value) => Kept(s, r, f.value)
        BY <1>1, <1>2, AfterLookupKept, Zenon
      <3>3. m_stored' = [m_stored EXCEPT ![n] = r]
        BY <3>1 DEF Store
      <3>4. m_stored'[n] = r /\ \A k \in Nodes : k # n => m_stored'[k] = m_stored[k]
        BY <1>1, <1>2, <3>3
      <3>5. DOMAIN m_stored' = Nodes /\ m_stored' = [k \in Nodes |-> m_stored'[k]]
        BY <1>2, <3>3
      <3>6. EntryStep(n)
        <4>1. Astray(s, f.value) => n \in beside'
          BY <2>3
        <4>2. ~ Astray(s, f.value) => (Alone(s) => Alone(r))
          BY <3>2 DEF Kept
        <4> QED BY <1>1, <2>1, <3>2, <3>4, <4>1, <4>2 DEF EntryStep
      <3>7. \A k \in Nodes : k # n => EntryStep(k)
        BY <1>2, <3>4, ShrunkKept, ShrunkStep
      <3>8. beside \subseteq beside'
        BY <2>3
      <3> QED BY <1>0, <2>1, <3>5, <3>6, <3>7, <3>8, EntriesSafe
    <2> QED BY <2>2, <2>3 DEF store_func
  <1> QED BY <1>5, <1>6, <1>7 DEF DhtInv

\* A transfer that ends changes nothing but the entries of its ends.
LEMMA TransferSafe ==
    ASSUME DhtInv, NEW t \in net, NEW s, StoreBoth(t, s),
           UNCHANGED <<tables, asked, beside, state, finding, due>>,
           undef' => \E v, w \in asked : v # w,
           Kept(m_stored[t.to], s, t.f.value)
    PROVE  DhtInv' /\ SrcStep
  <1>0. Entries /\ Moving /\ Remote
    BY DEF DhtInv
  <1>1. t \in Transfers /\ t.f.value \in asked /\ net' = net \ {t}
    BY <1>0 DEF Moving, StoreBoth
  <1>2. Entries' /\ SrcStep
    BY <1>0, <1>1, StoreBothSafe
  <1>3. Moving' /\ Remote'
    BY <1>0, <1>1 DEF Moving, Remote
  <1> QED BY <1>2, <1>3 DEF DhtInv

\* store2local().
LEMMA ArriveSafe ==
    ASSUME DhtInv, NEW t \in net, store2local(t)
    PROVE  DhtInv' /\ SrcStep
  <1> DEFINE n == t.to
             v == t.f.value
             s == m_stored[n]
  <1>0. Entries /\ Moving /\ Remote
    BY DEF DhtInv
  <1>1. t \in Transfers /\ v \in asked
    BY <1>0 DEF Moving
  <1>2. n \in Nodes /\ t.f \in Func
    BY <1>1 DEF Transfers
  <1>3. v \in Values /\ t.f.src \in Owners /\ t.f.is_unique \in BOOLEAN
    BY <1>2 DEF Func
  <1>4. s \in Part
    BY <1>0, <1>2 DEF Entries
  <1>5. UNCHANGED <<tables, asked, beside>>
    BY DEF store2local, history
  <1>6. CASE t.f.ttl # 0
    <2>1. PICK unique \in BOOLEAN :
            StoreBoth(t, insert2recvd_sdata(
                            add_sdata(s, v, NewEntry(t.f, unique, 0), FALSE), v, t.f.src))
      BY <1>6 DEF store2local
    <2> DEFINE e == NewEntry(t.f, unique, 0)
               a == add_sdata(s, v, e, FALSE)
               r == insert2recvd_sdata(a, v, t.f.src)
    <2>2. e \in Entry
      BY <1>2, NewFields, Constants
    <2>3. Kept(s, a, v)
      <3> HIDE DEF e
      <3> QED BY <1>3, <1>4, <2>2, AddKept
    <2> HIDE DEF a
    <2>4. a \in Part
      BY <2>3 DEF Kept
    <2>5. Shrunk(a, r)
      BY <1>3, <2>4, EraseInsertSafe
    <2>6. Kept(s, r, v)
      <3> HIDE DEF r
      <3> QED BY <1>4, <2>3, <2>4, <2>5, ShrunkKept
    <2>7. StoreBoth(t, r) /\ UNCHANGED <<state, finding, due, undef>>
      BY <1>6, <2>1 DEF store2local, a
    <2>8. undef' => \E x, y \in asked : x # y
      BY <1>0, <2>7 DEF Moving
    <2> HIDE DEF r, v
    <2> QED BY <1>5, <2>6, <2>7, <2>8, TransferSafe DEF v
  <1>7. CASE t.f.ttl = 0
    <2>1. undef' = (undef \/ Astray(s, v))
      BY <1>7 DEF store2local
    <2>2. undef' => \E x, y \in asked' : x # y
      BY <1>0, <1>1, <1>2, <1>5, <2>1, AstrayTwo
    <2>3. CASE StoreBoth(t, erase_sdata(s, v, t.f.src)) /\ UNCHANGED <<state, finding, due>>
      <3>1. Shrunk(s, erase_sdata(s, v, t.f.src))
        BY <1>3, <1>4, EraseInsertSafe
      <3>2. Kept(s, erase_sdata(s, v, t.f.src), v)
        BY <1>4, <3>1, ShrunkKept DEF Shrunk
      <3> QED BY <1>5, <2>2, <2>3, <3>2, TransferSafe
    <2>4. CASE Down(n)
      <3>1. asked' \subseteq Values
        BY <1>0, <1>5 DEF Moving
      <3> QED BY <1>2, <1>5, <2>2, <2>4, <3>1, DownSafe
    <2> QED BY <1>7, <2>3, <2>4 DEF store2local
  <1> QED BY <1>6, <1>7

\* A connection that fails, and one that sweep_rdp() closes.
LEMMA GivenUpSafe ==
    ASSUME DhtInv, NEW t \in net, store_failed(t) \/ sweep_rdp(t)
    PROVE  DhtInv' /\ SrcStep
  <1>0. Entries /\ Moving /\ Remote
    BY DEF DhtInv
  <1>1. CASE store_failed(t)
    <2>1. net' \subseteq net /\ asked' = asked
          /\ UNCHANGED <<m_stored, remote, finding, due, undef, had, beside>>
      BY <1>1 DEF store_failed, Fault, history
    <2>2. Entries' /\ SrcStep
      BY <1>0, <2>1, SameEntries
    <2>3. Moving' /\ Remote'
      BY <1>0, <2>1 DEF Moving, Remote, remote
    <2> QED BY <2>2, <2>3 DEF DhtInv
  <1>2. CASE sweep_rdp(t)
    <2>1. StoreBoth(t, m_stored[t.to]) /\ UNCHANGED <<asked, beside>>
          /\ UNCHANGED <<tables, state, finding, due, undef>>
      BY <1>2 DEF sweep_rdp, Fault, remote
    <2>2. m_stored[t.to] \in Part
      BY <1>0 DEF Moving, Transfers, Entries
    <2>3. Kept(m_stored[t.to], m_stored[t.to], t.f.value)
      BY <2>2, ShrunkKept
    <2>4. undef' => \E v, w \in asked : v # w
      BY <1>0, <2>1 DEF Moving
    <2> QED BY <2>1, <2>3, <2>4, TransferSafe
  <1> QED BY <1>1, <1>2

\* restore().
LEMMA RestoreSafe ==
    ASSUME DhtInv, NEW n \in Nodes, restore(n)
    PROVE  DhtInv' /\ SrcStep
  <1> DEFINE s == m_stored[n]
             originals == {v \in Live(n) : s[v].original > 0}
             copies == Live(n) \ originals
             pass(v) == {Transfer(SFunc(n, v, s[v].ttl), p) : p \in PassTo(n, s[v])}
             r == [v \in Values |-> IF v \in originals \/ (v \in copies /\ n \in Closest(n))
                                    THEN s[v] ELSE NoEntry]
  <1>0. Entries /\ Moving /\ Remote
    BY DEF DhtInv
  <1>1. /\ UNCHANGED <<state, tables, asked, beside, undef>>
        /\ due' = due \ {n}
    BY DEF restore, remote, history
  <1>2. s \in Part /\ Held(s) \subseteq asked
    BY <1>0 DEF Entries
  <1>3. Remote'
    BY <1>0, <1>1 DEF Remote
  <1>4. CASE UNCHANGED <<m_stored, finding, net, had>>
    <2>1. Entries' /\ SrcStep
      BY <1>0, <1>1, <1>4, SameEntries
    <2>2. Moving'
      BY <1>0, <1>1, <1>4 DEF Moving
    <2> QED BY <1>3, <2>1, <2>2 DEF DhtInv
  <1>5. CASE /\ finding' = finding \cup {SFunc(n, v, Remaining(s[v])) : v \in originals}
             /\ net' = net \cup UNION {pass(v) : v \in copies}
             /\ Store(n, r)
    <2>1. r \in Part /\ Shrunk(s, r)
      BY <1>2 DEF Part, Shrunk
    <2>2. Live(n) \subseteq Held(s)
      BY DEF Live
    <2>3. ASSUME NEW v \in Live(n)
          PROVE  /\ v \in asked
                 /\ \A ttl \in 0..MaxTtl : SFunc(n, v, ttl) \in Func /\ SFunc(n, v, ttl).value = v
                 /\ Remaining(s[v]) \in 0..MaxTtl /\ s[v].ttl \in 0..MaxTtl
      <3>1. v \in Values /\ s[v] \in Entry /\ v \in asked
        BY <1>2, <2>2, HeldFacts
      <3>2. /\ s[v].src \in Owners /\ s[v].is_unique \in BOOLEAN /\ s[v].wild \in BOOLEAN
            /\ s[v].ttl \in 0..MaxTtl /\ s[v].age \in -1..MaxTtl
        BY <3>1 DEF Entry
      <3>3. \A ttl \in 0..MaxTtl : SFunc(n, v, ttl) \in Func /\ SFunc(n, v, ttl).value = v
        BY <3>1, <3>2 DEF SFunc, Func
      <3>4. s[v].age < s[v].ttl
        BY DEF Live
      <3>5. Remaining(s[v]) \in 0..MaxTtl
        BY <3>2, <3>4, Constants DEF Remaining
      <3> QED BY <3>1, <3>2, <3>3, <3>5
    <2>4. \A v \in copies : \A x \in pass(v) : x \in Transfers /\ x.f.value \in asked
      <3> SUFFICES ASSUME NEW v \in copies, NEW p \in PassTo(n, s[v])
                   PROVE  /\ Transfer(SFunc(n, v, s[v].ttl), p) \in Transfers
                          /\ Transfer(SFunc(n, v, s[v].ttl), p).f.value \in asked
        OBVIOUS
      <3>1. p \in Nodes
        BY ClosestNodes DEF PassTo
      <3>2. SFunc(n, v, s[v].ttl) \in Func /\ SFunc(n, v, s[v].ttl).value \in asked
        BY <2>3
      <3> QED BY <3>1, <3>2 DEF Transfer, Transfers
    <2>5. \A v \in originals : /\ SFunc(n, v, Remaining(s[v])) \in Func
                               /\ SFunc(n, v, Remaining(s[v])).value \in asked
      BY <2>3
    <2> HIDE DEF r, pass, originals, copies
    <2>6. Entries' /\ SrcStep
      <3>1. m_stored' = [m_stored EXCEPT ![n] = r] /\ m_stored \in [Nodes -> Part]
        BY <1>0, <1>5 DEF Store, Entries
      <3>2. m_stored'[n] = r /\ \A k \in Nodes : k # n => m_stored'[k] = m_stored[k]
        BY <3>1
      <3>3. DOMAIN m_stored' = Nodes /\ m_stored' = [k \in Nodes |-> m_stored'[k]]
        BY <3>1
      <3>4. \A k \in Nodes : m_stored[k] \in Part /\ Shrunk(m_stored[k], m_stored'[k])
        BY <2>1, <3>1, <3>2, ShrunkKept
      <3> QED BY <1>0, <1>1, <3>3, <3>4, ShrunkStep, EntriesSafe
    <2>7. finding' \subseteq Func /\ \A f \in finding' : f.value \in asked'
      BY <1>0, <1>1, <1>5, <2>5 DEF Moving
    <2>8. net' \subseteq Transfers /\ \A x \in net' : x.f.value \in asked'
      BY <1>0, <1>1, <1>5, <2>4 DEF Moving
    <2>9. Moving'
      BY <1>0, <1>1, <2>7, <2>8 DEF Moving
    <2> QED BY <1>3, <2>6, <2>9 DEF DhtInv
  <1> QED BY <1>4, <1>5 DEF restore

\* A unit goes by.
LEMMA TickSafe ==
    ASSUME DhtInv, Tick
    PROVE  DhtInv' /\ SrcStep
  <1>0. Entries /\ Moving /\ Remote
    BY DEF DhtInv
  <1>1. /\ m_stored' = [n \in Nodes |-> refresh(Aged(m_stored[n]))]
        /\ tables' \subseteq tables
        /\ due' \subseteq Nodes
        /\ UNCHANGED <<state, finding, net, undef, asked, beside>>
    BY DEF Tick
  <1>2. \A n \in Nodes : m_stored[n] \in Part /\ Shrunk(m_stored[n], m_stored'[n])
    BY <1>0, <1>1, AgedSafe DEF Entries
  <1>3. DOMAIN m_stored' = Nodes /\ m_stored' = [n \in Nodes |-> m_stored'[n]]
    BY <1>1
  <1>4. Entries' /\ SrcStep
    BY <1>0, <1>1, <1>2, <1>3, ShrunkStep, EntriesSafe
  <1>5. Moving' /\ Remote'
    BY <1>0, <1>1 DEF Moving, Remote
  <1> QED BY <1>4, <1>5 DEF DhtInv

\* Nodes start, find out about their NAT and crash.
LEMMA NodesSafe ==
    ASSUME DhtInv, NEW n \in Nodes, Start(n) \/ Detected(n) \/ Crash(n)
    PROVE  DhtInv' /\ SrcStep
  <1>0. Entries /\ Moving /\ Remote
    BY DEF DhtInv
  <1>1. CASE Start(n) \/ Detected(n)
    <2>1. /\ UNCHANGED <<m_stored, finding, net, due, undef, asked, beside>>
          /\ \E x \in {"undefined", "global"} : state' = [state EXCEPT ![n] = x]
          /\ tables' \subseteq tables \cup {n}
      BY <1>1 DEF Start, Detected
    <2>2. Entries' /\ SrcStep
      BY <1>0, <2>1, SameEntries
    <2>3. Moving' /\ Remote'
      BY <1>0, <2>1 DEF Moving, Remote, States
    <2> QED BY <2>2, <2>3 DEF DhtInv
  <1>2. CASE Crash(n)
    <2>1. Down(n) /\ UNCHANGED <<tables, undef, asked, beside>>
      BY <1>2 DEF Crash, Fault
    <2>2. asked' \subseteq Values /\ (undef' => \E v, w \in asked' : v # w)
      BY <1>0, <2>1 DEF Moving
    <2> QED BY <2>1, <2>2, DownSafe
  <1> QED BY <1>1, <1>2

\* Every step keeps the invariant and the owners.
LEMMA DhtStep == DhtInv /\ [Next]_vars => DhtInv' /\ SrcStep
  <1> SUFFICES ASSUME DhtInv, [Next]_vars PROVE DhtInv' /\ SrcStep
    OBVIOUS
  <1>1. CASE \E p \in Puts : store(p)
    BY <1>1, PutSafe
  <1>2. CASE Proceed
    BY <1>2, LookupSafe, ArriveSafe, GivenUpSafe, RestoreSafe, TickSafe DEF Proceed
  <1>3. CASE Disturbance
    BY <1>3, GivenUpSafe, NodesSafe DEF Disturbance
  <1>4. CASE UNCHANGED vars
    <2>1. Entries' /\ SrcStep
      BY <1>4, SameEntries DEF DhtInv, vars, history
    <2>2. Moving' /\ Remote'
      BY <1>4 DEF DhtInv, Moving, Remote, vars, history, remote
    <2> QED BY <2>1, <2>2 DEF DhtInv
  <1> QED BY <1>1, <1>2, <1>3, <1>4 DEF Next

-----------------------------------------------------------------------------
(* The copies: what the nodes that are taken to have a value had. *)

\* The nodes that have had a value or were told to remove one, or after a fault any.
Taken == had \cup IF faults > 0 THEN Nodes ELSE {}

\* An entry whose owner and whose receivers are such; it ends some time.
Fine(e, H) ==
    /\ e.recvd \cap Nodes \subseteq H
    /\ e.src \in Nodes => e.src \in H
    /\ e.age < 0 => e.ttl # 0

Sound(s, H) == \A v \in Held(s) : Fine(s[v], H)

\* Who has a value now or is noted in an entry has had one.
Holders == \A n \in Nodes : Sound(m_stored[n], Taken) /\ (Held(m_stored[n]) # {} => n \in Taken)

\* The owners of what is under way have had it, but for a removal by the owner.
Sources ==
    /\ \A f \in finding : f.src \in Nodes => f.src \in Taken \/ (f.ttl = 0 /\ f.src = f.node)
    /\ \A t \in net : t.f.ttl # 0 /\ t.f.src \in Nodes => t.f.src \in Taken

\* The tables have the nodes that have joined.
Joined ==
    /\ \A n \in tables : state[n] \in {"global", "down"}
    /\ \A n \in Nodes : state[n] = "global" => n \in tables

\* A transfer of v from n to p is under way, or the lookup for one.
Awaited(n, v, p) ==
    \/ \E t \in net : t.to = p /\ t.f.node = n /\ t.f.value = v
    \/ \E f \in finding : f.node = n /\ f.value = v

\* n has passed its values on, or is about to.
Passed(n) ==
    \A v \in Live(n), p \in Closest(n) \ {n} :
        \/ m_stored[n][v].wild \/ m_stored[n][v].age = 0
        \/ p \in m_stored[n][v].recvd
        \/ Awaited(n, v, p)

\* What is under way in a unit without a put, a fault and a start.
Calm ==
    /\ \A n \in tables : state[n] = "global"
    /\ \A f \in finding : f.ttl # 0
    /\ \A t \in net : t.f.ttl # 0 /\ t.to \in tables
    /\ \A n \in Nodes \ due : state[n] = "global" => Passed(n)

\* The inductive invariant of the copies.
CopyInv == faults \in Nat /\ Holders /\ Sources /\ Joined /\ (calm => Calm)

\* An entry of r that is neither new nor made up is one of s.
Follows(s, r) ==
    \A v \in Values : r[v] # NoEntry /\ ~ r[v].wild /\ r[v].age # 0 =>
        /\ s[v] # NoEntry /\ ~ s[v].wild
        /\ r[v].age = s[v].age /\ r[v].ttl = s[v].ttl /\ s[v].recvd \subseteq r[v].recvd

\* An entry is not the lack of one.
LEMMA EntryThere == \A e \in Entry : e # NoEntry
  <1> SUFFICES ASSUME NEW e \in Entry, e = NoEntry PROVE FALSE
    OBVIOUS
  <1>1. DOMAIN e = {"src", "is_unique", "recvd", "original", "ttl", "age", "wild"}
    BY DEF Entry
  <1>2. DOMAIN e = {"src"}
    BY DEF NoEntry
  <1> QED BY <1>1, <1>2

\* An entry takes the place of another, or comes where there was none.
LEMMA ReplaceCopy ==
    ASSUME NEW s \in Part, NEW v \in Values, NEW e \in Entry, NEW H, Sound(s, H), Fine(e, H),
           \/ e.wild \/ e.age = 0
           \/ /\ s[v] # NoEntry /\ ~ s[v].wild
              /\ e.age = s[v].age /\ e.ttl = s[v].ttl /\ s[v].recvd \subseteq e.recvd
    PROVE  /\ Follows(s, [s EXCEPT ![v] = e])
           /\ Sound([s EXCEPT ![v] = e], H)
           /\ Held([s EXCEPT ![v] = e]) = Held(s) \cup {v}
  <1> DEFINE r == [s EXCEPT ![v] = e]
  <1>1. r[v] = e /\ \A x \in Values : x # v => r[x] = s[x]
    BY DEF Part
  <1>2. e # NoEntry
    BY EntryThere
  <1> HIDE DEF r
  <1>3. Follows(s, r)
    <2> SUFFICES ASSUME NEW x \in Values, r[x] # NoEntry, ~ r[x].wild, r[x].age # 0
                 PROVE  /\ s[x] # NoEntry /\ ~ s[x].wild
                        /\ r[x].age = s[x].age /\ r[x].ttl = s[x].ttl
                        /\ s[x].recvd \subseteq r[x].recvd
      BY DEF Follows
    <2>1. CASE x = v
      BY <1>1, <2>1
    <2>2. CASE x # v
      BY <1>1, <2>2
    <2> QED BY <2>1, <2>2
  <1>4. Held(r) = Held(s) \cup {v}
    BY <1>1, <1>2 DEF Held
  <1>5. Sound(r, H)
    BY <1>1 DEF Sound, Held
  <1> QED BY <1>3, <1>4, <1>5 DEF r

\* Values that go away.
LEMMA DropCopy ==
    ASSUME NEW s \in Part, NEW r \in Part, NEW H, Sound(s, H),
           \A v \in Values : r[v] \in {s[v], NoEntry}
    PROVE  Follows(s, r) /\ Sound(r, H) /\ Held(r) \subseteq Held(s)
  BY DEF Follows, Sound, Held

\* What follows does so through several changes.
LEMMA FollowsOn ==
    ASSUME NEW s, NEW r, NEW q
    PROVE  Follows(s, s) /\ (Follows(s, r) /\ Follows(r, q) => Follows(s, q))
  BY DEF Follows

\* A new entry is fine if its owner is.
LEMMA NewFine ==
    ASSUME NEW f \in Func, NEW unique \in BOOLEAN, NEW original \in 0..OriginalPutNum, NEW H,
           f.src \in Nodes => f.src \in H
    PROVE  /\ Fine(NewEntry(f, unique, original), H)
           /\ NewEntry(f, unique, original).age = 0
  BY DEF NewEntry, Fine

\* A renewed entry is as new.
LEMMA RenewedCopy ==
    ASSUME NEW s \in Part, NEW v \in Values, s[v] # NoEntry, NEW e \in Entry, e.age = 0,
           NEW original \in BOOLEAN, NEW H, Sound(s, H)
    PROVE  LET r == Renewed(s, v, e, original)
           IN  Follows(s, r) /\ Sound(r, H) /\ Held(r) # {}
  <1> DEFINE q == [s[v] EXCEPT !.ttl = e.ttl, !.age = e.age, !.wild = s[v].wild \/ e.wild,
                               !.original = IF original THEN e.original ELSE s[v].original]
  <1>1. s[v] \in Entry /\ v \in Held(s)
    BY DEF Part, Held
  <1>2. q \in Entry /\ q.src = s[v].src /\ q.recvd = s[v].recvd /\ q.age = 0
    BY <1>1 DEF Entry
  <1>3. Fine(s[v], H)
    BY <1>1 DEF Sound
  <1>4. s[v].src = e.src => Renewed(s, v, e, original) = [s EXCEPT ![v] = q]
    BY DEF Renewed, Part
  <1>5. s[v].src # e.src => Renewed(s, v, e, original) = s
    BY DEF Renewed
  <1> HIDE DEF q
  <1>6. Fine(q, H)
    BY <1>2, <1>3 DEF Fine
  <1>7. CASE s[v].src = e.src
    BY <1>2, <1>4, <1>6, <1>7, ReplaceCopy
  <1>8. CASE s[v].src # e.src
    BY <1>1, <1>5, <1>8, FollowsOn
  <1> QED BY <1>7, <1>8

\* After add_sdata() there is a value; nothing else changes but what is new.
LEMMA AddCopy ==
    ASSUME NEW s \in Part, NEW v \in Values, NEW e \in Entry, e.age = 0,
           NEW is_origin \in BOOLEAN, NEW H, Sound(s, H), Fine(e, H)
    PROVE  LET r == add_sdata(s, v, e, is_origin)
           IN  Follows(s, r) /\ Sound(r, H) /\ Held(r) # {}
  <1> DEFINE r == add_sdata(s, v, e, is_origin)
             w == CHOOSE x \in Values : s[x] # NoEntry
             one == Cardinality(Held(s)) = 1
             q == [s EXCEPT ![w] = NoEntry]
             Goal(x) == Follows(s, x) /\ Sound(x, H) /\ Held(x) # {}
  <1>0. ASSUME NEW x \in Part, Sound(x, H)
        PROVE  LET y == [x EXCEPT ![v] = e] IN Follows(x, y) /\ Sound(y, H) /\ Held(y) # {}
    <2> DEFINE y == [x EXCEPT ![v] = e]
    <2>1. Follows(x, y) /\ Sound(y, H) /\ Held(y) = Held(x) \cup {v}
      BY <1>0, ReplaceCopy
    <2> HIDE DEF y
    <2> QED BY <2>1 DEF y
  <1>1. Goal([s EXCEPT ![v] = e])
    BY <1>0
  <1>2. Held(s) # {} => Goal(s)
    BY FollowsOn
  <1>3. ASSUME NEW o \in BOOLEAN, s[v] # NoEntry
        PROVE  Goal(Renewed(s, v, e, o))
    BY <1>3, RenewedCopy
  <1>4. Held(s) # {} => w \in Held(s)
    BY OneHeld
  <1>5. ASSUME Held(s) # {}
        PROVE  Goal([q EXCEPT ![v] = e])
    <2>1. w \in Values
      BY <1>4, <1>5 DEF Held
    <2> HIDE DEF w
    <2>2. q \in Part /\ \A x \in Values : q[x] \in {s[x], NoEntry}
      BY <2>1 DEF Part
    <2> HIDE DEF q
    <2>3. Follows(s, q) /\ Sound(q, H)
      BY <2>2, DropCopy
    <2>4. /\ Follows(q, [q EXCEPT ![v] = e]) /\ Sound([q EXCEPT ![v] = e], H)
          /\ Held([q EXCEPT ![v] = e]) # {}
      BY <1>0, <2>2, <2>3
    <2> QED BY <2>3, <2>4, FollowsOn
  <1>6. [s EXCEPT ![w] = NoEntry, ![v] = e] = [q EXCEPT ![v] = e]
    OBVIOUS
  <1>7. CASE Held(s) = {}
    BY <1>1, <1>7 DEF add_sdata
  <1>8. CASE Held(s) # {} /\ e.is_unique
    <2>1. r = IF ~ one \/ s[w].src # e.src \/ ~ s[w].is_unique THEN s
              ELSE IF w = v THEN Renewed(s, v, e, TRUE)
              ELSE [s EXCEPT ![w] = NoEntry, ![v] = e]
      BY <1>8 DEF add_sdata
    <2>2. w = v => s[v] # NoEntry
      BY <1>4, <1>8 DEF Held
    <2> HIDE DEF r, w, q, Goal
    <2>3. Goal(r)
      BY <1>2, <1>3, <1>5, <1>6, <1>8, <2>1, <2>2
    <2> QED BY <2>3 DEF r, Goal
  <1>9. CASE Held(s) # {} /\ ~ e.is_unique
    <2>1. r = IF one /\ s[w].is_unique THEN s
              ELSE IF s[v] = NoEntry THEN [s EXCEPT ![v] = e]
              ELSE Renewed(s, v, e, is_origin)
      BY <1>9 DEF add_sdata
    <2> HIDE DEF r, w, q, Goal
    <2>2. Goal(r)
      BY <1>1, <1>2, <1>3, <1>9, <2>1
    <2> QED BY <2>2 DEF r, Goal
  <1> QED BY <1>7, <1>8, <1>9

\* insert2recvd_sdata() notes a receiver and leaves the rest.
LEMMA InsertCopy ==
    ASSUME NEW s \in Part, NEW v \in Values, NEW id \in Owners, NEW H, Sound(s, H)
    PROVE  LET r == insert2recvd_sdata(s, v, id)
           IN  /\ Follows(s, r) /\ Held(r) = Held(s)
               /\ r[v] # NoEntry => id \in r[v].recvd
               /\ (s[v] # NoEntry /\ id \in Nodes => id \in H) => Sound(r, H)
  <1> DEFINE e == [s[v] EXCEPT !.recvd = s[v].recvd \cup {id}]
             r == insert2recvd_sdata(s, v, id)
  <1>1. CASE s[v] = NoEntry
    BY <1>1, FollowsOn DEF insert2recvd_sdata
  <1>2. CASE s[v] # NoEntry
    <2>1. s[v] \in Entry /\ v \in Held(s)
      BY <1>2 DEF Part, Held
    <2>2. /\ e \in Entry /\ e.src = s[v].src /\ e.recvd = s[v].recvd \cup {id}
          /\ e.age = s[v].age /\ e.ttl = s[v].ttl /\ e.wild = s[v].wild
      BY <2>1 DEF Entry
    <2>3. r = [s EXCEPT ![v] = e]
      BY <1>2 DEF insert2recvd_sdata
    <2>4. Fine(s[v], H)
      BY <2>1 DEF Sound
    <2> HIDE DEF e, r
    <2>5. r[v] = e /\ \A x \in Values : x # v => r[x] = s[x]
      BY <2>3 DEF Part
    <2>6. Follows(s, r)
      BY <1>2, <2>2, <2>5 DEF Follows
    <2>7. Held(r) = Held(s)
      BY <1>2, <2>2, <2>5, EntryThere DEF Held
    <2>8. ASSUME id \in Nodes => id \in H
          PROVE  Sound(r, H)
      <3>1. Fine(e, H)
        BY <2>2, <2>4, <2>8 DEF Fine
      <3> QED BY <2>5, <3>1 DEF Sound, Held
    <2> QED BY <1>2, <2>2, <2>5, <2>6, <2>7, <2>8 DEF r
  <1> QED BY <1>1, <1>2

\* erase_sdata().
LEMMA EraseCopy ==
    ASSUME NEW s \in Part, NEW v \in Values, NEW src, NEW H, Sound(s, H)
    PROVE  LET r == erase_sdata(s, v, src)
           IN  Follows(s, r) /\ Sound(r, H) /\ Held(r) \subseteq Held(s)
  <1> DEFINE r == erase_sdata(s, v, src)
  <1>1. r \in Part /\ \A x \in Values : r[x] \in {s[x], NoEntry}
    BY DEF erase_sdata, Part
  <1> HIDE DEF r
  <1> QED BY <1>1, DropCopy DEF r

\* The end of a lookup: an entry that is made up is marked as such.
LEMMA AfterCopy ==
    ASSUME NEW s \in Part, NEW f \in Func, NEW me, NEW r \in AfterLookup(s, f, me), NEW H,
           Sound(s, H), s[f.value] = NoEntry /\ f.src \in Nodes => f.src \in H
    PROVE  Follows(s, r) /\ Sound(r, H)
  <1> DEFINE v == f.value
  <1>1. v \in Values /\ f.is_unique \in BOOLEAN
    BY DEF Func
  <1>2. CASE s[v] = NoEntry
    <2>1. PICK e \in Wild(f) : r = [s EXCEPT ![v] = e]
      BY <1>2 DEF AfterLookup
    <2> DEFINE W(o, ttl, age) ==
                 [NewEntry(f, f.is_unique, o) EXCEPT !.ttl = ttl, !.age = age, !.wild = TRUE]
               T == {<<0, 0, 0>>, <<0, MaxTtl, 0>>, <<OriginalPutNum, MaxTtl, -1>>}
    <2>2. PICK t \in T : e = W(t[1], t[2], t[3])
      BY <2>1 DEF Wild
    <2>3. ASSUME NEW o \in {0, OriginalPutNum}, NEW ttl \in 0..MaxTtl, NEW age \in -1..MaxTtl,
                 age < 0 => ttl # 0
          PROVE  W(o, ttl, age) \in Entry /\ Fine(W(o, ttl, age), H) /\ W(o, ttl, age).wild
      <3>1. NewEntry(f, f.is_unique, o) \in Entry
        BY <1>1, NewFields, Constants
      <3>2. Fine(NewEntry(f, f.is_unique, o), H)
        BY <1>1, <1>2, NewFine, Constants
      <3> HIDE DEF v
      <3>3. /\ W(o, ttl, age) \in Entry /\ W(o, ttl, age).wild
            /\ W(o, ttl, age).age = age /\ W(o, ttl, age).ttl = ttl
            /\ W(o, ttl, age).src = NewEntry(f, f.is_unique, o).src
            /\ W(o, ttl, age).recvd = NewEntry(f, f.is_unique, o).recvd
        BY <3>1 DEF Entry
      <3> HIDE DEF W
      <3> QED BY <2>3, <3>2, <3>3 DEF Fine
    <2>4. /\ t[1] \in {0, OriginalPutNum} /\ t[2] \in 0..MaxTtl /\ t[3] \in -1..MaxTtl
          /\ t[3] < 0 => t[2] # 0
      <3>1. 0 \in 0..MaxTtl /\ MaxTtl \in 0..MaxTtl /\ 0 \in -1..MaxTtl /\ -1 \in -1..MaxTtl
            /\ MaxTtl # 0
        BY Constants
      <3> QED BY <2>2, <3>1
    <2> HIDE DEF W
    <2>5. e \in Entry /\ Fine(e, H) /\ e.wild
      BY <2>2, <2>3, <2>4
    <2> QED BY <1>1, <2>1, <2>5, ReplaceCopy
  <1>3. CASE s[v] # NoEntry
    <2> DEFINE k == IF s[v].original > 0 THEN s[v].original - 1 ELSE s[v].original
               e == [s[v] EXCEPT !.original = k]
               d == DecOrigin(s, v)
    <2>1. s[v] \in Entry /\ v \in Held(s)
      BY <1>1, <1>3 DEF Part, Held
    <2>2. k \in 0..OriginalPutNum
      BY <2>1, Constants DEF Entry
    <2>3. /\ e \in Entry /\ e.src = s[v].src /\ e.recvd = s[v].recvd
          /\ e.age = s[v].age /\ e.ttl = s[v].ttl /\ e.wild = s[v].wild
      BY <2>1, <2>2 DEF Entry
    <2>4. d = [s EXCEPT ![v] = e]
      BY <1>1 DEF DecOrigin, Part
    <2>5. Fine(s[v], H)
      BY <2>1 DEF Sound
    <2>6. r = d \/ r = erase_sdata(d, v, f.src)
      BY <1>3 DEF AfterLookup
    <2> HIDE DEF d, e, k
    <2>7. Fine(e, H)
      BY <2>3, <2>5 DEF Fine
    <2>8. d \in Part /\ Follows(s, d) /\ Sound(d, H)
      <3>1. d \in Part
        BY <1>1, <2>3, <2>4 DEF Part
      <3> QED BY <1>1, <1>3, <2>3, <2>4, <2>7, <3>1, ReplaceCopy
    <2>9. /\ Follows(d, erase_sdata(d, v, f.src))
          /\ Sound(erase_sdata(d, v, f.src), H)
      BY <1>1, <2>8, EraseCopy
    <2> QED BY <2>6, <2>8, <2>9, FollowsOn
  <1> QED BY <1>2, <1>3

\* A unit goes by.
LEMMA AgedCopy ==
    ASSUME NEW s \in Part, NEW H, Sound(s, H)
    PROVE  Sound(refresh(Aged(s)), H) /\ Held(refresh(Aged(s))) \subseteq Held(s)
  <1> DEFINE a == Aged(s)
             r == refresh(a)
  <1>1. ASSUME NEW v \in Values, r[v] # NoEntry
        PROVE  s[v] # NoEntry /\ Fine(r[v], H)
    <2>1. r[v] = a[v] /\ a[v] # NoEntry
      BY <1>1 DEF refresh
    <2>2. a[v] = IF s[v] = NoEntry \/ s[v].age < 0 THEN s[v]
                 ELSE [s[v] EXCEPT !.age = s[v].age + 1]
      BY DEF Aged
    <2> HIDE DEF a, r
    <2>3. s[v] \in Entry /\ s[v] # NoEntry
      BY <2>1, <2>2 DEF Part
    <2>4. Fine(s[v], H)
      BY <2>3 DEF Sound, Held
    <2>5. CASE s[v].age < 0
      BY <2>1, <2>2, <2>3, <2>4, <2>5
    <2>6. CASE ~ (s[v].age < 0)
      <3>1. /\ a[v].age = s[v].age + 1 /\ a[v].recvd = s[v].recvd /\ a[v].src = s[v].src
            /\ s[v].age \in Int
        BY <2>2, <2>3, <2>6 DEF Entry
      <3> QED BY <2>1, <2>3, <2>4, <2>6, <3>1 DEF Fine
    <2> QED BY <2>5, <2>6
  <1> HIDE DEF r
  <1> QED BY <1>1 DEF Sound, Held, r, a
-----------------------------------------------------------------------------
(* The steps and the copies. *)

\* More nodes have had a value, and more faults have happened.
Growing == had \subseteq had' /\ faults \in Nat /\ faults' \in Nat /\ faults' >= faults

\* The nodes that are taken to have a value stay so.
LEMMA TakenGrows == Growing => Taken \subseteq Taken'
  BY DEF Growing, Taken

\* What is sound stays so.
LEMMA SoundGrows ==
    ASSUME NEW s, NEW H, NEW G, H \subseteq G, Sound(s, H)
    PROVE  Sound(s, G)
  BY DEF Sound, Fine

\* The initial states.
LEMMA CopyInit == Init => CopyInv
  <1> SUFFICES ASSUME Init PROVE CopyInv
    OBVIOUS
  <1>1. \A n \in Nodes : Held(m_stored[n]) = {}
    BY DEF Init, Held
  <1>2. Holders
    BY <1>1 DEF Holders, Sound
  <1>3. Sources /\ Joined
    BY StoreAssumption DEF Init, Sources, Joined
  <1>4. faults \in Nat /\ ~ calm
    BY DEF Init
  <1> QED BY <1>2, <1>3, <1>4 DEF CopyInv

\* Store() of what is sound.
LEMMA StoreHolders ==
    ASSUME Entries, Holders, NEW n \in Nodes, NEW s, Store(n, s), faults \in Nat, faults' \in Nat,
           faults' >= faults, Sound(s, Taken')
    PROVE  Holders' /\ Growing /\ (Held(s) # {} => n \in Taken')
  <1>1. m_stored \in [Nodes -> Part] /\ m_stored' = [m_stored EXCEPT ![n] = s]
    BY DEF Entries, Store
  <1>2. m_stored'[n] = s /\ \A k \in Nodes : k # n => m_stored'[k] = m_stored[k]
    BY <1>1
  <1>3. Growing /\ (Held(s) # {} => n \in had')
    BY DEF Store, Growing
  <1>4. Held(s) # {} => n \in Taken'
    BY <1>3 DEF Taken
  <1>5. ASSUME NEW k \in Nodes
        PROVE  Sound(m_stored'[k], Taken') /\ (Held(m_stored'[k]) # {} => k \in Taken')
    <2>1. CASE k = n
      BY <1>2, <1>4, <2>1
    <2>2. CASE k # n
      <3>1. Sound(m_stored[k], Taken) /\ (Held(m_stored[k]) # {} => k \in Taken)
        BY DEF Holders
      <3> QED BY <1>2, <1>3, <2>2, <3>1, TakenGrows, SoundGrows
    <2> QED BY <2>1, <2>2
  <1>6. Holders'
    BY <1>5 DEF Holders, Sound, Held
  <1> QED BY <1>3, <1>4, <1>6

\* A step that leaves the entries.
LEMMA SameHolders ==
    ASSUME Holders, Growing, UNCHANGED m_stored
    PROVE  Holders'
  <1>1. ASSUME NEW k \in Nodes
        PROVE  Sound(m_stored[k], Taken') /\ (Held(m_stored[k]) # {} => k \in Taken')
    BY TakenGrows, SoundGrows DEF Holders
  <1> QED BY <1>1 DEF Holders, Sound, Held

\* What is under way becomes less.
LEMMA FewerSources ==
    ASSUME Sources, Growing, finding' \subseteq finding, net' \subseteq net
    PROVE  Sources'
  BY TakenGrows DEF Sources

\* The end of a transfer: the receiver has a value, was told to remove one or there was a fault.
LEMMA StoreBothHolders ==
    ASSUME Entries, Holders, NEW t \in Transfers, NEW s \in Part, StoreBoth(t, s),
           faults \in Nat, faults' \in Nat, faults' >= faults, Sound(s, Taken'),
           Held(s) # {} \/ t.f.ttl = 0 \/ faults' > 0
    PROVE  Holders' /\ Growing
  <1> DEFINE n == t.f.node
             v == t.f.value
             ins(r) == insert2recvd_sdata(r, v, t.to)
  <1>1. n \in Nodes /\ t.to \in Nodes /\ v \in Values /\ t.to \in Owners
    BY Constants DEF Transfers, Func
  <1>2. \A k \in Nodes : m_stored'[k] =
             IF k = n THEN ins(IF k = t.to THEN s ELSE m_stored[k])
             ELSE IF k = t.to THEN s ELSE m_stored[k]
    BY DEF StoreBoth
  <1>3. Growing /\ (Held(s) # {} \/ t.f.ttl = 0 => t.to \in had')
    BY DEF StoreBoth, Growing
  <1>4. t.to \in Taken' /\ Taken \subseteq Taken'
    BY <1>1, <1>3, TakenGrows DEF Taken
  <1> HIDE DEF n, v
  <1>5. \A r \in Part : Sound(r, Taken') => Sound(ins(r), Taken') /\ Held(ins(r)) = Held(r)
    BY <1>1, <1>4, InsertCopy
  <1> HIDE DEF ins
  <1>6. ASSUME NEW k \in Nodes
        PROVE  Sound(m_stored'[k], Taken') /\ (Held(m_stored'[k]) # {} => k \in Taken')
    <2>1. CASE k = t.to
      BY <1>2, <1>4, <1>5, <2>1
    <2>2. CASE k # t.to
      <3>1. m_stored[k] \in Part /\ (Held(m_stored[k]) # {} => k \in Taken')
        BY <1>4 DEF Entries, Holders
      <3>2. Sound(m_stored[k], Taken')
        BY <1>4, SoundGrows DEF Holders
      <3> QED BY <1>2, <1>5, <2>2, <3>1, <3>2
    <2> QED BY <2>1, <2>2
  <1>7. Holders'
    BY <1>6 DEF Holders, Sound, Held
  <1> QED BY <1>3, <1>7

\* A node ends.
LEMMA DownCopy ==
    ASSUME DhtInv, CopyInv, NEW n \in Nodes, Down(n), UNCHANGED tables, faults' \in Nat,
           faults' >= faults, ~ calm'
    PROVE  CopyInv'
  <1>0. Entries /\ Remote
    BY DEF DhtInv
  <1>1. faults \in Nat /\ Holders /\ Sources /\ Joined
    BY DEF CopyInv
  <1> DEFINE s == [v \in Values |-> NoEntry]
  <1>2. Store(n, s) /\ Held(s) = {}
    BY DEF Down, Held
  <1>3. Sound(s, Taken')
    BY <1>2 DEF Sound
  <1> HIDE DEF s
  <1>4. Holders' /\ Growing
    BY <1>0, <1>1, <1>2, <1>3, StoreHolders
  <1>5. Sources'
    BY <1>1, <1>4, FewerSources DEF Down
  <1>6. Joined'
    BY <1>0, <1>1 DEF Down, Joined, Remote
  <1> QED BY <1>4, <1>5, <1>6 DEF CopyInv

\* store().
LEMMA PutCopy ==
    ASSUME DhtInv, CopyInv, NEW p \in Puts, store(p)
    PROVE  CopyInv'
  <1> DEFINE n == p.node
             v == p.value
             s == m_stored[n]
             f == [node |-> n, value |-> v, src |-> p.src, ttl |-> p.ttl,
                   is_unique |-> p.is_unique, wild |-> FALSE]
             search == finding' = IF state[n] = "global" THEN finding \cup {f} ELSE finding
             e == NewEntry(f, p.is_unique, OriginalPutNum)
  <1>0. Entries /\ Remote
    BY DEF DhtInv
  <1>1. faults \in Nat /\ Holders /\ Sources /\ Joined
    BY DEF CopyInv
  <1>2. /\ n \in Nodes /\ v \in Values /\ p.src \in Owners
        /\ p.ttl \in 0..MaxTtl /\ p.is_unique \in BOOLEAN
        /\ p.src \in Nodes => p.src = n
    BY StoreAssumption
  <1>3. f \in Func /\ f.src = p.src /\ f.ttl = p.ttl /\ f.node = n
    BY <1>2 DEF Func
  <1>4. s \in Part /\ Sound(s, Taken)
    BY <1>0, <1>1, <1>2 DEF Entries, Holders
  <1>5. faults' = faults /\ ~ calm' /\ UNCHANGED tables
    BY DEF store, Disturb
  <1>6. CASE p.ttl # 0
    <2>1. search /\ Store(n, add_sdata(s, v, e, TRUE)) /\ UNCHANGED <<state, net>>
      BY <1>6 DEF store
    <2>2. e \in Entry
      BY <1>2, <1>3, NewFields, Constants
    <2>3. Fine(e, Taken \cup {n}) /\ e.age = 0
      BY <1>2, <1>3, NewFine, Constants
    <2>4. Sound(s, Taken \cup {n})
      BY <1>4, SoundGrows
    <2> DEFINE r == add_sdata(s, v, e, TRUE)
    <2> HIDE DEF e, f, search
    <2>5. Sound(r, Taken \cup {n}) /\ Held(r) # {}
      BY <1>2, <1>4, <2>2, <2>3, <2>4, AddCopy
    <2> HIDE DEF r
    <2>6. had' = had \cup {n}
      BY <2>1, <2>5 DEF Store, r
    <2>7. Taken \cup {n} \subseteq Taken'
      BY <1>5, <2>6 DEF Taken
    <2>8. Sound(r, Taken')
      BY <2>5, <2>7, SoundGrows
    <2>9. Holders' /\ Growing
      <3>1. Store(n, r)
        BY <2>1, Zenon DEF r
      <3>2. faults' \in Nat /\ faults' >= faults
        BY <1>1, <1>5
      <3> QED BY <1>0, <1>1, <1>2, <2>8, <3>1, <3>2, StoreHolders
    <2>10. Sources'
      BY <1>1, <1>2, <1>3, <2>1, <2>7 DEF Sources, search
    <2>11. Joined'
      BY <1>1, <1>5, <2>1 DEF Joined
    <2> QED BY <1>1, <1>5, <2>9, <2>10, <2>11 DEF CopyInv
  <1>7. CASE p.ttl = 0 /\ search /\ Store(n, erase_sdata(s, v, p.src)) /\ UNCHANGED <<state, net>>
    <2> DEFINE r == erase_sdata(s, v, p.src)
    <2>1. Sound(r, Taken)
      BY <1>2, <1>4, EraseCopy
    <2> HIDE DEF r, f, search
    <2>2. had \subseteq had'
      BY <1>7 DEF Store
    <2>3. Taken \subseteq Taken'
      BY <1>5, <2>2 DEF Taken
    <2>4. Holders' /\ Growing
      <3>1. Store(n, r) /\ faults' \in Nat /\ faults' >= faults
        BY <1>1, <1>5, <1>7 DEF r
      <3> QED BY <1>0, <1>1, <1>2, <2>1, <2>3, <3>1, SoundGrows, StoreHolders
    <2>5. Sources'
      BY <1>1, <1>2, <1>3, <1>7, <2>3 DEF Sources, search
    <2>6. Joined'
      BY <1>1, <1>5, <1>7 DEF Joined
    <2> QED BY <1>1, <1>5, <2>4, <2>5, <2>6 DEF CopyInv
  <1>8. CASE Down(n)
    BY <1>1, <1>2, <1>5, <1>8, DownCopy
  <1> QED BY <1>6, <1>7, <1>8 DEF store

\* Nodes start, find out about their NAT and crash.
LEMMA NodesCopy ==
    ASSUME DhtInv, CopyInv, NEW n \in Nodes, Start(n) \/ Detected(n) \/ Crash(n)
    PROVE  CopyInv'
  <1>0. Remote
    BY DEF DhtInv
  <1>1. faults \in Nat /\ Holders /\ Sources /\ Joined
    BY DEF CopyInv
  <1>2. CASE Start(n) \/ Detected(n)
    <2>1. UNCHANGED <<m_stored, finding, net, faults, had>> /\ ~ calm'
      BY <1>2 DEF Start, Detected, Disturb
    <2>2. Growing
      BY <1>1, <2>1 DEF Growing
    <2>3. Joined'
      BY <1>0, <1>1, <1>2 DEF Start, Detected, Joined, Remote
    <2> QED BY <1>1, <2>1, <2>2, <2>3, SameHolders, FewerSources DEF CopyInv
  <1>3. CASE Crash(n)
    <2>1. Down(n) /\ UNCHANGED tables /\ faults' \in Nat /\ faults' >= faults /\ ~ calm'
      BY <1>1, <1>3 DEF Crash, Fault, Disturb
    <2> QED BY <2>1, DownCopy
  <1> QED BY <1>2, <1>3

\* A connection that fails, and one that sweep_rdp() closes.
LEMMA GivenUpCopy ==
    ASSUME DhtInv, CopyInv, NEW t \in net, store_failed(t) \/ sweep_rdp(t)
    PROVE  CopyInv'
  <1>0. Entries /\ Moving /\ Remote
    BY DEF DhtInv
  <1>1. faults \in Nat /\ Holders /\ Sources /\ Joined /\ (calm => Calm)
    BY DEF CopyInv
  <1>2. t \in Transfers /\ t.to \in Nodes
    BY <1>0 DEF Moving, Transfers
  <1>3. CASE store_failed(t)
    <2>1. net' \subseteq net /\ UNCHANGED <<m_stored, finding, had, state, tables>>
          /\ faults' \in Nat /\ faults' >= faults
      BY <1>1, <1>3 DEF store_failed, Fault, history, remote
    <2>2. ~ calm'
      <3>1. CASE state[t.to] = "down"
        <4>1. ~ calm
          BY <1>1, <3>1 DEF Calm
        <4> QED BY <1>3, <3>1, <4>1 DEF store_failed, history
      <3>2. CASE state[t.to] # "down"
        BY <1>3, <3>2 DEF store_failed, Fault, Disturb
      <3> QED BY <3>1, <3>2
    <2>3. Growing
      BY <1>1, <2>1 DEF Growing
    <2>4. Joined'
      BY <1>1, <2>1 DEF Joined
    <2> QED BY <1>1, <2>1, <2>2, <2>3, <2>4, SameHolders, FewerSources DEF CopyInv
  <1>4. CASE sweep_rdp(t)
    <2>1. StoreBoth(t, m_stored[t.to]) /\ faults' = faults + 1 /\ ~ calm'
          /\ UNCHANGED <<state, tables, finding>>
      BY <1>4 DEF sweep_rdp, Fault, Disturb, remote
    <2>2. m_stored[t.to] \in Part /\ Sound(m_stored[t.to], Taken)
      BY <1>0, <1>1, <1>2 DEF Entries, Holders
    <2>3. had \subseteq had' /\ net' \subseteq net
      BY <2>1 DEF StoreBoth
    <2>4. Growing
      BY <1>1, <2>1, <2>3 DEF Growing
    <2>5. Sound(m_stored[t.to], Taken')
      BY <2>2, <2>4, TakenGrows, SoundGrows
    <2>6. Holders'
      BY <1>0, <1>1, <1>2, <2>1, <2>2, <2>5, StoreBothHolders
    <2>7. Joined'
      BY <1>1, <2>1 DEF Joined
    <2> QED BY <1>1, <2>1, <2>3, <2>4, <2>6, <2>7, FewerSources DEF CopyInv
  <1> QED BY <1>3, <1>4

\* The nodes that a lookup finds are in the tables, and are the same while those are.
LEMMA ClosestKnown ==
    ASSUME NEW n \in Nodes
    PROVE  /\ Closest(n) \subseteq tables \cup {n}
           /\ UNCHANGED tables => Closest(n)' = Closest(n)
  BY DEF Closest

\* n passes on what it has passed on, if what it waits for ends only by arriving.
LEMMA PassedStep ==
    ASSUME NEW n \in Nodes, Passed(n), UNCHANGED tables,
           Follows(m_stored[n], m_stored'[n]),
           \A v \in Held(m_stored'[n]), p \in Closest(n) \ {n} :
              Awaited(n, v, p) => p \in m_stored'[n][v].recvd \/ Awaited(n, v, p)'
    PROVE  Passed(n)'
  <1> SUFFICES ASSUME NEW v \in Live(n)', NEW p \in Closest(n)' \ {n},
                      ~ m_stored'[n][v].wild, m_stored'[n][v].age # 0
               PROVE  p \in m_stored'[n][v].recvd \/ Awaited(n, v, p)'
    BY DEF Passed
  <1>1. /\ v \in Values /\ m_stored'[n][v] # NoEntry /\ v \in Held(m_stored'[n])
        /\ m_stored'[n][v].age < m_stored'[n][v].ttl
    BY DEF Live, Held
  <1>2. /\ m_stored[n][v] # NoEntry /\ ~ m_stored[n][v].wild
        /\ m_stored'[n][v].age = m_stored[n][v].age /\ m_stored'[n][v].ttl = m_stored[n][v].ttl
        /\ m_stored[n][v].recvd \subseteq m_stored'[n][v].recvd
    BY <1>1 DEF Follows
  <1>3. v \in Live(n)
    BY <1>1, <1>2 DEF Live, Held
  <1>4. p \in Closest(n) \ {n}
    BY ClosestKnown
  <1>5. p \in m_stored[n][v].recvd \/ Awaited(n, v, p)
    BY <1>2, <1>3, <1>4 DEF Passed
  <1> QED BY <1>1, <1>2, <1>4, <1>5

\* store_func: the transfers take the place of the lookup.
LEMMA LookupCopy ==
    ASSUME DhtInv, CopyInv, NEW f \in finding, store_func(f)
    PROVE  CopyInv'
  <1> DEFINE n == f.node
             s == m_stored[n]
             nodes == Closest(n)
  <1>0. Entries /\ Moving
    BY DEF DhtInv
  <1>1. faults \in Nat /\ Holders /\ Sources /\ Joined /\ (calm => Calm)
    BY DEF CopyInv
  <1>2. f \in Func /\ n \in Nodes /\ f.value \in Values
    BY <1>0 DEF Moving, Func
  <1>3. s \in Part /\ m_stored \in [Nodes -> Part] /\ Sound(s, Taken)
    BY <1>0, <1>1, <1>2 DEF Entries, Holders
  <1>4. /\ finding' = finding \ {f}
        /\ net' = net \cup {Transfer(f, p) : p \in nodes \ {n}}
        /\ UNCHANGED <<state, tables, due, faults, calm>>
    BY DEF store_func, remote, history
  <1>5. Holders' /\ Growing /\ \A k \in Nodes : Follows(m_stored[k], m_stored'[k])
    <2>1. CASE UNCHANGED <<m_stored, had>>
      <3>1. Growing
        BY <1>1, <1>4, <2>1 DEF Growing
      <3> QED BY <1>1, <2>1, <3>1, SameHolders, FollowsOn
    <2>2. CASE \E r \in AfterLookup(s, f, n \in nodes) : Store(n, r)
      <3>1. PICK r \in AfterLookup(s, f, n \in nodes) : Store(n, r)
        BY <2>2
      <3>2. s[f.value] = NoEntry => Held(r) # {}
        <4> SUFFICES ASSUME s[f.value] = NoEntry PROVE Held(r) # {}
          OBVIOUS
        <4>1. r \in Part
          BY <1>2, <1>3, AfterLookupKept, Zenon
        <4>2. PICK e \in Wild(f) : r = [s EXCEPT ![f.value] = e]
          BY DEF AfterLookup
        <4>3. DOMAIN e # {"src"}
          BY <4>2 DEF Wild, NewEntry
        <4>4. r[f.value] # NoEntry
          BY <1>2, <1>3, <4>2, <4>3 DEF Part, NoEntry
        <4> QED BY <1>2, <4>4 DEF Held
      <3>3. had \subseteq had' /\ (Held(r) # {} => n \in had')
        BY <3>1 DEF Store
      <3>4. Taken \subseteq Taken' /\ (Held(r) # {} => n \in Taken')
        BY <1>4, <3>3 DEF Taken
      <3>5. s[f.value] = NoEntry /\ f.src \in Nodes => f.src \in Taken'
        BY <1>1, <3>2, <3>4 DEF Sources
      <3>6. Sound(s, Taken')
        BY <1>3, <3>4, SoundGrows
      <3>7. Follows(s, r) /\ Sound(r, Taken')
        BY <1>2, <1>3, <3>5, <3>6, AfterCopy, Zenon
      <3>8. faults' \in Nat /\ faults' >= faults
        BY <1>1, <1>4
      <3>9. Holders' /\ Growing
        BY <1>0, <1>1, <1>2, <3>1, <3>7, <3>8, StoreHolders
      <3>10. m_stored'[n] = r /\ \A k \in Nodes : k # n => m_stored'[k] = m_stored[k]
        BY <1>2, <1>3, <3>1 DEF Store
      <3>11. \A k \in Nodes : Follows(m_stored[k], m_stored'[k])
        BY <3>7, <3>10, FollowsOn
      <3> QED BY <3>9, <3>11
    <2> QED BY <2>1, <2>2 DEF store_func
  <1>6. \A p : Transfer(f, p).f = f /\ Transfer(f, p).to = p
    BY DEF Transfer
  <1>7. Sources'
    BY <1>1, <1>4, <1>5, <1>6, TakenGrows DEF Sources
  <1>8. Joined'
    BY <1>1, <1>4 DEF Joined
  <1>9. ASSUME calm PROVE Calm'
    <2>1. \A g \in finding' : g.ttl # 0
      BY <1>1, <1>4, <1>9 DEF Calm
    <2>2. \A t \in net' : t.f.ttl # 0 /\ t.to \in tables
      BY <1>1, <1>2, <1>4, <1>6, <1>9, ClosestKnown DEF Calm
    <2>3. ASSUME NEW k \in Nodes \ due, state[k] = "global"
          PROVE  Passed(k)'
      <3>1. Passed(k)
        BY <1>1, <1>9, <2>3 DEF Calm
      <3>2. ASSUME NEW v, NEW p \in Closest(k) \ {k}, Awaited(k, v, p)
            PROVE  Awaited(k, v, p)'
        <4>1. CASE k = n /\ v = f.value
          <5>1. Transfer(f, p) \in net'
            BY <1>4, <4>1
          <5> QED BY <1>6, <4>1, <5>1 DEF Awaited
        <4>2. CASE ~ (k = n /\ v = f.value)
          BY <1>4, <3>2, <4>2 DEF Awaited
        <4> QED BY <4>1, <4>2
      <3> QED BY <1>4, <1>5, <3>1, <3>2, PassedStep
    <2>4. \A k \in tables' : state'[k] = "global"
      BY <1>1, <1>4, <1>9 DEF Calm
    <2> QED BY <1>4, <2>1, <2>2, <2>3, <2>4 DEF Calm
  <1> QED BY <1>1, <1>4, <1>5, <1>7, <1>8, <1>9 DEF CopyInv

\* store2local(): the receiver has a value, and the sender notes it.
LEMMA ArriveCopy ==
    ASSUME DhtInv, CopyInv, NEW t \in net, store2local(t)
    PROVE  CopyInv'
  <1> DEFINE n == t.to
             v == t.f.value
             s == m_stored[n]
             ins(r) == insert2recvd_sdata(r, v, t.to)
  <1>0. Entries /\ Moving
    BY DEF DhtInv
  <1>1. faults \in Nat /\ Holders /\ Sources /\ Joined /\ (calm => Calm)
    BY DEF CopyInv
  <1>2. t \in Transfers /\ n \in Nodes /\ t.f \in Func /\ n \in Owners
    BY <1>0, Constants DEF Moving, Transfers
  <1>3. v \in Values /\ t.f.src \in Owners /\ t.f.is_unique \in BOOLEAN
    BY <1>2 DEF Func
  <1>4. s \in Part /\ Sound(s, Taken) /\ \A k \in Nodes : m_stored[k] \in Part /\ Sound(m_stored[k], Taken)
    BY <1>0, <1>1, <1>2 DEF Entries, Holders
  <1>5. UNCHANGED <<tables, faults, calm>> /\ faults' \in Nat /\ faults' >= faults
    BY <1>1 DEF store2local, history
  <1>6. CASE t.f.ttl # 0
    <2>1. PICK unique \in BOOLEAN :
            StoreBoth(t, insert2recvd_sdata(
                            add_sdata(s, v, NewEntry(t.f, unique, 0), FALSE), v, t.f.src))
      BY <1>6 DEF store2local
    <2> DEFINE e == NewEntry(t.f, unique, 0)
               a == add_sdata(s, v, e, FALSE)
               r == insert2recvd_sdata(a, v, t.f.src)
    <2>2. UNCHANGED <<state, finding, due>>
      BY <1>6 DEF store2local
    <2>3. t.f.src \in Nodes => t.f.src \in Taken
      BY <1>1, <1>6 DEF Sources
    <2>4. e \in Entry /\ Fine(e, Taken) /\ e.age = 0
      BY <1>2, <2>3, NewFields, NewFine, Constants
    <2> HIDE DEF e
    <2>5. Follows(s, a) /\ Sound(a, Taken) /\ Held(a) # {} /\ a \in Part
      <3>1. a \in Part
        BY <1>3, <1>4, <2>4, AddKept DEF Kept
      <3> QED BY <1>3, <1>4, <2>4, <3>1, AddCopy
    <2> HIDE DEF a
    <2>6. Follows(a, r) /\ Held(r) = Held(a) /\ Sound(r, Taken) /\ r \in Part
      <3>1. r \in Part
        BY <1>3, <2>5, EraseInsertSafe DEF Shrunk
      <3> QED BY <1>3, <2>3, <2>5, <3>1, InsertCopy
    <2>7. StoreBoth(t, r)
      BY <2>1 DEF a, e
    <2> HIDE DEF r
    <2>8. Follows(s, r) /\ Held(r) # {}
      BY <2>5, <2>6, FollowsOn
    <2>9. Growing
      BY <1>1, <1>5, <2>7 DEF StoreBoth, Growing
    <2>10. Holders'
      BY <1>0, <1>1, <1>2, <1>5, <2>6, <2>7, <2>8, <2>9, TakenGrows, SoundGrows, StoreBothHolders
    <2>11. net' = net \ {t}
      BY <2>7 DEF StoreBoth
    <2>12. Sources' /\ Joined'
      <3>1. Joined'
        BY <1>1, <1>5, <2>2 DEF Joined
      <3> QED BY <1>1, <2>2, <2>9, <2>11, <3>1, FewerSources
    <2>13. ASSUME calm PROVE Calm'
      <3>1. ASSUME NEW k \in Nodes
            PROVE  /\ Follows(m_stored[k], m_stored'[k])
                   /\ k = t.f.node /\ v \in Held(m_stored'[k]) => n \in m_stored'[k][v].recvd
        <4> DEFINE x == IF k = n THEN r ELSE m_stored[k]
        <4>1. m_stored'[k] = IF k = t.f.node THEN ins(x) ELSE x
          BY <2>7 DEF StoreBoth
        <4>2. x \in Part /\ Follows(m_stored[k], x) /\ Sound(x, Taken)
          BY <1>4, <2>6, <2>8, FollowsOn
        <4> HIDE DEF x
        <4>3. Follows(x, ins(x)) /\ (ins(x)[v] # NoEntry => n \in ins(x)[v].recvd)
          BY <1>2, <1>3, <4>2, InsertCopy
        <4> HIDE DEF ins
        <4> QED BY <4>1, <4>2, <4>3, FollowsOn DEF Held
      <3>2. ASSUME NEW k \in Nodes \ due, state[k] = "global"
            PROVE  Passed(k)'
        <4>1. Passed(k)
          BY <1>1, <2>13, <3>2 DEF Calm
        <4>2. ASSUME NEW w \in Held(m_stored'[k]), NEW p, Awaited(k, w, p)
              PROVE  p \in m_stored'[k][w].recvd \/ Awaited(k, w, p)'
          BY <2>2, <2>11, <3>1, <4>2 DEF Awaited
        <4> QED BY <1>5, <3>1, <4>1, <4>2, PassedStep
      <3> QED BY <1>1, <1>5, <2>2, <2>11, <2>13, <3>2 DEF Calm
    <2> QED BY <1>1, <1>5, <2>10, <2>12, <2>13 DEF CopyInv
  <1>7. CASE t.f.ttl = 0
    <2>1. ~ calm /\ ~ calm'
      BY <1>1, <1>5, <1>7 DEF Calm
    <2>2. CASE StoreBoth(t, erase_sdata(s, v, t.f.src)) /\ UNCHANGED <<state, finding>>
      <3> DEFINE r == erase_sdata(s, v, t.f.src)
      <3>1. Sound(r, Taken) /\ r \in Part
        BY <1>3, <1>4, EraseCopy, EraseInsertSafe DEF Shrunk
      <3>2. StoreBoth(t, r)
        BY <2>2
      <3> HIDE DEF r
      <3>3. Growing /\ net' \subseteq net
        BY <1>1, <1>5, <3>2 DEF StoreBoth, Growing
      <3>4. Holders'
        BY <1>0, <1>1, <1>2, <1>5, <1>7, <3>1, <3>2, <3>3, TakenGrows, SoundGrows, StoreBothHolders
      <3>5. Joined'
        BY <1>1, <1>5, <2>2 DEF Joined
      <3> QED BY <1>1, <1>5, <2>1, <2>2, <3>3, <3>4, <3>5, FewerSources DEF CopyInv
    <2>3. CASE Down(n)
      BY <1>2, <1>5, <2>1, <2>3, DownCopy
    <2> QED BY <1>7, <2>2, <2>3 DEF store2local
  <1> QED BY <1>6, <1>7

\* restore(): what the node keeps it passes on to those that it does not take to have it.
LEMMA RestoreCopy ==
    ASSUME DhtInv, CopyInv, NEW n \in Nodes, restore(n)
    PROVE  CopyInv'
  <1> DEFINE s == m_stored[n]
             originals == {v \in Live(n) : s[v].original > 0}
             copies == Live(n) \ originals
             pass(v) == {Transfer(SFunc(n, v, s[v].ttl), p) : p \in PassTo(n, s[v])}
             r == [v \in Values |-> IF v \in originals \/ (v \in copies /\ n \in Closest(n))
                                    THEN s[v] ELSE NoEntry]
  <1>0. Entries /\ Moving
    BY DEF DhtInv
  <1>1. faults \in Nat /\ Holders /\ Sources /\ Joined /\ (calm => Calm)
    BY DEF CopyInv
  <1>2. /\ UNCHANGED <<state, tables, faults, calm>> /\ due' = due \ {n}
        /\ faults' \in Nat /\ faults' >= faults
    BY <1>1 DEF restore, remote, history
  <1>3. s \in Part /\ m_stored \in [Nodes -> Part] /\ Sound(s, Taken)
    BY <1>0, <1>1 DEF Entries, Holders
  <1>4. Joined'
    BY <1>1, <1>2 DEF Joined
  <1>5. CASE state[n] # "global"
    <2>1. UNCHANGED <<m_stored, finding, net, had>>
      BY <1>5 DEF restore
    <2>2. Growing
      BY <1>1, <1>2, <2>1 DEF Growing
    <2>3. ASSUME calm PROVE Calm'
      <3>1. ASSUME NEW k \in Nodes, Passed(k) PROVE Passed(k)'
        <4>1. \A v, p : Awaited(k, v, p) => Awaited(k, v, p)'
          BY <2>1 DEF Awaited
        <4> QED BY <1>2, <2>1, <3>1, <4>1, FollowsOn, PassedStep
      <3> QED BY <1>1, <1>2, <1>5, <2>1, <2>3, <3>1 DEF Calm
    <2> QED BY <1>1, <1>2, <1>4, <2>1, <2>2, <2>3, SameHolders, FewerSources DEF CopyInv
  <1>6. CASE state[n] = "global"
    <2>1. /\ finding' = finding \cup {SFunc(n, v, Remaining(s[v])) : v \in originals}
          /\ net' = net \cup UNION {pass(v) : v \in copies}
          /\ Store(n, r)
      BY <1>6 DEF restore
    <2>2. r \in Part /\ \A v \in Values : r[v] \in {s[v], NoEntry}
      BY <1>3 DEF Part
    <2>3. \A v \in Held(r) : v \in Live(n) /\ r[v] = s[v]
      BY DEF Held
    <2>4. ASSUME NEW v \in Live(n)
          PROVE  /\ s[v].src \in Nodes => s[v].src \in Taken
                 /\ Remaining(s[v]) # 0 /\ s[v].ttl # 0
      <3>1. v \in Held(s) /\ s[v].age < s[v].ttl
        BY DEF Live
      <3>2. s[v] \in Entry /\ Fine(s[v], Taken)
        BY <1>3, <3>1, HeldFacts DEF Sound
      <3>3. s[v].age \in -1..MaxTtl /\ s[v].ttl \in 0..MaxTtl
        BY <3>2 DEF Entry
      <3> QED BY <3>1, <3>2, <3>3, Constants DEF Fine, Remaining
    <2>5. \A v, ttl : /\ SFunc(n, v, ttl).node = n /\ SFunc(n, v, ttl).value = v
                      /\ SFunc(n, v, ttl).ttl = ttl /\ SFunc(n, v, ttl).src = s[v].src
      BY DEF SFunc
    <2>6. \A g, p : Transfer(g, p).f = g /\ Transfer(g, p).to = p
      BY DEF Transfer
    <2> HIDE DEF r, originals
    <2>7. Sound(r, Taken) /\ Follows(s, r)
      BY <1>3, <2>2, DropCopy
    <2>8. had \subseteq had'
      BY <2>1 DEF Store
    <2>9. Growing
      BY <1>1, <1>2, <2>8 DEF Growing
    <2>10. Holders'
      BY <1>0, <1>1, <1>2, <2>1, <2>7, <2>9, TakenGrows, SoundGrows, StoreHolders
    <2>11. originals \subseteq Live(n) /\ copies \subseteq Live(n)
      BY DEF originals
    <2>12. ASSUME NEW f \in finding', f \notin finding
           PROVE  f.ttl # 0 /\ (f.src \in Nodes => f.src \in Taken)
      <3>1. PICK v \in originals : f = SFunc(n, v, Remaining(s[v]))
        BY <2>1, <2>12
      <3> QED BY <2>4, <2>5, <2>11, <3>1
    <2>13. ASSUME NEW t \in net', t \notin net
           PROVE  t.f.ttl # 0 /\ (t.f.src \in Nodes => t.f.src \in Taken) /\ t.to \in tables
      <3>1. PICK v \in copies : t \in pass(v)
        BY <2>1, <2>13
      <3>2. PICK p \in PassTo(n, s[v]) : t = Transfer(SFunc(n, v, s[v].ttl), p)
        BY <3>1
      <3>3. p \in tables
        BY <3>2, ClosestKnown DEF PassTo
      <3> QED BY <2>4, <2>5, <2>6, <2>11, <3>1, <3>2, <3>3
    <2>14. Sources'
      BY <1>1, <2>9, <2>12, <2>13, TakenGrows DEF Sources
    <2>15. ASSUME calm PROVE Calm'
      <3>1. m_stored'[n] = r /\ \A k \in Nodes : k # n => m_stored'[k] = m_stored[k]
        BY <1>3, <2>1 DEF Store
      <3>2. finding \subseteq finding' /\ net \subseteq net'
        BY <2>1
      <3>3. ASSUME NEW k \in Nodes \ due', k # n, state[k] = "global"
            PROVE  Passed(k)'
        <4>1. Passed(k)
          BY <1>1, <1>2, <2>15, <3>3 DEF Calm
        <4>2. \A v, p : Awaited(k, v, p) => Awaited(k, v, p)'
          BY <3>2 DEF Awaited
        <4>3. Follows(m_stored[k], m_stored'[k])
          BY <3>1, <3>3, FollowsOn
        <4> QED BY <1>2, <4>1, <4>2, <4>3, PassedStep
      <3>4. Passed(n)'
        <4> SUFFICES ASSUME NEW v \in Live(n)', NEW p \in Closest(n)' \ {n}
                     PROVE  p \in m_stored'[n][v].recvd \/ Awaited(n, v, p)'
          BY DEF Passed
        <4>1. v \in Live(n) /\ r[v] = s[v]
          BY <2>3, <3>1 DEF Live
        <4>2. p \in Closest(n) \ {n}
          BY <1>2, ClosestKnown
        <4>3. CASE v \in originals
          <5>1. SFunc(n, v, Remaining(s[v])) \in finding'
            BY <2>1, <4>3
          <5> QED BY <2>5, <5>1 DEF Awaited
        <4>4. CASE v \in copies /\ p \notin s[v].recvd
          <5>1. p \in PassTo(n, s[v])
            BY <4>2, <4>4 DEF PassTo
          <5>2. Transfer(SFunc(n, v, s[v].ttl), p) \in net'
            BY <2>1, <4>4, <5>1
          <5> QED BY <2>5, <2>6, <5>2 DEF Awaited
        <4> QED BY <3>1, <4>1, <4>3, <4>4
      <3>5. \A f \in finding' : f.ttl # 0
        BY <1>1, <2>12, <2>15 DEF Calm
      <3>6. \A t \in net' : t.f.ttl # 0 /\ t.to \in tables
        BY <1>1, <2>13, <2>15 DEF Calm
      <3> QED BY <1>1, <1>2, <2>15, <3>3, <3>4, <3>5, <3>6 DEF Calm
    <2> QED BY <1>1, <1>2, <1>4, <2>10, <2>14, <2>15 DEF CopyInv
  <1> QED BY <1>5, <1>6

\* A unit goes by: every node that runs is about to restore.
LEMMA TickCopy ==
    ASSUME DhtInv, CopyInv, Tick
    PROVE  CopyInv'
  <1>0. Entries /\ Remote
    BY DEF DhtInv
  <1>1. faults \in Nat /\ Holders /\ Sources /\ Joined
    BY DEF CopyInv
  <1>2. /\ finding' = {} /\ net' = {} /\ UNCHANGED <<state, faults, had>>
        /\ m_stored' = [n \in Nodes |-> refresh(Aged(m_stored[n]))]
        /\ tables' = {n \in tables : state[n] # "down"}
        /\ due' = {n \in Nodes : state[n] \in Running}
    BY DEF Tick, Quiet
  <1>3. Taken' = Taken
    BY <1>2 DEF Taken
  <1>4. ASSUME NEW n \in Nodes
        PROVE  Sound(m_stored'[n], Taken') /\ (Held(m_stored'[n]) # {} => n \in Taken')
    <2>1. m_stored[n] \in Part /\ Sound(m_stored[n], Taken)
      BY <1>0, <1>1 DEF Entries, Holders
    <2>2. Held(m_stored[n]) # {} => n \in Taken
      BY <1>1 DEF Holders
    <2> QED BY <1>2, <1>3, <2>1, <2>2, AgedCopy
  <1>5. Holders'
    BY <1>4 DEF Holders, Sound, Held
  <1>6. Sources' /\ Joined'
    BY <1>1, <1>2 DEF Sources, Joined
  <1>7. Calm'
    BY <1>0, <1>1, <1>2 DEF Calm, Joined, Running, Remote
  <1> QED BY <1>1, <1>2, <1>5, <1>6, <1>7 DEF CopyInv

\* Every step keeps the invariant of the copies.
LEMMA CopyStep == DhtInv /\ CopyInv /\ [Next]_vars => CopyInv'
  <1> SUFFICES ASSUME DhtInv, CopyInv, [Next]_vars PROVE CopyInv'
    OBVIOUS
  <1>1. CASE \E p \in Puts : store(p)
    BY <1>1, PutCopy
  <1>2. CASE Proceed
    BY <1>2, LookupCopy, ArriveCopy, GivenUpCopy, RestoreCopy, TickCopy DEF Proceed
  <1>3. CASE Disturbance
    BY <1>3, GivenUpCopy, NodesCopy DEF Disturbance
  <1>4. CASE UNCHANGED vars
    <2>1. UNCHANGED <<m_stored, state, tables, finding, net, due, faults, calm, had>>
      BY <1>4 DEF vars, history, remote
    <2>2. faults \in Nat /\ Holders /\ Sources /\ Joined /\ (calm => Calm)
      BY DEF CopyInv
    <2>3. Growing
      BY <2>1, <2>2 DEF Growing
    <2>4. ASSUME NEW k \in Nodes, Passed(k) PROVE Passed(k)'
      <3>1. \A v, p : Awaited(k, v, p) => Awaited(k, v, p)'
        BY <2>1 DEF Awaited
      <3> QED BY <2>1, <2>4, <3>1, FollowsOn, PassedStep
    <2>5. calm' => Calm'
      BY <2>1, <2>2, <2>4 DEF Calm
    <2>6. Joined'
      BY <2>1, <2>2 DEF Joined
    <2> QED BY <2>1, <2>2, <2>3, <2>5, <2>6, SameHolders, FewerSources DEF CopyInv
  <1> QED BY <1>1, <1>2, <1>3, <1>4 DEF Next

\* When nothing is under way, what is not noted as received is not old enough.
LEMMA ReplicatedByInv == CopyInv => Replicated
  <1> SUFFICES ASSUME CopyInv, Quiet, calm, NEW n \in Nodes, state[n] = "global",
                      NEW v \in Live(n), NEW p \in Closest(n),
                      ~ m_stored[n][v].wild, m_stored[n][v].age # 0, Held(m_stored[p]) = {}
               PROVE  p \in m_stored[n][v].recvd /\ (p \in had \/ faults > 0)
    BY DEF Replicated
  <1>1. Holders /\ Passed(n) /\ finding = {} /\ net = {}
    BY DEF CopyInv, Calm, Quiet
  <1>2. v \in Held(m_stored[n]) /\ p \in Nodes
    BY ClosestNodes DEF Live
  <1>3. p # n
    BY <1>2
  <1>4. p \in m_stored[n][v].recvd
    BY <1>1, <1>3 DEF Passed, Awaited
  <1>5. p \in Taken
    BY <1>1, <1>2, <1>4 DEF Holders, Sound, Fine
  <1> QED BY <1>4, <1>5 DEF Taken
-----------------------------------------------------------------------------
(* The theorems. *)

\* Whatever is put, passed on, removed, aged and lost, in whatever order, the
\* entries of the nodes are well formed, and a unique value is alone at its node
\* unless dec_origin_sdata() put another beside it.
THEOREM StoreInvariance == Spec => []StoreInv
  <1>1. Spec => []DhtInv
    BY DhtInit, DhtStep, PTL DEF Spec
  <1> QED BY <1>1, StoreByInv, PTL

\* A removal reads past the end of a bucket of m_stored only if the key has had
\* two values.
THEOREM RemovalSafety == Spec => []RemovalSafe
  <1>1. Spec => []DhtInv
    BY DhtInit, DhtStep, PTL DEF Spec
  <1> QED BY <1>1, StoreByInv, PTL

\* No step gives an entry another owner.
THEOREM OwnersKept == Spec => SrcKept
  <1>1. Spec => []DhtInv
    BY DhtInit, DhtStep, PTL DEF Spec
  <1>2. DhtInv /\ [Next]_vars => [SrcStep]_vars
    BY DhtStep
  <1>3. Spec => [][SrcStep]_vars
    BY <1>1, <1>2, PTL DEF Spec
  <1> QED BY <1>3 DEF SrcKept, SrcStep

\* Whenever a unit went by without a put, a fault and a start, each of the nodes
\* closest to a value that a node passes on has a value of the key, or has had one
\* or was told to remove one, or there was a fault: restore() leaves nobody out,
\* however the lookups, the transfers and the timers of the nodes are interleaved.
THEOREM Replication == Spec => []Replicated
  <1>1. Init => DhtInv /\ CopyInv
    BY DhtInit, CopyInit
  <1>2. DhtInv /\ CopyInv /\ [Next]_vars => (DhtInv /\ CopyInv)'
    BY DhtStep, CopyStep
  <1>3. Spec => [](DhtInv /\ CopyInv)
    BY <1>1, <1>2, PTL DEF Spec
  <1> QED BY <1>3, ReplicatedByInv, PTL
=============================================================================
