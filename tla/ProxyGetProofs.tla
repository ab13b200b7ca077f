--------------------------- MODULE ProxyGetProofs ----------------------------
(***************************************************************************)
(* The lookups of the DHT and the get through a proxy are right, for any   *)
(* number of nodes, values, queries and datagrams.                         *)
(*                                                                         *)
(* First, merge_nodes() of two sorted lists has the nearest nodes of both, *)
(* by induction over the rounds of its loop.  The list of a lookup then    *)
(* has the nearest of the nodes it was told, which with the bookkeeping of *)
(* its questions (Open), of its connection (Linked) and of the holders     *)
(* that have answered (Seen) is an invariant of every step.  The get of    *)
(* the client rests on it: what the proxy found is in what the client has, *)
(* what is under way and what is left (Told), until something is cut off.  *)
(*                                                                         *)
(* The same lemmas then give the routing table (RtTable), where lookup()   *)
(* is shown to find the closest nodes in the few rows that it looks at,    *)
(* and the lookups of the tunnel network (DtunQuery) of the same node,     *)
(* each with variables of its own.                                         *)
(***************************************************************************)
EXTENDS ProxyGet, RtTable, DtunQuery, FiniteSetTheorems, SequenceTheorems,
        WellFoundedInduction, TLAPS
-----------------------------------------------------------------------------
(* Numbers, identifiers and their distances. *)

\* Every set of natural numbers has a least element.
LEMMA LeastNat ==
    ASSUME NEW T \in SUBSET Nat, T # {}
    PROVE  \E x \in T : \A y \in T : x <= y
  <1> DEFINE R == {ss \in Nat \X Nat : ss[1] < ss[2]}
  <1>1. IsWellFoundedOn(R, Nat)
    BY NatLessThanWellFounded, Zenon DEF OpToRel
  <1>2. \E x \in T : \A y \in T : ~ (<<y, x>> \in R)
    <2> HIDE DEF R
    <2> QED BY <1>1, WFMin
  <1>3. PICK x \in T : \A y \in T : ~ (<<y, x>> \in R)
    BY <1>2
  <1>4. \A y \in T : ~ (y < x)
    BY <1>3
  <1> QED BY <1>4

\* Induction on the natural numbers, for a set of them.
LEMMA NatSetInduction ==
    ASSUME NEW G, 0 \in G, \A n \in Nat : n \in G => n + 1 \in G
    PROVE  Nat \subseteq G
  <1> SUFFICES ASSUME Nat \ G # {} PROVE FALSE
    OBVIOUS
  <1>1. PICK x \in Nat \ G : \A y \in Nat \ G : x <= y
    BY LeastNat
  <1>2. x - 1 \in Nat /\ ~ (x <= x - 1) /\ (x - 1) + 1 = x
    BY x # 0
  <1> QED BY <1>1, <1>2

\* Max of a set of bits.
LEMMA MaxBit ==
    ASSUME NEW S \in Id, S # {}
    PROVE  Max(S) \in S /\ \A y \in S : y <= Max(S)
  <1>0. S \subseteq Nat /\ \A y \in S : y <= Bits
    BY BitsAssumption DEF Id
  <1> DEFINE U == {n \in Nat : \A y \in S : y <= n}
  <1>1. Bits \in U
    BY <1>0, BitsAssumption
  <1>2. PICK m \in U : \A n \in U : m <= n
    <2> HIDE DEF U
    <2>1. U \in SUBSET Nat
      BY DEF U
    <2> QED BY <1>1, <2>1, LeastNat
  <1>3. m \in S
    <2> SUFFICES ASSUME m \notin S PROVE FALSE
      OBVIOUS
    <2>1. PICK z \in S : TRUE
      OBVIOUS
    <2>2. z \in Nat /\ z <= m /\ z # m
      BY <1>0
    <2>3. m - 1 \in Nat
      BY <2>2
    <2>4. \A y \in S : y <= m - 1
      BY <1>0
    <2>5. m - 1 \in U
      BY <2>3, <2>4
    <2>6. m <= m - 1
      BY <1>2, <2>5
    <2> QED BY <2>6
  <1>4. m \in S /\ \A y \in S : m >= y
    BY <1>0, <1>3
  <1>5. \A x \in S : (\A y \in S : x >= y) => x = m
    BY <1>0, <1>4
  <1>6. Max(S) \in S /\ \A y \in S : Max(S) >= y
    BY <1>4 DEF Max
  <1> QED BY <1>0, <1>6

\* The distance of two identifiers.
LEMMA XorId ==
    ASSUME NEW a \in Id, NEW b \in Id
    PROVE  /\ Xor(a, b) \in Id
           /\ Xor(a, b) = Xor(b, a)
           /\ a # b => Xor(a, b) # {}
  BY DEF Id, Xor

\* Of two nodes one is closer.
LEMMA CloserTotal ==
    ASSUME NEW id \in Id, NEW a \in Id, NEW b \in Id
    PROVE  /\ ~ Closer(id, a, a)
           /\ a # b => (Closer(id, a, b) <=> ~ Closer(id, b, a))
  <1>1. ASSUME a # b PROVE Closer(id, a, b) <=> ~ Closer(id, b, a)
    <2> DEFINE m == Max(Xor(a, b))
    <2>1. m \in Xor(a, b) /\ m = Max(Xor(b, a))
      BY <1>1, XorId, MaxBit
    <2>2. m \in Xor(b, id) <=> m \notin Xor(a, id)
      <3> HIDE DEF m
      <3> QED BY <2>1 DEF Xor
    <2> QED BY <1>1, <2>1, <2>2 DEF Closer
  <1> QED BY <1>1 DEF Closer

\* What the highest bit is.
LEMMA MaxBitIs ==
    ASSUME NEW S \in Id, NEW m \in S, \A y \in S : y <= m
    PROVE  Max(S) = m
  <1>1. Max(S) \in S /\ m <= Max(S) /\ Max(S) <= m
    BY MaxBit
  <1>2. \A x \in S : x \in Int
    BY BitsAssumption DEF Id
  <1>3. Max(S) \in Int /\ m \in Int
    BY <1>1, <1>2
  <1> QED BY <1>1, <1>3

\* Distances are ordered: closer than what is closer is closer.
LEMMA CloserTransitive ==
    ASSUME NEW id \in Id, NEW a \in Id, NEW b \in Id, NEW c \in Id,
           Closer(id, a, b), Closer(id, b, c)
    PROVE  Closer(id, a, c)
  <1> DEFINE m == Max(Xor(a, b))
             k == Max(Xor(b, c))
  <1>1. a # b /\ b # c /\ m \in Xor(b, id) /\ k \in Xor(c, id)
    BY DEF Closer
  <1>2. /\ m \in Xor(a, b) /\ \A y \in Xor(a, b) : y <= m
        /\ k \in Xor(b, c) /\ \A y \in Xor(b, c) : y <= k
    BY <1>1, XorId, MaxBit
  <1>3. Xor(a, b) \subseteq Nat /\ Xor(b, c) \subseteq Nat /\ Xor(a, c) \in Id
    BY BitsAssumption, XorId DEF Id
  <1> HIDE DEF m, k
  <1>4. m # k
    BY <1>1, <1>2 DEF Xor
  <1>5. m \in Nat /\ k \in Nat
    BY <1>2, <1>3
  <1>6. CASE m > k
    <2>1. m \notin Xor(b, c)
      BY <1>2, <1>5, <1>6
    <2>2. m \in Xor(a, c) /\ m \in Xor(c, id)
      BY <1>1, <1>2, <2>1 DEF Xor
    <2>3. \A y \in Xor(a, c) : y \in Xor(a, b) \/ y \in Xor(b, c)
      BY DEF Xor
    <2>4. \A y \in Xor(a, c) : y <= m
      BY <1>2, <1>3, <1>5, <1>6, <2>3
    <2>5. Max(Xor(a, c)) = m
      BY <1>3, <2>2, <2>4, MaxBitIs
    <2>6. a # c
      BY <2>2 DEF Xor
    <2> QED BY <2>2, <2>5, <2>6 DEF Closer
  <1>7. CASE k > m
    <2>1. k \notin Xor(a, b)
      BY <1>2, <1>5, <1>7
    <2>2. k \in Xor(a, c)
      BY <1>1, <1>2, <2>1 DEF Xor
    <2>3. \A y \in Xor(a, c) : y \in Xor(a, b) \/ y \in Xor(b, c)
      BY DEF Xor
    <2>4. \A y \in Xor(a, c) : y <= k
      BY <1>2, <1>3, <1>5, <1>7, <2>3
    <2>5. Max(Xor(a, c)) = k
      BY <1>3, <2>2, <2>4, MaxBitIs
    <2>6. a # c
      BY <2>2 DEF Xor
    <2> QED BY <1>1, <2>5, <2>6 DEF Closer
  <1> QED BY <1>4, <1>5, <1>6, <1>7
-----------------------------------------------------------------------------
\* The smaller of two numbers.
LEMMA MinOfTwo ==
    ASSUME NEW x \in Nat, NEW y \in Nat
    PROVE  /\ Min({x, y}) = IF x <= y THEN x ELSE y
           /\ Min({x, y}) \in Nat
  <1> DEFINE m == IF x <= y THEN x ELSE y
  <1>1. m \in {x, y} /\ \A z \in {x, y} : m =< z
    OBVIOUS
  <1>2. \A w \in {x, y} : (\A z \in {x, y} : w =< z) => w = m
    OBVIOUS
  <1>3. Min({x, y}) \in {x, y} /\ \A z \in {x, y} : Min({x, y}) =< z
    <2> HIDE DEF m
    <2> QED BY <1>1 DEF Min
  <1>4. Min({x, y}) = m
    <2> HIDE DEF m
    <2> QED BY <1>2, <1>3
  <1> QED BY <1>4

\* The list is sorted by the distance from id.
Sorted(id, s) == \A j, k \in DOMAIN s : j < k => Closer(id, s[j], s[k])

\* s has the num nodes of S that are the closest to id, sorted by their distance.
Nearest(id, S, num, s) ==
    /\ s \in Seq(S)
    /\ Len(s) = IF num <= Cardinality(S) THEN num ELSE Cardinality(S)
    /\ Sorted(id, s)
    /\ \A a \in S \ ToSet(s), k \in DOMAIN s : Closer(id, s[k], a)

Rank(id, S, a) == 1 + Cardinality({b \in S : Closer(id, b, a)})

\* The rank of a node tells how close it is, and no two have the same.
LEMMA RankOrder ==
    ASSUME NEW id \in Id, NEW S \in SUBSET Id, IsFiniteSet(S), NEW a \in S, NEW b \in S
    PROVE  /\ Rank(id, S, a) \in 1..Cardinality(S)
           /\ Closer(id, a, b) <=> Rank(id, S, a) < Rank(id, S, b)
           /\ a = b <=> Rank(id, S, a) = Rank(id, S, b)
  <1> DEFINE Below(x) == {c \in S : Closer(id, c, x)}
  <1>1. ASSUME NEW x \in S
        PROVE  /\ IsFiniteSet(Below(x)) /\ Cardinality(Below(x)) \in Nat
               /\ Cardinality(Below(x)) < Cardinality(S)
               /\ Cardinality(S) \in Nat
    <2>1. Below(x) \in SUBSET S /\ x \notin Below(x)
      BY CloserTotal
    <2> HIDE DEF Below
    <2>2. /\ IsFiniteSet(Below(x)) /\ Cardinality(Below(x)) <= Cardinality(S)
          /\ Cardinality(Below(x)) # Cardinality(S)
      BY <2>1, FS_Subset
    <2>3. Cardinality(Below(x)) \in Nat /\ Cardinality(S) \in Nat
      BY <2>2, FS_CardinalityType
    <2> QED BY <2>2, <2>3
  <1>2. ASSUME NEW x \in S, NEW y \in S, Closer(id, x, y)
        PROVE  Cardinality(Below(x)) < Cardinality(Below(y))
    <2>1. Below(x) \in SUBSET Below(y)
      BY <1>2, CloserTransitive
    <2>2. x \in Below(y) /\ x \notin Below(x)
      BY <1>2, CloserTotal
    <2>3. IsFiniteSet(Below(y)) /\ Cardinality(Below(x)) \in Nat /\ Cardinality(Below(y)) \in Nat
      BY <1>1
    <2> HIDE DEF Below
    <2>4. /\ Cardinality(Below(x)) <= Cardinality(Below(y))
          /\ Cardinality(Below(x)) # Cardinality(Below(y))
      BY <2>1, <2>2, <2>3, FS_Subset
    <2> QED BY <2>3, <2>4
  <1>3. \A x \in S : Rank(id, S, x) = 1 + Cardinality(Below(x))
    BY DEF Rank
  <1>4. a = b \/ Closer(id, a, b) \/ Closer(id, b, a)
    BY CloserTotal
  <1>5. /\ Cardinality(Below(a)) \in Nat /\ Cardinality(Below(b)) \in Nat
        /\ Cardinality(S) \in Nat /\ Cardinality(Below(a)) < Cardinality(S)
    BY <1>1
  <1>6. ~ (Closer(id, a, b) /\ Closer(id, b, a)) /\ ~ Closer(id, a, a)
    BY CloserTotal
  <1> HIDE DEF Below
  <1>7. /\ Closer(id, a, b) => Cardinality(Below(a)) < Cardinality(Below(b))
        /\ Closer(id, b, a) => Cardinality(Below(b)) < Cardinality(Below(a))
    BY <1>2
  <1> QED BY <1>3, <1>4, <1>5, <1>6, <1>7

\* An injection of a finite set has an image of the same size.
LEMMA ImageSize ==
    ASSUME NEW S, IsFiniteSet(S), NEW f, DOMAIN f = S,
           \A x, y \in S : f[x] = f[y] => x = y
    PROVE  /\ IsFiniteSet({f[x] : x \in S})
           /\ Cardinality({f[x] : x \in S}) = Cardinality(S)
  <1> DEFINE T == {f[x] : x \in S}
             g == [x \in S |-> f[x]]
  <1>1. g \in Bijection(S, T)
    BY DEF Bijection, Injection, Surjection, IsInjective
  <1> HIDE DEF g, T
  <1>2. ExistsBijection(S, T)
    BY <1>1 DEF ExistsBijection
  <1>3. IsFiniteSet(T) /\ Cardinality(T) = Cardinality(S)
    BY <1>2, FS_Bijection
  <1> QED BY <1>3 DEF T

\* Every rank up to the size of the set is that of one of its nodes.
LEMMA RankOnto ==
    ASSUME NEW id \in Id, NEW S \in SUBSET Id, IsFiniteSet(S), NEW k \in 1..Cardinality(S)
    PROVE  \E a \in S : Rank(id, S, a) = k
  <1> DEFINE f == [a \in S |-> Rank(id, S, a)]
             T == {f[a] : a \in S}
  <1>1. \A x, y \in S : f[x] = f[y] => x = y
    BY RankOrder
  <1>2. \A x \in S : f[x] \in 1..Cardinality(S)
    BY RankOrder
  <1>3. Cardinality(S) \in Nat
    BY FS_CardinalityType
  <1>4. IsFiniteSet(1..Cardinality(S)) /\ Cardinality(1..Cardinality(S)) = Cardinality(S)
    <2> DEFINE c == Cardinality(S)
    <2> HIDE DEF c
    <2>1. c \in Nat /\ c \in Int /\ 1 \in Int
      BY <1>3 DEF c
    <2>2. IsFiniteSet(1..c) /\ Cardinality(1..c) = IF 1 > c THEN 0 ELSE c - 1 + 1
      BY <2>1, FS_Interval
    <2> QED BY <2>1, <2>2 DEF c
  <1>5. DOMAIN f = S
    OBVIOUS
  <1>6. Cardinality(T) = Cardinality(S)
    <2> HIDE DEF f
    <2> QED BY <1>1, <1>5, ImageSize
  <1>7. T \in SUBSET (1..Cardinality(S))
    <2> HIDE DEF f
    <2> QED BY <1>2
  <1>8. T = 1..Cardinality(S)
    <2> HIDE DEF T
    <2> QED BY <1>4, <1>6, <1>7, FS_Subset
  <1> QED BY <1>8

\* The k-th of the closest nodes is the one of rank k.
LEMMA ClosestRank ==
    ASSUME NEW id \in Id, NEW S \in SUBSET Id, IsFiniteSet(S), NEW num \in Nat
    PROVE  /\ DOMAIN Closest(id, S, num) =
                   1..(IF num <= Cardinality(S) THEN num ELSE Cardinality(S))
           /\ \A k \in DOMAIN Closest(id, S, num) :
                 /\ Closest(id, S, num)[k] \in S
                 /\ Rank(id, S, Closest(id, S, num)[k]) = k
           /\ Closest(id, S, num) = [k \in DOMAIN Closest(id, S, num) |-> Closest(id, S, num)[k]]
  <1>1. Cardinality(S) \in Nat
    BY FS_CardinalityType
  <1>2. Min({num, Cardinality(S)}) = IF num <= Cardinality(S) THEN num ELSE Cardinality(S)
    BY <1>1, MinOfTwo
  <1> DEFINE n == IF num <= Cardinality(S) THEN num ELSE Cardinality(S)
             ranked == [a \in S |-> 1 + Cardinality({b \in S : Closer(id, b, a)})]
  <1>3. Closest(id, S, num) = [k \in 1..n |-> CHOOSE a \in S : ranked[a] = k]
    BY <1>2 DEF Closest
  <1>4. \A a \in S : ranked[a] = Rank(id, S, a)
    BY DEF Rank
  <1>5. \A k \in 1..n : k \in 1..Cardinality(S)
    BY <1>1
  <1> HIDE DEF n, ranked
  <1>6. ASSUME NEW k \in 1..n
        PROVE  /\ (CHOOSE a \in S : ranked[a] = k) \in S
               /\ ranked[CHOOSE a \in S : ranked[a] = k] = k
    <2>1. \E a \in S : ranked[a] = k
      BY <1>4, <1>5, RankOnto
    <2> QED BY <2>1
  <1>7. /\ DOMAIN Closest(id, S, num) = 1..n
        /\ \A k \in 1..n : Closest(id, S, num)[k] = CHOOSE a \in S : ranked[a] = k
        /\ Closest(id, S, num) = [k \in DOMAIN Closest(id, S, num) |-> Closest(id, S, num)[k]]
    BY <1>3
  <1>8. \A k \in 1..n : /\ Closest(id, S, num)[k] \in S
                         /\ Rank(id, S, Closest(id, S, num)[k]) = k
    BY <1>4, <1>6, <1>7
  <1> QED BY <1>7, <1>8 DEF n

\* lookup() of a table gives the nearest nodes of it, sorted.
LEMMA ClosestNearest ==
    ASSUME NEW id \in Id, NEW S \in SUBSET Id, IsFiniteSet(S), NEW num \in Nat
    PROVE  Nearest(id, S, num, Closest(id, S, num))
  <1> DEFINE s == Closest(id, S, num)
             n == IF num <= Cardinality(S) THEN num ELSE Cardinality(S)
  <1>1. Cardinality(S) \in Nat
    BY FS_CardinalityType
  <1>2. n \in Nat
    BY <1>1
  <1>3. /\ DOMAIN s = 1..n
        /\ \A k \in 1..n : s[k] \in S /\ Rank(id, S, s[k]) = k
        /\ s = [k \in 1..n |-> s[k]]
    <2>1. DOMAIN s = 1..n
      BY ClosestRank
    <2>2. \A k \in DOMAIN s : s[k] \in S /\ Rank(id, S, s[k]) = k
      BY ClosestRank
    <2>3. s = [k \in DOMAIN s |-> s[k]]
      BY ClosestRank
    <2> HIDE DEF s, n
    <2> QED BY <2>1, <2>2, <2>3
  <1> HIDE DEF s, n
  <1>5. s \in Seq(S) /\ Len(s) = n
    BY <1>2, <1>3
  <1>6. Sorted(id, s)
    <2> SUFFICES ASSUME NEW j \in 1..n, NEW k \in 1..n, j < k
                 PROVE  Closer(id, s[j], s[k])
      BY <1>3 DEF Sorted
    <2> QED BY <1>3, RankOrder
  <1>7. ASSUME NEW a \in S \ ToSet(s), NEW k \in DOMAIN s
        PROVE  Closer(id, s[k], a)
    <2> DEFINE r == Rank(id, S, a)
    <2>1. r \in 1..Cardinality(S)
      BY RankOrder
    <2>2. r \notin 1..n
      <3> SUFFICES ASSUME r \in 1..n PROVE FALSE
        OBVIOUS
      <3>1. s[r] \in S /\ Rank(id, S, s[r]) = r
        BY <1>3
      <3>2. s[r] = a
        BY <3>1, RankOrder
      <3> QED BY <1>3, <3>2 DEF ToSet
    <2>3. k < r
      BY <1>1, <1>2, <1>3, <2>1, <2>2
    <2>4. k \in 1..n
      BY <1>3
    <2> QED BY <1>3, <2>3, <2>4, RankOrder
  <1> QED
    BY <1>5, <1>6, <1>7 DEF Nearest, s, n

\* A sorted list has as many nodes as it is long.
LEMMA SortedSize ==
    ASSUME NEW id \in Id, NEW s \in Seq(Id), Sorted(id, s)
    PROVE  /\ \A j, k \in DOMAIN s : s[j] = s[k] => j = k
           /\ IsFiniteSet(ToSet(s)) /\ Cardinality(ToSet(s)) = Len(s)
  <1>1. DOMAIN s = 1..Len(s) /\ Len(s) \in Nat
    OBVIOUS
  <1>2. ASSUME NEW j \in DOMAIN s, NEW k \in DOMAIN s, s[j] = s[k]
        PROVE  j = k
    <2>1. ~ (j < k) /\ ~ (k < j)
      BY <1>2, CloserTotal DEF Sorted
    <2> QED BY <1>1, <2>1
  <1>3. IsFiniteSet(DOMAIN s) /\ Cardinality(DOMAIN s) = Len(s)
    <2> DEFINE c == Len(s)
    <2> HIDE DEF c
    <2>1. c \in Nat /\ c \in Int /\ 1 \in Int
      BY <1>1 DEF c
    <2>2. IsFiniteSet(1..c) /\ Cardinality(1..c) = IF 1 > c THEN 0 ELSE c - 1 + 1
      BY <2>1, FS_Interval
    <2>3. IsFiniteSet(1..c) /\ Cardinality(1..c) = c
      BY <2>1, <2>2
    <2> QED BY <1>1, <2>3 DEF c
  <1>4. \A j, k \in DOMAIN s : s[j] = s[k] => j = k
    BY <1>2
  <1>5. IsFiniteSet({s[k] : k \in DOMAIN s}) /\ Cardinality({s[k] : k \in DOMAIN s}) = Len(s)
    <2> DEFINE D == DOMAIN s
    <2> HIDE DEF D
    <2>1. IsFiniteSet({s[k] : k \in D}) /\ Cardinality({s[k] : k \in D}) = Cardinality(D)
      BY <1>3, <1>4, ImageSize DEF D
    <2> QED BY <1>3, <2>1 DEF D
  <1> QED BY <1>4, <1>5 DEF ToSet

\* There is one list of the nearest nodes.
LEMMA NearestClosest ==
    ASSUME NEW id \in Id, NEW S \in SUBSET Id, IsFiniteSet(S), NEW num \in Nat,
           NEW s, Nearest(id, S, num, s)
    PROVE  s = Closest(id, S, num)
  <1> DEFINE c == Closest(id, S, num)
             n == IF num <= Cardinality(S) THEN num ELSE Cardinality(S)
  <1>1. Cardinality(S) \in Nat
    BY FS_CardinalityType
  <1>2. s \in Seq(S) /\ Len(s) = n /\ Sorted(id, s) /\ n \in Nat
    BY <1>1 DEF Nearest
  <1>3. DOMAIN s = 1..n /\ \A k \in 1..n : s[k] \in S
    BY <1>2
  <1>4. Nearest(id, S, num, c)
    BY ClosestNearest
  <1>5. c \in Seq(S) /\ Len(c) = n
    BY <1>4 DEF Nearest
  <1>6. \A k \in 1..n : Rank(id, S, c[k]) = k /\ c[k] \in S
    <2>1. \A k \in DOMAIN c : Rank(id, S, c[k]) = k /\ c[k] \in S
      BY ClosestRank
    <2> HIDE DEF c, n
    <2> QED BY <1>2, <1>5, <2>1
  <1> HIDE DEF c, n
  <1>7. ASSUME NEW k \in 1..n
        PROVE  Rank(id, S, s[k]) = k
    <2> DEFINE f == [j \in 1..(k - 1) |-> s[j]]
               B == {b \in S : Closer(id, b, s[k])}
    <2>1. \A j \in 1..(k - 1) : j \in 1..n /\ j < k /\ f[j] = s[j]
      BY <1>2
    <2>2. B = {f[j] : j \in 1..(k - 1)}
      <3>1. ASSUME NEW j \in 1..(k - 1)
            PROVE  f[j] \in B
        BY <1>2, <1>3, <2>1 DEF Sorted
      <3>2. ASSUME NEW b \in B
            PROVE  \E j \in 1..(k - 1) : b = f[j]
        <4>1. ~ Closer(id, s[k], b) /\ b # s[k]
          BY <1>3, CloserTotal
        <4>2. b \in ToSet(s)
          BY <1>3, <4>1 DEF Nearest
        <4>3. PICK j \in 1..n : s[j] = b
          BY <1>3, <4>2 DEF ToSet
        <4>4. ~ (k < j) /\ j # k
          BY <1>2, <1>3, <4>1, <4>3 DEF Sorted
        <4>5. j \in 1..(k - 1)
          BY <1>2, <4>4
        <4> QED BY <2>1, <4>3, <4>5
      <3> HIDE DEF f, B
      <3> QED BY <3>1, <3>2, B \subseteq S DEF B
    <2>3. \A x, y \in 1..(k - 1) : f[x] = f[y] => x = y
      <3>1. \A x, y \in 1..n : s[x] = s[y] => x = y
        BY <1>2, <1>3, SortedSize
      <3> QED BY <2>1, <3>1
    <2>4. IsFiniteSet(1..(k - 1)) /\ Cardinality(1..(k - 1)) = k - 1
      <3>1. k - 1 \in Int /\ 1 \in Int /\ k \in Nat /\ k >= 1
        BY <1>2
      <3>2. IsFiniteSet(1..(k - 1)) /\ Cardinality(1..(k - 1)) = IF 1 > k - 1 THEN 0 ELSE k - 1 - 1 + 1
        BY <3>1, FS_Interval
      <3> QED BY <3>1, <3>2
    <2>5. DOMAIN f = 1..(k - 1)
      OBVIOUS
    <2> HIDE DEF f
    <2>6. Cardinality({f[j] : j \in 1..(k - 1)}) = k - 1
      <3> DEFINE D == 1..(k - 1)
      <3>1. DOMAIN f = D /\ IsFiniteSet(D) /\ \A x, y \in D : f[x] = f[y] => x = y
        BY <2>3, <2>4, <2>5
      <3>2. Cardinality(D) = k - 1
        BY <2>4
      <3> HIDE DEF D
      <3>3. Cardinality({f[j] : j \in D}) = Cardinality(D)
        BY <3>1, ImageSize
      <3> QED BY <3>2, <3>3 DEF D
    <2>7. Cardinality(B) = k - 1
      BY <2>2, <2>6
    <2> QED BY <2>7, <1>2 DEF Rank
  <1>8. \A k \in 1..n : s[k] = c[k]
    BY <1>3, <1>6, <1>7, RankOrder
  <1>9. s = c
    BY <1>2, <1>3, <1>5, <1>8
  <1> QED BY <1>9 DEF c

\* The nearest of some nodes are the nearest of any of them that include them.
LEMMA NearestWithin ==
    ASSUME NEW id \in Id, NEW A \in SUBSET Id, IsFiniteSet(A), NEW num \in Nat, NEW s,
           Nearest(id, A, num, s), NEW B \in SUBSET A, ToSet(s) \subseteq B
    PROVE  Nearest(id, B, num, s)
  <1>1. s \in Seq(A) /\ Sorted(id, s)
    BY DEF Nearest
  <1>2. DOMAIN s = 1..Len(s) /\ Len(s) \in Nat
    BY <1>1
  <1>3. \A k \in DOMAIN s : s[k] \in B
    BY DEF ToSet
  <1>4. s \in Seq(B)
    BY <1>1, <1>2, <1>3
  <1>5. s \in Seq(Id)
    BY <1>1, <1>2
  <1>6. IsFiniteSet(B) /\ Cardinality(B) <= Cardinality(A) /\ (Cardinality(A) = Cardinality(B) => A = B)
    BY FS_Subset
  <1>7. Cardinality(ToSet(s)) = Len(s)
    BY <1>1, <1>5, SortedSize
  <1>8. Cardinality(ToSet(s)) <= Cardinality(B)
    BY <1>6, FS_Subset
  <1>9. Cardinality(A) \in Nat /\ Cardinality(B) \in Nat
    BY <1>6, FS_CardinalityType
  <1>10. Len(s) = IF num <= Cardinality(A) THEN num ELSE Cardinality(A)
    BY DEF Nearest
  <1>11. Len(s) = IF num <= Cardinality(B) THEN num ELSE Cardinality(B)
    BY <1>2, <1>6, <1>7, <1>8, <1>9, <1>10
  <1>12. \A a \in B \ ToSet(s), k \in DOMAIN s : Closer(id, s[k], a)
    BY DEF Nearest
  <1> QED BY <1>1, <1>4, <1>11, <1>12 DEF Nearest

\* A node that was left out before is not missed when the list is merged with more nodes.
LEMMA NearestGrows ==
    ASSUME NEW id \in Id, NEW A \in SUBSET Id, IsFiniteSet(A), NEW M \in SUBSET Id, IsFiniteSet(M),
           NEW num \in Nat, NEW s, NEW t,
           Nearest(id, A, num, s), Nearest(id, ToSet(s) \cup M, num, t)
    PROVE  Nearest(id, A \cup M, num, t)
  <1> DEFINE U == ToSet(s) \cup M
             V == A \cup M
  <1>1. s \in Seq(A) /\ Sorted(id, s)
    BY DEF Nearest
  <1>2. DOMAIN s = 1..Len(s) /\ Len(s) \in Nat /\ s \in Seq(Id) /\ \A k \in DOMAIN s : s[k] \in A
    BY <1>1
  <1>3. ToSet(s) \subseteq A /\ \A a \in ToSet(s) : \E k \in DOMAIN s : s[k] = a
    BY <1>2 DEF ToSet
  <1>4. IsFiniteSet(ToSet(s)) /\ Cardinality(ToSet(s)) = Len(s)
    BY <1>1, <1>2, SortedSize
  <1>5. IsFiniteSet(U) /\ IsFiniteSet(V) /\ U \subseteq V /\ V \subseteq Id
    BY <1>3, <1>4, FS_Union
  <1>6. Cardinality(A) \in Nat /\ Cardinality(U) \in Nat /\ Cardinality(V) \in Nat
    BY <1>5, FS_CardinalityType
  <1>7. Len(s) = IF num <= Cardinality(A) THEN num ELSE Cardinality(A)
    BY DEF Nearest
  <1>8. CASE ~ (num <= Cardinality(A))
    <2>1. ToSet(s) = A
      BY <1>3, <1>4, <1>7, <1>8, FS_Subset
    <2> QED BY <2>1
  <1>9. CASE num <= Cardinality(A)
    <2>1. Cardinality(ToSet(s)) = num
      BY <1>4, <1>7, <1>9
    <2>2. num <= Cardinality(U) /\ num <= Cardinality(V)
      <3>1. Cardinality(ToSet(s)) <= Cardinality(U) /\ Cardinality(U) <= Cardinality(V)
        BY <1>5, FS_Subset
      <3> QED BY <1>6, <2>1, <3>1
    <2>3. t \in Seq(U) /\ Sorted(id, t) /\ Len(t) = num
      BY <2>2 DEF Nearest
    <2>4. DOMAIN t = 1..num /\ t \in Seq(V) /\ t \in Seq(Id) /\ \A k \in DOMAIN t : t[k] \in U
      BY <1>5, <2>3
    <2>5. IsFiniteSet(ToSet(t)) /\ Cardinality(ToSet(t)) = num
      BY <2>3, <2>4, SortedSize
    <2>6. ASSUME NEW a \in V \ ToSet(t), NEW k \in DOMAIN t, ~ Closer(id, t[k], a)
          PROVE  FALSE
      <3>1. t[k] \in Id /\ t[k] \in U /\ t[k] \in ToSet(t)
        BY <1>5, <2>4 DEF ToSet
      <3>2. a \notin U
        BY <2>6 DEF Nearest
      <3>3. a \in A \ ToSet(s) /\ a \in Id
        BY <3>2
      <3>4. Closer(id, a, t[k])
        BY <2>6, <3>1, <3>3, CloserTotal
      <3>5. ASSUME NEW b \in ToSet(s)
            PROVE  b \in ToSet(t) \ {t[k]}
        <4>1. b \in Id /\ b \in U
          BY <1>3
        <4>2. Closer(id, b, a)
          BY <1>3, <3>3 DEF Nearest
        <4>3. Closer(id, b, t[k])
          BY <3>1, <3>3, <3>4, <4>1, <4>2, CloserTransitive
        <4>4. b # t[k] /\ ~ Closer(id, t[k], b)
          BY <3>1, <4>1, <4>3, CloserTotal
        <4>5. b \in ToSet(t)
          BY <4>1, <4>4 DEF Nearest
        <4> QED BY <4>4, <4>5
      <3>6. ToSet(s) \in SUBSET (ToSet(t) \ {t[k]})
        BY <3>5
      <3>7. IsFiniteSet(ToSet(t) \ {t[k]}) /\ Cardinality(ToSet(t) \ {t[k]}) = num - 1
        BY <2>5, <3>1, FS_RemoveElement
      <3>8. Cardinality(ToSet(s)) <= num - 1
        BY <3>6, <3>7, FS_Subset
      <3> QED BY <2>1, <3>8
    <2> QED BY <2>2, <2>3, <2>4, <2>6 DEF Nearest
  <1> QED BY <1>8, <1>9
-----------------------------------------------------------------------------
(* merge_nodes(), for every two sorted lists. *)

\* The rounds of merge_nodes().
Start == [it1 |-> 1, it2 |-> 1, dst |-> <<>>]

Rounds(id, v1, v2, max, f) ==
    f = [n \in 0..max |-> IF n = 0 THEN Start ELSE MergeRound(id, v1, v2, f[n - 1])]

\* The rounds of the loop of merge_nodes() are what its recursion says.
LEMMA RoundsExist ==
    ASSUME NEW id, NEW v1, NEW v2, NEW max \in Nat
    PROVE  \E f : Rounds(id, v1, v2, max, f)
  <1> DEFINE G == {m \in Nat : \E f : Rounds(id, v1, v2, m, f)}
  <1>1. 0 \in G
    <2> DEFINE f == [n \in 0..0 |-> Start]
    <2>1. Rounds(id, v1, v2, 0, f)
      <3>1. \A n \in 0..0 : n = 0
        OBVIOUS
      <3> QED BY <3>1 DEF Rounds
    <2> QED BY <2>1
  <1>2. ASSUME NEW m \in Nat, m \in G
        PROVE  m + 1 \in G
    <2>1. PICK f : Rounds(id, v1, v2, m, f)
      BY <1>2
    <2> DEFINE g == [n \in 0..(m + 1) |-> IF n <= m THEN f[n] ELSE MergeRound(id, v1, v2, f[m])]
    <2>2. \A n \in 0..m : f[n] = IF n = 0 THEN Start ELSE MergeRound(id, v1, v2, f[n - 1])
      BY <2>1 DEF Rounds
    <2>3. ASSUME NEW n \in 0..(m + 1)
          PROVE  g[n] = IF n = 0 THEN Start ELSE MergeRound(id, v1, v2, g[n - 1])
      <3>1. CASE n = 0
        BY <2>2, <3>1
      <3>2. CASE n # 0 /\ n <= m
        <4>1. n \in 0..m /\ n - 1 \in 0..(m + 1) /\ n - 1 <= m
          BY <3>2
        <4>2. g[n] = f[n] /\ g[n - 1] = f[n - 1]
          BY <4>1
        <4> HIDE DEF g
        <4> QED BY <2>2, <3>2, <4>1, <4>2
      <3>3. CASE n = m + 1
        <4>1. g[n] = MergeRound(id, v1, v2, f[m]) /\ g[n - 1] = f[m]
          BY <3>3
        <4> HIDE DEF g
        <4> QED BY <3>3, <4>1
      <3> QED BY <3>1, <3>2, <3>3
    <2>4. g = [n \in 0..(m + 1) |-> g[n]]
      OBVIOUS
    <2> HIDE DEF g
    <2>5. g = [n \in 0..(m + 1) |-> IF n = 0 THEN Start ELSE MergeRound(id, v1, v2, g[n - 1])]
      BY <2>3, <2>4
    <2>6. Rounds(id, v1, v2, m + 1, g)
      BY <2>5 DEF Rounds
    <2> QED BY <2>6
  <1> HIDE DEF G
  <1>3. Nat \subseteq G
    BY <1>1, <1>2, NatSetInduction
  <1> QED BY <1>3 DEF G

\* What merge_nodes() returns after the last round.
LEMMA MergeUnfolded ==
    ASSUME NEW id, NEW v1, NEW v2, NEW max \in Nat
    PROVE  \E f : /\ Rounds(id, v1, v2, max, f)
                  /\ merge_nodes(id, v1, v2, max) = f[max].dst
  <1> DEFINE h == CHOOSE f : Rounds(id, v1, v2, max, f)
  <1>1. Rounds(id, v1, v2, max, h)
    BY RoundsExist
  <1>2. merge_nodes(id, v1, v2, max) = h[max].dst
    BY Zenon DEF merge_nodes, Rounds, Start
  <1> HIDE DEF h
  <1> QED BY <1>1, <1>2

\* What was taken from the front of a list.
Taken(v, it) == {v[k] : k \in 1..(it - 1)}

\* After n rounds dst has, sorted, what was taken from both lists, all of it closer than
\* what was not; n nodes, unless there are no more.
Merged(id, v1, v2, n, s) ==
    /\ s.it1 \in 1..(Len(v1) + 1) /\ s.it2 \in 1..(Len(v2) + 1)
    /\ s.dst \in Seq(Id) /\ Sorted(id, s.dst)
    /\ ToSet(s.dst) = Taken(v1, s.it1) \cup Taken(v2, s.it2)
    /\ \A a \in ToSet(s.dst) : /\ \A m \in s.it1..Len(v1) : Closer(id, a, v1[m])
                              /\ \A m \in s.it2..Len(v2) : Closer(id, a, v2[m])
    /\ \/ Len(s.dst) = n
       \/ Len(s.dst) <= n /\ s.it1 = Len(v1) + 1 /\ s.it2 = Len(v2) + 1

\* The nodes that the loop has taken, one round on.
LEMMA TakenNext ==
    ASSUME NEW v \in Seq(Id), NEW it \in 1..Len(v)
    PROVE  /\ it + 1 \in 1..(Len(v) + 1)
           /\ Taken(v, it + 1) = Taken(v, it) \cup {v[it]}
  <1>1. Len(v) \in Nat
    OBVIOUS
  <1>2. 1..(it + 1 - 1) = (1..(it - 1)) \cup {it}
    BY <1>1
  <1> QED BY <1>1, <1>2 DEF Taken

\* r is s after a round that appends x, farther than those of dst and closer than the rest.
Appends(id, v1, v2, s, r, x) ==
    /\ r.dst = Append(s.dst, x)
    /\ r.it1 \in {s.it1, s.it1 + 1} /\ r.it1 \in 1..(Len(v1) + 1)
    /\ r.it2 \in {s.it2, s.it2 + 1} /\ r.it2 \in 1..(Len(v2) + 1)
    /\ Taken(v1, r.it1) \cup Taken(v2, r.it2) = Taken(v1, s.it1) \cup Taken(v2, s.it2) \cup {x}
    /\ \A a \in ToSet(s.dst) : Closer(id, a, x)
    /\ \A m \in r.it1..Len(v1) : Closer(id, x, v1[m])
    /\ \A m \in r.it2..Len(v2) : Closer(id, x, v2[m])

\* The loop appends the next of the nearest nodes.
LEMMA MergedAppend ==
    ASSUME NEW id \in Id, NEW v1 \in Seq(Id), NEW v2 \in Seq(Id), NEW n \in Nat,
           NEW s, Merged(id, v1, v2, n, s), Len(s.dst) = n, NEW x \in Id,
           NEW r, Appends(id, v1, v2, s, r, x)
    PROVE  Merged(id, v1, v2, n + 1, r)
  <1> DEFINE d == s.dst
             e == Append(d, x)
  <1> USE DEF Appends
  <1>1. d \in Seq(Id) /\ Sorted(id, d) /\ Len(d) = n
    BY DEF Merged
  <1>2. /\ e \in Seq(Id) /\ Len(e) = n + 1 /\ DOMAIN e = 1..(n + 1) /\ DOMAIN d = 1..n
        /\ e[n + 1] = x /\ \A k \in 1..n : e[k] = d[k]
    BY <1>1
  <1>3. ToSet(e) = ToSet(d) \cup {x}
    <2>1. \A y : y \in ToSet(e) <=> \E k \in 1..(n + 1) : e[k] = y
      BY <1>2 DEF ToSet
    <2>2. \A y : y \in ToSet(d) <=> \E k \in 1..n : d[k] = y
      BY <1>2 DEF ToSet
    <2>3. \A k \in 1..(n + 1) : k \in 1..n \/ k = n + 1
      OBVIOUS
    <2>4. n + 1 \in 1..(n + 1) /\ \A k \in 1..n : k \in 1..(n + 1)
      OBVIOUS
    <2> HIDE DEF d, e
    <2> QED BY <1>2, <2>1, <2>2, <2>3, <2>4
  <1>4. Sorted(id, e)
    <2> SUFFICES ASSUME NEW j \in 1..(n + 1), NEW k \in 1..(n + 1), j < k
                 PROVE  Closer(id, e[j], e[k])
      BY <1>2 DEF Sorted
    <2>0. \A y : y \in ToSet(d) <=> \E i \in 1..n : d[i] = y
      BY <1>2 DEF ToSet
    <2> HIDE DEF d, e
    <2>1. j \in 1..n /\ e[j] = d[j] /\ d[j] \in ToSet(d)
      BY <1>2, <2>0
    <2>2. CASE k = n + 1
      BY <1>2, <2>1, <2>2 DEF d
    <2>3. CASE k \in 1..n
      BY <1>1, <1>2, <2>1, <2>3 DEF Sorted
    <2> QED BY <2>2, <2>3
  <1>5. /\ s.it1 \in 1..(Len(v1) + 1) /\ s.it2 \in 1..(Len(v2) + 1)
        /\ Len(v1) \in Nat /\ Len(v2) \in Nat
    BY DEF Merged
  <1>6. /\ \A m \in r.it1..Len(v1) : m \in s.it1..Len(v1)
        /\ \A m \in r.it2..Len(v2) : m \in s.it2..Len(v2)
    <2>1. s.it1 \in Nat /\ s.it2 \in Nat /\ Len(v1) \in Nat /\ Len(v2) \in Nat
      BY <1>5
    <2>2. r.it1 \in Nat /\ r.it2 \in Nat /\ r.it1 >= s.it1 /\ r.it2 >= s.it2
      BY <2>1, SMTT(60)
    <2> QED BY <2>1, <2>2, SMTT(60)
  <1>7. \A a \in ToSet(d) : /\ \A m \in s.it1..Len(v1) : Closer(id, a, v1[m])
                            /\ \A m \in s.it2..Len(v2) : Closer(id, a, v2[m])
    BY DEF Merged
  <1>8. \A a \in ToSet(e) : /\ \A m \in r.it1..Len(v1) : Closer(id, a, v1[m])
                            /\ \A m \in r.it2..Len(v2) : Closer(id, a, v2[m])
    <2> HIDE DEF d, e
    <2> QED BY <1>3, <1>6, <1>7
  <1>9. ToSet(e) = Taken(v1, r.it1) \cup Taken(v2, r.it2)
    <2>1. ToSet(d) = Taken(v1, s.it1) \cup Taken(v2, s.it2)
      BY DEF Merged
    <2> HIDE DEF d, e
    <2> QED BY <1>3, <2>1
  <1>10. r.dst = e
    OBVIOUS
  <1> HIDE DEF e
  <1> QED BY <1>2, <1>4, <1>8, <1>9, <1>10 DEF Merged

\* A round of the loop of merge_nodes() keeps what it has merged the nearest.
LEMMA MergedStep ==
    ASSUME NEW id \in Id, NEW v1 \in Seq(Id), NEW v2 \in Seq(Id), NEW n \in Nat,
           Sorted(id, v1), Sorted(id, v2), NEW s, Merged(id, v1, v2, n, s)
    PROVE  Merged(id, v1, v2, n + 1, MergeRound(id, v1, v2, s))
  <1> DEFINE i == s.it1
             j == s.it2
             more1 == i <= Len(v1)
             more2 == j <= Len(v2)
             same == more1 /\ more2 /\ v1[i] = v2[j]
             first == more1 /\ (more2 => same \/ Closer(id, v1[i], v2[j]))
             second == more2 /\ (same \/ ~ first)
             x == IF first THEN v1[i] ELSE v2[j]
             r == MergeRound(id, v1, v2, s)
  <1>1. /\ i \in 1..(Len(v1) + 1) /\ j \in 1..(Len(v2) + 1)
        /\ Len(v1) \in Nat /\ Len(v2) \in Nat
        /\ DOMAIN v1 = 1..Len(v1) /\ DOMAIN v2 = 1..Len(v2)
        /\ \A k \in 1..Len(v1) : v1[k] \in Id
        /\ \A k \in 1..Len(v2) : v2[k] \in Id
    BY DEF Merged
  <1>2. CASE ~ more1 /\ ~ more2
    <2>1. r = s
      BY <1>2 DEF MergeRound
    <2>2. i = Len(v1) + 1 /\ j = Len(v2) + 1
      BY <1>1, <1>2
    <2>3. Len(s.dst) <= n + 1
      <3>1. Len(s.dst) \in Nat /\ Len(s.dst) <= n
        BY DEF Merged
      <3> QED BY <3>1
    <2>4. Merged(id, v1, v2, n + 1, s)
      BY <2>2, <2>3 DEF Merged
    <2> QED BY <2>1, <2>4
  <1>3. CASE more1 \/ more2
    <2>1. /\ r.it1 = IF first THEN i + 1 ELSE i
          /\ r.it2 = IF second THEN j + 1 ELSE j
          /\ r.dst = IF \E k \in DOMAIN s.dst : s.dst[k] = x THEN s.dst ELSE Append(s.dst, x)
      BY <1>3 DEF MergeRound
    <2>2. Len(s.dst) = n
      <3>1. i # Len(v1) + 1 \/ j # Len(v2) + 1
        BY <1>1, <1>3
      <3> QED BY <3>1 DEF Merged
    <2>3. /\ more1 => i \in 1..Len(v1) /\ v1[i] \in Id
          /\ more2 => j \in 1..Len(v2) /\ v2[j] \in Id
      BY <1>1
    <2>4. \A a \in ToSet(s.dst) : /\ more1 => Closer(id, a, v1[i])
                                  /\ more2 => Closer(id, a, v2[j])
      <3>1. (more1 => i \in i..Len(v1)) /\ (more2 => j \in j..Len(v2))
        BY <1>1
      <3> QED BY <3>1 DEF Merged
    <2>5. /\ x \in Id
          /\ \A a \in ToSet(s.dst) : Closer(id, a, x)
      BY <1>3, <2>3, <2>4
    <2>6. ~ \E k \in DOMAIN s.dst : s.dst[k] = x
      <3>1. \A k \in DOMAIN s.dst : s.dst[k] \in ToSet(s.dst)
        BY DEF ToSet
      <3>2. ~ Closer(id, x, x)
        BY <2>5, CloserTotal
      <3> HIDE DEF x
      <3> QED BY <2>5, <3>1, <3>2
    <2>7. r.dst = Append(s.dst, x)
      <3> HIDE DEF r, x
      <3> QED BY <2>1, <2>6
    <2>8. /\ more1 => /\ i + 1 \in 1..(Len(v1) + 1) /\ Taken(v1, i + 1) = Taken(v1, i) \cup {v1[i]}
                      /\ \A m \in (i + 1)..Len(v1) : Closer(id, v1[i], v1[m])
          /\ more2 => /\ j + 1 \in 1..(Len(v2) + 1) /\ Taken(v2, j + 1) = Taken(v2, j) \cup {v2[j]}
                      /\ \A m \in (j + 1)..Len(v2) : Closer(id, v2[j], v2[m])
      <3>1. ASSUME more1, NEW m \in (i + 1)..Len(v1)
            PROVE  Closer(id, v1[i], v1[m])
        <4>1. i \in DOMAIN v1 /\ m \in DOMAIN v1 /\ i < m
          BY <1>1, <2>3, <3>1
        <4> QED BY <4>1 DEF Sorted
      <3>2. ASSUME more2, NEW m \in (j + 1)..Len(v2)
            PROVE  Closer(id, v2[j], v2[m])
        <4>1. j \in DOMAIN v2 /\ m \in DOMAIN v2 /\ j < m
          BY <1>1, <2>3, <3>2
        <4> QED BY <4>1 DEF Sorted
      <3>3. more1 => i + 1 \in 1..(Len(v1) + 1) /\ Taken(v1, i + 1) = Taken(v1, i) \cup {v1[i]}
        BY <2>3, TakenNext
      <3>4. more2 => j + 1 \in 1..(Len(v2) + 1) /\ Taken(v2, j + 1) = Taken(v2, j) \cup {v2[j]}
        BY <2>3, TakenNext
      <3> HIDE DEF i, j, more1, more2
      <3> QED BY <3>1, <3>2, <3>3, <3>4
    <2>9. \A m \in i..Len(v1) : m = i \/ m \in (i + 1)..Len(v1)
      BY <1>1
    <2>10. \A m \in j..Len(v2) : m = j \/ m \in (j + 1)..Len(v2)
      BY <1>1
    <2>11. (~ more1 => i..Len(v1) = {}) /\ (~ more2 => j..Len(v2) = {})
      BY <1>1
    <2> HIDE DEF r
    <2>12. CASE same
      <3>1. r.it1 = i + 1 /\ r.it2 = j + 1 /\ x = v1[i] /\ x = v2[j] /\ more1 /\ more2
        BY <2>1, <2>12
      <3>2. /\ Taken(v1, r.it1) \cup Taken(v2, r.it2) = Taken(v1, i) \cup Taken(v2, j) \cup {x}
            /\ \A m \in r.it1..Len(v1) : Closer(id, x, v1[m])
            /\ \A m \in r.it2..Len(v2) : Closer(id, x, v2[m])
            /\ r.it1 \in 1..(Len(v1) + 1) /\ r.it2 \in 1..(Len(v2) + 1)
            /\ r.it1 \in {i, i + 1} /\ r.it2 \in {j, j + 1}
        <4> HIDE DEF i, j, x, more1, more2
        <4> QED BY <2>8, <3>1
      <3> HIDE DEF x
      <3>3. Appends(id, v1, v2, s, r, x)
        BY <2>5, <2>7, <3>2 DEF Appends
      <3> QED BY <2>2, <2>5, <3>3, MergedAppend DEF r
    <2>13. CASE first /\ ~ same
      <3>1. r.it1 = i + 1 /\ r.it2 = j /\ x = v1[i] /\ more1 /\ (more2 => Closer(id, x, v2[j]))
        BY <2>1, <2>13
      <3>2. ASSUME NEW m \in j..Len(v2)
            PROVE  Closer(id, x, v2[m])
        <4>1. more2
          BY <2>11
        <4>2. Closer(id, x, v2[j]) /\ v2[j] \in Id /\ j \in 1..Len(v2)
          BY <2>3, <3>1, <4>1
        <4>3. CASE m = j
          BY <4>2, <4>3
        <4>4. CASE m \in (j + 1)..Len(v2)
          <5>1. Closer(id, v2[j], v2[m])
            BY <2>8, <4>1, <4>4
          <5>2. v2[m] \in Id
            BY <1>1, <4>2
          <5> HIDE DEF x
          <5> QED BY <2>5, <4>2, <5>1, <5>2, CloserTransitive
        <4> QED BY <2>10, <4>3, <4>4
      <3>3. /\ Taken(v1, r.it1) \cup Taken(v2, r.it2) = Taken(v1, i) \cup Taken(v2, j) \cup {x}
            /\ \A m \in r.it1..Len(v1) : Closer(id, x, v1[m])
            /\ \A m \in r.it2..Len(v2) : Closer(id, x, v2[m])
            /\ r.it1 \in 1..(Len(v1) + 1) /\ r.it2 \in 1..(Len(v2) + 1)
            /\ r.it1 \in {i, i + 1} /\ r.it2 \in {j, j + 1}
        <4> HIDE DEF i, j, x, more1, more2
        <4> QED BY <1>1, <2>8, <3>1, <3>2
      <3> HIDE DEF x
      <3>4. Appends(id, v1, v2, s, r, x)
        BY <2>5, <2>7, <3>3 DEF Appends
      <3> QED BY <2>2, <2>5, <3>4, MergedAppend DEF r
    <2>14. CASE ~ first
      <3>0. ~ same /\ more2
        BY <1>3, <2>14
      <3>1. r.it1 = i /\ r.it2 = j + 1 /\ x = v2[j] /\ more2
        BY <2>1, <2>14, <3>0
      <3>2. more1 => Closer(id, x, v1[i])
        <4> SUFFICES ASSUME more1 PROVE Closer(id, x, v1[i])
          OBVIOUS
        <4>1. v1[i] # v2[j] /\ ~ Closer(id, v1[i], v2[j])
          BY <2>14, <3>0
        <4>2. v1[i] \in Id /\ v2[j] \in Id
          BY <2>3, <3>0
        <4> QED BY <3>1, <4>1, <4>2, CloserTotal
      <3>3. ASSUME NEW m \in i..Len(v1)
            PROVE  Closer(id, x, v1[m])
        <4>1. more1
          BY <2>11
        <4>2. Closer(id, x, v1[i]) /\ v1[i] \in Id /\ i \in 1..Len(v1)
          BY <2>3, <3>2, <4>1
        <4>3. CASE m = i
          BY <4>2, <4>3
        <4>4. CASE m \in (i + 1)..Len(v1)
          <5>1. Closer(id, v1[i], v1[m])
            BY <2>8, <4>1, <4>4
          <5>2. v1[m] \in Id
            BY <1>1, <4>2
          <5> HIDE DEF x
          <5> QED BY <2>5, <4>2, <5>1, <5>2, CloserTransitive
        <4> QED BY <2>9, <4>3, <4>4
      <3>4. /\ Taken(v1, r.it1) \cup Taken(v2, r.it2) = Taken(v1, i) \cup Taken(v2, j) \cup {x}
            /\ \A m \in r.it1..Len(v1) : Closer(id, x, v1[m])
            /\ \A m \in r.it2..Len(v2) : Closer(id, x, v2[m])
            /\ r.it1 \in 1..(Len(v1) + 1) /\ r.it2 \in 1..(Len(v2) + 1)
            /\ r.it1 \in {i, i + 1} /\ r.it2 \in {j, j + 1}
        <4> HIDE DEF i, j, x, more1, more2
        <4> QED BY <1>1, <2>8, <3>1, <3>3
      <3> HIDE DEF x
      <3>5. Appends(id, v1, v2, s, r, x)
        BY <2>5, <2>7, <3>4 DEF Appends
      <3> QED BY <2>2, <2>5, <3>5, MergedAppend DEF r
    <2> QED BY <2>12, <2>13, <2>14
  <1> QED BY <1>2, <1>3

\* merge_nodes() of two sorted lists gives the nearest nodes of both.
THEOREM MergeNearest ==
    ASSUME NEW id \in Id, NEW v1 \in Seq(Id), NEW v2 \in Seq(Id), NEW max \in Nat,
           Sorted(id, v1), Sorted(id, v2)
    PROVE  Nearest(id, ToSet(v1) \cup ToSet(v2), max, merge_nodes(id, v1, v2, max))
  <1>1. PICK f : /\ Rounds(id, v1, v2, max, f)
                 /\ merge_nodes(id, v1, v2, max) = f[max].dst
    BY MergeUnfolded
  <1>2. \A n \in 0..max : f[n] = IF n = 0 THEN Start ELSE MergeRound(id, v1, v2, f[n - 1])
    BY <1>1 DEF Rounds
  <1> DEFINE G == {n \in Nat : n <= max => Merged(id, v1, v2, n, f[n])}
  <1>3. 0 \in G
    <2>1. f[0] = Start
      BY <1>2
    <2>2. /\ Start.it1 = 1 /\ Start.it2 = 1 /\ Start.dst = <<>>
          /\ 1 \in 1..(Len(v1) + 1) /\ 1 \in 1..(Len(v2) + 1)
      BY DEF Start
    <2>3. /\ <<>> \in Seq(Id) /\ Len(<<>>) = 0 /\ ToSet(<<>>) = {} /\ Sorted(id, <<>>)
          /\ Taken(v1, 1) = {} /\ Taken(v2, 1) = {}
      BY DEF ToSet, Sorted, Taken
    <2>4. Merged(id, v1, v2, 0, Start)
      BY <2>2, <2>3 DEF Merged
    <2> QED BY <2>1, <2>4
  <1>4. ASSUME NEW n \in Nat, n \in G
        PROVE  n + 1 \in G
    <2> SUFFICES ASSUME n + 1 <= max PROVE Merged(id, v1, v2, n + 1, f[n + 1])
      OBVIOUS
    <2>1. Merged(id, v1, v2, n, f[n])
      BY <1>4
    <2>2. f[n + 1] = MergeRound(id, v1, v2, f[n])
      <3>1. n + 1 \in 0..max /\ n + 1 # 0 /\ (n + 1) - 1 = n
        OBVIOUS
      <3> QED BY <1>2, <3>1
    <2> QED BY <2>1, <2>2, MergedStep
  <1> HIDE DEF G
  <1>5. Nat \subseteq G
    BY <1>3, <1>4, NatSetInduction
  <1>6. Merged(id, v1, v2, max, f[max])
    BY <1>5 DEF G
  <1> DEFINE d == merge_nodes(id, v1, v2, max)
             i == f[max].it1
             j == f[max].it2
             U == ToSet(v1) \cup ToSet(v2)
  <1>7. /\ i \in 1..(Len(v1) + 1) /\ j \in 1..(Len(v2) + 1)
        /\ d \in Seq(Id) /\ Sorted(id, d)
        /\ ToSet(d) = Taken(v1, i) \cup Taken(v2, j)
        /\ \A a \in ToSet(d) : /\ \A m \in i..Len(v1) : Closer(id, a, v1[m])
                               /\ \A m \in j..Len(v2) : Closer(id, a, v2[m])
        /\ \/ Len(d) = max
           \/ Len(d) <= max /\ i = Len(v1) + 1 /\ j = Len(v2) + 1
    BY <1>1, <1>6 DEF Merged
  <1> HIDE DEF d, i, j
  <1>8. /\ i \in 1..(Len(v1) + 1) /\ j \in 1..(Len(v2) + 1)
        /\ Len(v1) \in Nat /\ Len(v2) \in Nat /\ Len(d) \in Nat
        /\ DOMAIN v1 = 1..Len(v1) /\ DOMAIN v2 = 1..Len(v2) /\ DOMAIN d = 1..Len(d)
    BY <1>7
  <1>9. /\ \A a \in ToSet(v1) : a \in Taken(v1, i) \/ \E m \in i..Len(v1) : a = v1[m]
        /\ \A a \in ToSet(v2) : a \in Taken(v2, j) \/ \E m \in j..Len(v2) : a = v2[m]
    <2>1. \A m \in 1..Len(v1) : m \in 1..(i - 1) \/ m \in i..Len(v1)
      BY <1>8
    <2>2. \A m \in 1..Len(v2) : m \in 1..(j - 1) \/ m \in j..Len(v2)
      BY <1>8
    <2> QED BY <1>8, <2>1, <2>2 DEF ToSet, Taken
  <1>10. Taken(v1, i) \subseteq ToSet(v1) /\ Taken(v2, j) \subseteq ToSet(v2)
    <2>1. (\A m \in 1..(i - 1) : m \in 1..Len(v1)) /\ \A m \in 1..(j - 1) : m \in 1..Len(v2)
      BY <1>8
    <2> QED BY <1>8, <2>1 DEF ToSet, Taken
  <1>11. /\ IsFiniteSet(ToSet(v1)) /\ IsFiniteSet(ToSet(v2))
         /\ IsFiniteSet(ToSet(d)) /\ Cardinality(ToSet(d)) = Len(d)
    BY <1>7, SortedSize
  <1>12. IsFiniteSet(U) /\ Cardinality(U) \in Nat /\ ToSet(d) \in SUBSET U
    BY <1>7, <1>10, <1>11, FS_Union, FS_CardinalityType
  <1>13. Cardinality(ToSet(d)) <= Cardinality(U)
    BY <1>12, FS_Subset
  <1>14. Len(d) = IF max <= Cardinality(U) THEN max ELSE Cardinality(U)
    <2>1. CASE Len(d) = max
      BY <1>11, <1>13, <2>1
    <2>2. CASE Len(d) <= max /\ i = Len(v1) + 1 /\ j = Len(v2) + 1
      <3>1. i..Len(v1) = {} /\ j..Len(v2) = {}
        BY <1>8, <2>2
      <3>2. U = ToSet(d)
        BY <1>7, <1>9, <1>10, <3>1
      <3>3. Cardinality(U) = Len(d)
        BY <1>11, <3>2
      <3> HIDE DEF U
      <3>4. Len(d) \in Nat /\ Len(d) <= max
        BY <1>8, <2>2
      <3> QED BY <3>3, <3>4
    <2> QED BY <1>7, <2>1, <2>2
  <1>15. d \in Seq(U)
    <2>1. \A k \in 1..Len(d) : d[k] \in U
      BY <1>8, <1>12 DEF ToSet
    <2> HIDE DEF U
    <2> QED BY <1>7, <2>1
  <1>16. \A a \in U \ ToSet(d), k \in DOMAIN d : Closer(id, d[k], a)
    <2> SUFFICES ASSUME NEW a \in U \ ToSet(d), NEW k \in DOMAIN d
                 PROVE  Closer(id, d[k], a)
      OBVIOUS
    <2>1. d[k] \in ToSet(d)
      BY DEF ToSet
    <2>2. (\E m \in i..Len(v1) : a = v1[m]) \/ \E m \in j..Len(v2) : a = v2[m]
      BY <1>7, <1>9
    <2> QED BY <1>7, <2>1, <2>2
  <1> HIDE DEF U
  <1>17. Nearest(id, U, max, d)
    BY <1>7, <1>14, <1>15, <1>16 DEF Nearest
  <1> QED BY <1>17 DEF U, d
-----------------------------------------------------------------------------
(* A query and its connection (DhtQuery). *)

Node == Peers \cup {m_id}
Values == UNION {Stored[p] : p \in Peers}

\* Every set of identifiers is finite.
LEMMA IdFinite == \A S \in SUBSET Id : IsFiniteSet(S)
  <1>1. IsFiniteSet(0..(Bits - 1))
    <2>1. 0 \in Int /\ Bits - 1 \in Int
      BY BitsAssumption
    <2> QED BY <2>1, FS_Interval
  <1>2. IsFiniteSet(Id)
    BY <1>1, FS_SUBSET DEF Id
  <1> QED BY <1>2, FS_Subset

\* Nodes are identifiers, and none is the one of all zeros.
LEMMA NodesAreIds ==
    /\ Node \subseteq Id /\ Zero \notin Node /\ m_id \in Id /\ Zero \in Id /\ Peers \subseteq Id
    /\ m_id \notin Peers /\ Zero \notin Peers /\ Dst \in Id
    /\ HasId \subseteq Peers
  BY LookupAssumption, IdAssumption, DhtQueryAssumption DEF Node, Id, Zero

Query == [active: BOOLEAN, kind: {"none", "boot", "node", "value"}, dst: Id, nodes: Seq(Node),
          sent: SUBSET Id, timers: SUBSET Id, num_query: Int, is_rdp_con: BOOLEAN,
          ids: Seq(HasId), vset: SUBSET Values, told: SUBSET Node, expired: BOOLEAN,
          broken: BOOLEAN, waited: BOOLEAN, calls: Nat, found: BOOLEAN]

\* The list of the query has the nearest of the nodes it was told.
Best(q) == ~ q.expired => Nearest(q.dst, ToSet(q.nodes) \cup q.told, NumFindNode, q.nodes)

\* What holds of an open query before and after send_find().
Open(q) ==
    /\ q \in Query /\ q.active /\ q.kind # "none" /\ q.calls = 0 /\ ~ q.found
    /\ Sorted(q.dst, q.nodes) /\ Best(q)
    /\ q.timers \subseteq q.sent \cup {Zero} /\ m_id \in q.sent
    /\ q.num_query = Cardinality(q.timers) /\ q.num_query <= MaxQuery

\* The largest of finitely many numbers.
LEMMA LargestNat ==
    ASSUME NEW S \in SUBSET Nat, S # {}, NEW b \in Nat, \A y \in S : y <= b
    PROVE  \E m \in S : \A y \in S : y <= m
  <1> DEFINE U == {n \in Nat : \A y \in S : y <= n}
  <1>1. PICK m \in U : \A n \in U : m <= n
    <2>1. b \in U /\ U \in SUBSET Nat
      OBVIOUS
    <2> HIDE DEF U
    <2> QED BY <2>1, LeastNat
  <1>2. m \in S
    <2> SUFFICES ASSUME m \notin S PROVE FALSE
      OBVIOUS
    <2>1. PICK z \in S : TRUE
      OBVIOUS
    <2>2. z \in Nat /\ z <= m /\ z # m
      OBVIOUS
    <2>3. m - 1 \in Nat
      BY <2>2
    <2>4. \A y \in S : y <= m - 1
      OBVIOUS
    <2>5. m - 1 \in U
      BY <2>3, <2>4
    <2>6. m <= m - 1
      BY <1>1, <2>5
    <2> QED BY <2>6
  <1> QED BY <1>2

\* The first of some numbers, up to a limit.
Few(S, room) == {k \in S : Cardinality({j \in S : j < k}) < room}

\* They are as many as there is room, and none only if there are none.
LEMMA FirstFew ==
    ASSUME NEW L \in Nat, NEW S \in SUBSET (1..L), NEW room \in Nat
    PROVE  /\ IsFiniteSet(Few(S, room)) /\ Cardinality(Few(S, room)) \in Nat
           /\ Cardinality(Few(S, room)) <= room
           /\ room > 0 /\ Few(S, room) = {} => S = {}
  <1> DEFINE before(k) == {j \in S : j < k}
             K == {k \in S : Cardinality(before(k)) < room}
  <1>1. IsFiniteSet(S)
    <2>1. 1 \in Int /\ L \in Int
      OBVIOUS
    <2>2. IsFiniteSet(1..L)
      BY <2>1, FS_Interval
    <2> QED BY <2>2, FS_Subset
  <1>2. \A k : IsFiniteSet(before(k)) /\ Cardinality(before(k)) \in Nat
    <2>1. \A k : before(k) \in SUBSET S
      OBVIOUS
    <2> HIDE DEF before
    <2> QED BY <1>1, <2>1, FS_Subset, FS_CardinalityType
  <1>3. K \in SUBSET S /\ K \in SUBSET Nat /\ \A k \in K : k <= L
    <2>1. K \in SUBSET S
      OBVIOUS
    <2> HIDE DEF K
    <2> QED BY <2>1
  <1>4. IsFiniteSet(K) /\ Cardinality(K) \in Nat
    <2> HIDE DEF K
    <2> QED BY <1>1, <1>3, FS_Subset, FS_CardinalityType
  <1>5. Cardinality(K) <= room
    <2>1. CASE K = {}
      <3>1. Cardinality(K) = 0
        BY <2>1, FS_EmptySet
      <3> HIDE DEF K
      <3> QED BY <3>1
    <2>2. CASE K # {}
      <3>1. PICK m \in K : \A y \in K : y <= m
        <4> HIDE DEF K
        <4> QED BY <1>3, <2>2, LargestNat
      <3>2. K \ {m} \in SUBSET before(m)
        BY <1>3, <3>1
      <3>3. Cardinality(before(m)) < room
        OBVIOUS
      <3> HIDE DEF K, before
      <3>4. Cardinality(K \ {m}) <= Cardinality(before(m))
        BY <1>2, <3>2, FS_Subset
      <3>5. Cardinality(K \ {m}) = Cardinality(K) - 1
        BY <1>4, <3>1, FS_RemoveElement
      <3>6. Cardinality(before(m)) \in Nat
        BY <1>2
      <3> QED BY <1>4, <3>3, <3>4, <3>5, <3>6
    <2> QED BY <2>1, <2>2
  <1>6. ASSUME room > 0, S # {}
        PROVE  K # {}
    <2>1. PICK m \in S : \A y \in S : m <= y
      <3>1. S \in SUBSET Nat
        OBVIOUS
      <3> QED BY <1>6, <3>1, LeastNat
    <2>2. before(m) = {}
      <3>1. \A y \in S : y \in Nat
        OBVIOUS
      <3>2. \A y \in S : ~ (y < m)
        BY <2>1, <3>1
      <3> QED BY <3>2
    <2>3. Cardinality(before(m)) = 0
      BY <2>2, FS_EmptySet
    <2>4. Cardinality(before(m)) < room
      <3> HIDE DEF before
      <3> QED BY <1>6, <2>3
    <2> QED BY <2>4
  <1>7. K = Few(S, room)
    BY DEF Few
  <1> HIDE DEF K
  <1> QED BY <1>4, <1>5, <1>6, <1>7

\* Whom send_find() asks.
LEMMA ToAskFacts ==
    ASSUME NEW q, NEW dst \in Id, q.nodes \in Seq(Node), Sorted(dst, q.nodes),
           q.timers \subseteq q.sent \cup {Zero}, m_id \in q.sent,
           q.num_query \in Nat, q.num_query <= MaxQuery
    PROVE  /\ ToAsk(q) \subseteq Peers
           /\ ToAsk(q) \cap q.sent = {} /\ ToAsk(q) \cap q.timers = {}
           /\ IsFiniteSet(ToAsk(q)) /\ Cardinality(ToAsk(q)) \in Nat
           /\ Cardinality(ToAsk(q)) <= MaxQuery - q.num_query
           /\ q.num_query = 0 /\ ToAsk(q) = {} => ToSet(q.nodes) \subseteq q.sent
  <1> DEFINE s == q.nodes
             S == {k \in DOMAIN s : s[k] \notin q.sent}
             room == MaxQuery - q.num_query
             K == Few(S, room)
  <1>1. ToAsk(q) = {s[k] : k \in K}
    BY DEF ToAsk, Few
  <1>2. s \in Seq(Node) /\ DOMAIN s = 1..Len(s) /\ Len(s) \in Nat /\ Sorted(dst, s)
    OBVIOUS
  <1>3. s \in Seq(Id)
    BY <1>2, NodesAreIds
  <1>4. q.num_query \in Nat /\ MaxQuery \in Nat /\ MaxQuery > 0 /\ room \in Nat
    BY LookupAssumption, IdAssumption, DhtQueryAssumption
  <1>5. S \in SUBSET (1..Len(s))
    BY <1>2
  <1>6. /\ IsFiniteSet(K) /\ Cardinality(K) \in Nat /\ Cardinality(K) <= room
        /\ room > 0 /\ K = {} => S = {}
    <2> HIDE DEF S, room, s
    <2> QED BY <1>2, <1>4, <1>5, FirstFew
  <1>7. K \subseteq S
    BY DEF Few
  <1>8. \A j, k \in DOMAIN s : s[j] = s[k] => j = k
    BY <1>2, <1>3, SortedSize
  <1>9. ToAsk(q) \subseteq Peers /\ ToAsk(q) \cap q.sent = {} /\ ToAsk(q) \cap q.timers = {}
    <2> SUFFICES ASSUME NEW a \in ToAsk(q) PROVE a \in Peers /\ a \notin q.sent /\ a \notin q.timers
      OBVIOUS
    <2>1. PICK k \in S : a = s[k]
      BY <1>1, <1>7
    <2>2. a \in Node /\ a \notin q.sent
      BY <1>2, <2>1
    <2> QED BY <2>2, NodesAreIds DEF Node
  <1> DEFINE f == [k \in K |-> s[k]]
  <1>10. DOMAIN f = K /\ {f[k] : k \in K} = ToAsk(q) /\ \A j, k \in K : f[j] = f[k] => j = k
    BY <1>1, <1>7, <1>8
  <1>11. IsFiniteSet(ToAsk(q)) /\ Cardinality(ToAsk(q)) = Cardinality(K)
    <2> HIDE DEF f, K
    <2> QED BY <1>6, <1>10, ImageSize
  <1>12. ASSUME q.num_query = 0, ToAsk(q) = {}
         PROVE  ToSet(q.nodes) \subseteq q.sent
    <2>1. K = {}
      BY <1>1, <1>12
    <2>2. S = {}
      <3> HIDE DEF S, K
      <3> QED BY <1>4, <1>6, <1>12, <2>1
    <2> QED BY <2>2 DEF ToSet
  <1> HIDE DEF K
  <1> QED BY <1>6, <1>9, <1>11, <1>12
-----------------------------------------------------------------------------
\* How a query and its connection belong together: it has one while is_rdp_con says so,
\* to a holder that was asked, and has got of it what the holder has not to send any more.
Linked(q, c) ==
    /\ q.is_rdp_con <=> c # NoConn
    /\ c = NoConn => q.vset = {}
    /\ c # NoConn =>
         /\ q.kind = "value"
         /\ c \in [peer: q.sent \cap HasId, dport: {0, rdp_get_port}, desc: BOOLEAN,
                   connected: BOOLEAN, left: SUBSET Stored[c.peer]]
         /\ q.vset \cup c.left = Stored[c.peer] /\ q.vset \subseteq Stored[c.peer]
         /\ q.vset # {} => c.connected
    /\ ToSet(q.ids) \subseteq q.sent

\* A holder that was asked is waited for, is connected to or has no value.
Seen(q, c) ==
    q.kind = "value" /\ ~ q.expired /\ ~ q.broken /\ ~ q.waited =>
        \A p \in q.sent \cap HasId : Stored[p] = {} \/ p \in q.timers \/ p = c.peer

\* What a query ends with.
Done(q) ==
    /\ q \in Query /\ ~ q.active /\ q.kind # "none" /\ q.calls = 1
    /\ ~ q.expired /\ ~ q.found => /\ q.timers = {} /\ ToSet(q.nodes) \subseteq q.sent
                                  /\ Best(q)
    /\ q.found <=> q.vset # {}
    /\ q.found => \E p \in q.sent \cap HasId : /\ Stored[p] # {} /\ q.vset \subseteq Stored[p]
                                               /\ ~ q.broken => q.vset = Stored[p]
    /\ q.kind = "value" /\ ~ q.broken /\ ~ q.expired /\ ~ q.waited /\ ~ q.found =>
         \A p \in q.sent \cap HasId : Stored[p] = {}

QueryOK(q, c) ==
    \/ q = NoQuery /\ c = NoConn
    \/ Open(q) /\ Linked(q, c) /\ Seen(q, c) /\ (q.num_query > 0 \/ c # NoConn)
    \/ Done(q) /\ c = NoConn

\* What never changes of a query, and what only grows.
Kept(q, r) == r.kind = q.kind /\ r.dst = q.dst /\ q.sent \subseteq r.sent

\* send_find() of an open query.
LEMMA AskedOK ==
    ASSUME NEW q, NEW c, Open(q), Linked(q, c), Seen(q, c)
    PROVE  /\ QueryOK(Asked(q), c)
           /\ Kept(q, Asked(q))
           /\ Asking(q) \subseteq Peers /\ Asking(q) \subseteq Asked(q).sent
  <1> DEFINE ask == Asking(q)
             r == [q EXCEPT !.timers = q.timers \cup ask, !.sent = q.sent \cup ask,
                            !.num_query = q.num_query + Cardinality(ask)]
  <1>1. q \in Query
    BY DEF Open
  <1>2. Holds(q) <=> c # NoConn
    BY <1>1 DEF Holds, Linked, Query
  <1>3. Asked(q) = IF r.num_query = 0 /\ ~ Holds(q) THEN Finish(r, FALSE) ELSE r
    BY DEF Asked
  <1>4. /\ ask \subseteq Peers
        /\ ask \cap q.sent = {} /\ ask \cap q.timers = {}
        /\ IsFiniteSet(ask) /\ Cardinality(ask) \in Nat
        /\ Cardinality(ask) <= MaxQuery - q.num_query
        /\ q.num_query = 0 /\ ask = {} /\ ~ Holds(q) => ToSet(q.nodes) \subseteq q.sent
    <2>1. CASE Holds(q)
      <3>1. ask = {}
        BY <2>1 DEF Asking
      <3>2. IsFiniteSet({}) /\ Cardinality({}) = 0
        BY FS_EmptySet
      <3>3. q.num_query \in Int /\ q.num_query <= MaxQuery /\ MaxQuery \in Int
        BY LookupAssumption, IdAssumption, DhtQueryAssumption DEF Open, Query
      <3>4. Cardinality(ask) = 0 /\ IsFiniteSet(ask)
        BY <3>1, <3>2
      <3> HIDE DEF ask
      <3> QED BY <2>1, <3>1, <3>3, <3>4
    <2>2. CASE ~ Holds(q)
      <3>1. ask = ToAsk(q)
        BY <2>2 DEF Asking
      <3>2. /\ q.dst \in Id /\ q.nodes \in Seq(Node) /\ q.num_query \in Nat
            /\ Sorted(q.dst, q.nodes) /\ q.num_query <= MaxQuery
            /\ q.timers \subseteq q.sent \cup {Zero} /\ m_id \in q.sent
        <4>1. q.timers \in SUBSET Id /\ q.num_query = Cardinality(q.timers)
          BY DEF Open, Query
        <4>2. q.num_query \in Nat
          BY <4>1, IdFinite, FS_CardinalityType
        <4> QED BY <4>2 DEF Open, Query
      <3> HIDE DEF ask
      <3> QED BY <2>2, <3>1, <3>2, ToAskFacts
    <2> QED BY <2>1, <2>2
  <1> HIDE DEF ask
  <1>5. /\ q.timers \in SUBSET Id /\ IsFiniteSet(q.timers) /\ q.num_query \in Nat
        /\ q.num_query = Cardinality(q.timers) /\ MaxQuery \in Nat
    <2>1. q.timers \in SUBSET Id /\ q.num_query = Cardinality(q.timers)
      BY DEF Open, Query
    <2>2. IsFiniteSet(q.timers)
      BY <2>1, IdFinite
    <2> QED BY <2>1, <2>2, FS_CardinalityType, LookupAssumption, IdAssumption, DhtQueryAssumption
  <1>6. /\ r \in Query
        /\ r.timers = q.timers \cup ask /\ r.sent = q.sent \cup ask
        /\ r.num_query = q.num_query + Cardinality(ask)
        /\ r.active = q.active /\ r.kind = q.kind /\ r.dst = q.dst /\ r.nodes = q.nodes
        /\ r.is_rdp_con = q.is_rdp_con /\ r.ids = q.ids /\ r.vset = q.vset /\ r.told = q.told
        /\ r.expired = q.expired /\ r.broken = q.broken /\ r.waited = q.waited
        /\ r.calls = q.calls /\ r.found = q.found
    <2>1. /\ q.timers \cup ask \in SUBSET Id /\ q.sent \cup ask \in SUBSET Id
          /\ q.num_query + Cardinality(ask) \in Int
      BY <1>1, <1>4, <1>5, NodesAreIds DEF Query
    <2>2. r \in Query
      BY <1>1, <2>1 DEF Query
    <2>3. /\ r.timers = q.timers \cup ask /\ r.sent = q.sent \cup ask
          /\ r.num_query = q.num_query + Cardinality(ask)
      BY <1>1 DEF Query
    <2>4. /\ r.active = q.active /\ r.kind = q.kind /\ r.dst = q.dst /\ r.nodes = q.nodes
          /\ r.is_rdp_con = q.is_rdp_con /\ r.ids = q.ids /\ r.vset = q.vset /\ r.told = q.told
      BY <1>1 DEF Query
    <2>5. /\ r.expired = q.expired /\ r.broken = q.broken /\ r.waited = q.waited
          /\ r.calls = q.calls /\ r.found = q.found
      BY <1>1 DEF Query
    <2> QED BY <2>2, <2>3, <2>4, <2>5
  <1> HIDE DEF r
  <1>7. r.num_query = Cardinality(r.timers) /\ r.num_query <= MaxQuery
    <2>1. Cardinality(q.timers \cap ask) = 0
      <3>1. q.timers \cap ask = {}
        BY <1>4
      <3> QED BY <3>1, FS_EmptySet
    <2>2. Cardinality(q.timers \cup ask) =
             Cardinality(q.timers) + Cardinality(ask) - Cardinality(q.timers \cap ask)
      BY <1>4, <1>5, FS_Union
    <2> QED BY <1>4, <1>5, <1>6, <2>1, <2>2
  <1>8. Open(r)
    <2>1. Best(r)
      BY <1>6 DEF Open, Best
    <2>2. r.timers \subseteq r.sent \cup {Zero} /\ m_id \in r.sent
      BY <1>6 DEF Open
    <2> QED BY <1>6, <1>7, <2>1, <2>2 DEF Open
  <1>9. Linked(r, c)
    BY <1>6 DEF Linked
  <1>10. Seen(r, c)
    BY <1>6 DEF Seen
  <1>11. Kept(q, r)
    BY <1>6 DEF Kept
  <1>12. CASE r.num_query = 0 /\ ~ Holds(q)
    <2> DEFINE d == [r EXCEPT !.active = FALSE, !.calls = r.calls + 1, !.found = FALSE]
    <2>1. Asked(q) = d
      BY <1>3, <1>12 DEF Finish
    <2>2. /\ d \in Query /\ d.active = FALSE /\ d.calls = 1 /\ d.found = FALSE
          /\ d.timers = r.timers /\ d.sent = r.sent /\ d.kind = r.kind /\ d.dst = r.dst
          /\ d.nodes = r.nodes /\ d.vset = r.vset /\ d.told = r.told
          /\ d.expired = r.expired /\ d.broken = r.broken /\ d.waited = r.waited
      <3>1. r \in Query /\ r.calls + 1 \in Nat /\ r.calls + 1 = 1
        BY <1>8 DEF Open
      <3>2. d \in Query
        BY <3>1 DEF Query
      <3>3. d.active = FALSE /\ d.calls = 1 /\ d.found = FALSE
        BY <3>1 DEF Query
      <3>4. /\ d.timers = r.timers /\ d.sent = r.sent /\ d.kind = r.kind /\ d.dst = r.dst
            /\ d.nodes = r.nodes /\ d.vset = r.vset /\ d.told = r.told
            /\ d.expired = r.expired /\ d.broken = r.broken /\ d.waited = r.waited
        BY <3>1 DEF Query
      <3> QED BY <3>2, <3>3, <3>4
    <2> HIDE DEF d
    <2>3. q.num_query = 0 /\ Cardinality(ask) = 0
      BY <1>4, <1>5, <1>6, <1>12
    <2>4. ask = {} /\ q.timers = {} /\ r.timers = {}
      BY <1>4, <1>5, <1>6, <2>3, FS_EmptySet
    <2>5. ToSet(d.nodes) \subseteq d.sent
      BY <1>4, <1>6, <1>12, <2>2, <2>3, <2>4
    <2>6. Best(d)
      BY <1>8, <2>2 DEF Open, Best
    <2>7. c = NoConn /\ r.vset = {}
      BY <1>2, <1>9, <1>12 DEF Linked
    <2>8. d.kind = "value" /\ ~ d.broken /\ ~ d.expired /\ ~ d.waited =>
            \A p \in d.sent \cap HasId : Stored[p] = {}
      <3>1. \A p \in HasId : p # NoConn.peer
        BY NodesAreIds DEF NoConn
      <3> QED BY <1>10, <2>2, <2>4, <2>7, <3>1 DEF Seen
    <2>9. Done(d)
      BY <1>8, <2>2, <2>4, <2>5, <2>6, <2>7, <2>8 DEF Done, Open
    <2> QED BY <1>4, <1>6, <1>11, <2>1, <2>2, <2>7, <2>9 DEF QueryOK, Kept, ask
  <1>13. CASE ~ (r.num_query = 0 /\ ~ Holds(q))
    <2>1. Asked(q) = r
      BY <1>3, <1>13
    <2>2. r.num_query > 0 \/ c # NoConn
      <3>1. r.num_query \in Nat
        BY <1>4, <1>5, <1>6
      <3> QED BY <1>2, <1>13, <3>1
    <2> QED BY <1>4, <1>6, <1>8, <1>9, <1>10, <1>11, <2>1, <2>2 DEF QueryOK, ask
  <1> QED BY <1>12, <1>13

\* A sequence without its k-th element.
LEMMA RemoveAtFacts ==
    ASSUME NEW S, NEW s \in Seq(S), NEW k \in 1..Len(s)
    PROVE  /\ RemoveAt(s, k) \in Seq(S)
           /\ Len(RemoveAt(s, k)) = Len(s) - 1
           /\ \A i \in 1..(Len(s) - 1) : RemoveAt(s, k)[i] = IF i < k THEN s[i] ELSE s[i + 1]
  <1> DEFINE n == Len(s)
             m == k + 1
             a == SubSeq(s, 1, k - 1)
             b == SubSeq(s, m, n)
             t == RemoveAt(s, k)
  <1>1. /\ n \in Nat /\ k \in Nat /\ m \in Int /\ m = k + 1 /\ 1 <= k /\ k <= n
        /\ \A i \in 1..n : s[i] \in S
    OBVIOUS
  <1>2. t = a \o b
    BY DEF RemoveAt
  <1>3. a \in Seq(S) /\ Len(a) = k - 1 /\ \A i \in 1..(k - 1) : a[i] = s[i]
    BY <1>1
  <1> HIDE DEF m, n
  <1>4. /\ b \in Seq(S) /\ Len(b) = (IF m <= n THEN n - m + 1 ELSE 0)
        /\ \A i \in 1..(n - m + 1) : b[i] = s[m + i - 1]
    <2>1. \A i \in m..n : s[i] \in S
      BY <1>1
    <2> QED BY <1>1, <2>1, SubSeqProperties
  <1> HIDE DEF a, b, t
  <1>5. Len(b) = n - k /\ \A i \in 1..(n - k) : b[i] = s[k + i]
    <2>1. \A i \in 1..(n - k) : i \in 1..(n - m + 1) /\ m + i - 1 = k + i
      BY <1>1
    <2> QED BY <1>1, <1>4, <2>1
  <1>6. /\ t \in Seq(S) /\ Len(t) = Len(a) + Len(b)
        /\ \A i \in 1..(Len(a) + Len(b)) : t[i] = IF i <= Len(a) THEN a[i] ELSE b[i - Len(a)]
    BY <1>2, <1>3, <1>4, ConcatProperties
  <1>7. Len(t) = n - 1 /\ Len(a) + Len(b) = n - 1
    BY <1>1, <1>3, <1>5, <1>6
  <1>8. ASSUME NEW i \in 1..(n - 1)
        PROVE  t[i] = IF i < k THEN s[i] ELSE s[i + 1]
    <2>1. CASE i < k
      <3>1. i \in 1..(k - 1) /\ i <= Len(a)
        BY <1>1, <1>3, <2>1
      <3> QED BY <1>3, <1>6, <1>7, <2>1, <3>1
    <2>2. CASE ~ (i < k)
      <3>1. i - (k - 1) \in 1..(n - k) /\ ~ (i <= Len(a)) /\ k + (i - (k - 1)) = i + 1
        BY <1>1, <1>3, <2>2
      <3>2. t[i] = b[i - (k - 1)]
        BY <1>3, <1>6, <1>7, <3>1
      <3> QED BY <1>5, <2>2, <3>1, <3>2
    <2> QED BY <2>1, <2>2
  <1> QED BY <1>6, <1>7, <1>8 DEF n, t

\* What is left of a sorted list without one of its nodes.
LEMMA RemoveFirstFacts ==
    ASSUME NEW dst \in Id, NEW id, NEW s \in Seq(Node), Sorted(dst, s)
    PROVE  /\ RemoveFirst(s, id) \in Seq(Node) /\ Sorted(dst, RemoveFirst(s, id))
           /\ Len(RemoveFirst(s, id)) <= Len(s)
  <1>1. CASE ~ \E i \in 1..Len(s) : s[i] = id
    BY <1>1 DEF RemoveFirst
  <1>2. CASE \E i \in 1..Len(s) : s[i] = id
    <2> DEFINE I == {i \in 1..Len(s) : s[i] = id}
               k == Min(I)
               t == RemoveAt(s, k)
    <2>1. RemoveFirst(s, id) = t
      BY <1>2 DEF RemoveFirst, SelectInSeq
    <2>2. k \in 1..Len(s)
      <3>1. I # {} /\ I \in SUBSET Nat /\ I \subseteq 1..Len(s)
        BY <1>2
      <3> HIDE DEF I
      <3>2. \E x \in I : \A y \in I : x <= y
        BY <3>1, LeastNat
      <3>3. k \in I
        BY <3>2 DEF Min
      <3> QED BY <3>1, <3>3
    <2> HIDE DEF I, k
    <2>3. Len(s) \in Nat /\ DOMAIN s = 1..Len(s)
      OBVIOUS
    <2>4. /\ t \in Seq(Node) /\ Len(t) = Len(s) - 1
          /\ \A i \in 1..(Len(s) - 1) : t[i] = IF i < k THEN s[i] ELSE s[i + 1]
      BY <2>2, RemoveAtFacts
    <2> HIDE DEF t
    <2>5. Sorted(dst, t)
      <3> SUFFICES ASSUME NEW i \in 1..(Len(s) - 1), NEW j \in 1..(Len(s) - 1), i < j
                   PROVE  Closer(dst, t[i], t[j])
        BY <2>3, <2>4 DEF Sorted
      <3> DEFINE x == IF i < k THEN i ELSE i + 1
                 y == IF j < k THEN j ELSE j + 1
      <3>1. x \in DOMAIN s /\ y \in DOMAIN s /\ x < y
        BY <2>2, <2>3
      <3>2. t[i] = s[x] /\ t[j] = s[y]
        BY <2>4
      <3> QED BY <3>1, <3>2 DEF Sorted
    <2> QED BY <2>1, <2>3, <2>4, <2>5
  <1> QED BY <1>1, <1>2

\* What is in a sequence.
LEMMA ToSetOf ==
    ASSUME NEW S, NEW s \in Seq(S)
    PROVE  ToSet(s) \subseteq S
  BY DEF ToSet

\* The list of a query after a reply.
LEMMA MergeOK ==
    ASSUME NEW q, q.dst \in Id, q.nodes \in Seq(Node), q.told \in SUBSET Node,
           Sorted(q.dst, q.nodes), Best(q),
           NEW m, m.nodes \in Seq(Node), Sorted(q.dst, m.nodes)
    PROVE  /\ Merge(q, m) \in Seq(Node)
           /\ Sorted(q.dst, Merge(q, m))
           /\ Nearest(q.dst, ToSet(Merge(q, m)), NumFindNode, Merge(q, m))
           /\ ~ q.expired => Nearest(q.dst, ToSet(Merge(q, m)) \cup (q.told \cup ToSet(m.nodes)),
                                     NumFindNode, Merge(q, m))
  <1> DEFINE s == q.nodes
             v == m.nodes
             t == Merge(q, m)
             d == q.dst
  <1>1. /\ s \in Seq(Node) /\ s \in Seq(Id) /\ v \in Seq(Node) /\ v \in Seq(Id) /\ d \in Id
        /\ NumFindNode \in Nat /\ q.told \in SUBSET Node
    BY NodesAreIds, LookupAssumption, IdAssumption, DhtQueryAssumption
  <1>2. Nearest(d, ToSet(s) \cup ToSet(v), NumFindNode, t)
    <2>1. t = merge_nodes(d, s, v, NumFindNode)
      BY DEF Merge
    <2> HIDE DEF t, s, v, d
    <2> QED BY <1>1, <2>1, MergeNearest DEF s, v, d
  <1>3. ToSet(s) \subseteq Node /\ ToSet(v) \subseteq Node
    BY <1>1, ToSetOf
  <1>4. t \in Seq(ToSet(s) \cup ToSet(v)) /\ Sorted(d, t)
    BY <1>2 DEF Nearest
  <1> HIDE DEF t, s, v, d
  <1>5. t \in Seq(Node) /\ ToSet(t) \subseteq ToSet(s) \cup ToSet(v)
    BY <1>3, <1>4, ToSetOf
  <1>6. ASSUME ~ q.expired
        PROVE  Nearest(d, ToSet(t) \cup (q.told \cup ToSet(v)), NumFindNode, t)
    <2> DEFINE A == ToSet(s) \cup q.told
               M == ToSet(v)
               B == ToSet(t) \cup (q.told \cup ToSet(v))
    <2>1. Nearest(d, A, NumFindNode, s)
      BY <1>6 DEF Best, d, s
    <2>2. A \in SUBSET Id /\ M \in SUBSET Id /\ A \cup M \in SUBSET Id
      BY <1>1, <1>3, NodesAreIds
    <2>3. IsFiniteSet(A) /\ IsFiniteSet(M) /\ IsFiniteSet(A \cup M)
      BY <2>2, IdFinite
    <2>4. B \in SUBSET (A \cup M) /\ ToSet(t) \subseteq B
      BY <1>5
    <2>5. Nearest(d, ToSet(s) \cup M, NumFindNode, t)
      BY <1>2
    <2> HIDE DEF A, M, B
    <2>6. Nearest(d, A \cup M, NumFindNode, t)
      BY <1>1, <2>1, <2>2, <2>3, <2>5, NearestGrows
    <2>7. Nearest(d, B, NumFindNode, t)
      BY <1>1, <2>2, <2>3, <2>4, <2>6, NearestWithin
    <2> QED BY <2>7 DEF B
  <1>7. Nearest(d, ToSet(t), NumFindNode, t)
    <2> DEFINE A == ToSet(s) \cup ToSet(v)
    <2>1. A \in SUBSET Id /\ IsFiniteSet(A) /\ ToSet(t) \in SUBSET A
      BY <1>3, <1>5, NodesAreIds, IdFinite
    <2>2. Nearest(d, A, NumFindNode, t)
      BY <1>2
    <2> HIDE DEF A
    <2> QED BY <1>1, <2>1, <2>2, NearestWithin
  <1> QED BY <1>4, <1>5, <1>6, <1>7 DEF t, v, d

\* One question less is open.
LEMMA OneLess ==
    ASSUME NEW q, Open(q), NEW id \in q.timers
    PROVE  /\ q.num_query \in Nat /\ q.num_query - 1 \in Nat /\ q.num_query - 1 <= MaxQuery
           /\ q.timers \ {id} \in SUBSET Id /\ id \in Id
           /\ q.num_query - 1 = Cardinality(q.timers \ {id})
  <1>1. q.timers \in SUBSET Id /\ q.num_query = Cardinality(q.timers) /\ q.num_query <= MaxQuery
    BY DEF Open, Query
  <1>2. IsFiniteSet(q.timers)
    BY <1>1, IdFinite
  <1>3. /\ Cardinality(q.timers \ {id}) = Cardinality(q.timers) - 1
        /\ IsFiniteSet(q.timers \ {id})
    BY <1>2, FS_RemoveElement
  <1>4. Cardinality(q.timers) \in Nat /\ Cardinality(q.timers \ {id}) \in Nat /\ MaxQuery \in Nat
    BY <1>2, <1>3, FS_CardinalityType, LookupAssumption, IdAssumption, DhtQueryAssumption
  <1> QED BY <1>1, <1>3, <1>4

\* timer_query, before send_find().
LEMMA TimerOK ==
    ASSUME NEW q, NEW c, Open(q), Linked(q, c), Seen(q, c), NEW id \in q.timers, NEW r,
           r = [q EXCEPT !.sent = @ \cup {id}, !.num_query = @ - 1,
                         !.timers = @ \ {id}, !.expired = TRUE,
                         !.nodes = IF id = Zero THEN @ ELSE RemoveFirst(@, id)]
    PROVE  Open(r) /\ Linked(r, c) /\ Seen(r, c) /\ Kept(q, r)
  <1>1. q \in Query /\ Sorted(q.dst, q.nodes)
    BY DEF Open
  <1> DEFINE nodes == IF id = Zero THEN q.nodes ELSE RemoveFirst(q.nodes, id)
  <1>2. nodes \in Seq(Node) /\ Sorted(q.dst, nodes)
    <2>1. q.dst \in Id /\ q.nodes \in Seq(Node)
      BY <1>1 DEF Query
    <2> QED BY <1>1, <2>1, RemoveFirstFacts
  <1>3. r = [q EXCEPT !.sent = q.sent \cup {id}, !.num_query = q.num_query - 1,
                      !.timers = q.timers \ {id}, !.expired = TRUE, !.nodes = nodes]
    OBVIOUS
  <1> HIDE DEF nodes
  <1>4. r \in Query
    <2>1. q.sent \cup {id} \in SUBSET Id /\ q.num_query - 1 \in Int /\ q.timers \ {id} \in SUBSET Id
      BY <1>1, OneLess DEF Query
    <2> QED BY <1>1, <1>2, <1>3, <2>1, ZenonT(60) DEF Query
  <1>5. /\ r.sent = q.sent \cup {id} /\ r.num_query = q.num_query - 1
        /\ r.timers = q.timers \ {id} /\ r.expired = TRUE /\ r.nodes = nodes
    BY <1>1, <1>3 DEF Query
  <1>6. /\ r.active = q.active /\ r.kind = q.kind /\ r.dst = q.dst
        /\ r.is_rdp_con = q.is_rdp_con /\ r.ids = q.ids /\ r.vset = q.vset
        /\ r.calls = q.calls /\ r.found = q.found
    BY <1>1, <1>3 DEF Query
  <1>7. r.num_query = Cardinality(r.timers) /\ r.num_query <= MaxQuery
    BY <1>5, OneLess
  <1>8. r.timers \subseteq r.sent \cup {Zero} /\ m_id \in r.sent
    BY <1>5 DEF Open
  <1>9. Open(r)
    <2>1. Best(r) /\ Sorted(r.dst, r.nodes)
      BY <1>2, <1>5, <1>6 DEF Best
    <2> QED BY <1>4, <1>6, <1>7, <1>8, <2>1 DEF Open
  <1>10. Linked(r, c)
    BY <1>5, <1>6 DEF Linked
  <1>11. Seen(r, c) /\ Kept(q, r)
    BY <1>5, <1>6 DEF Seen, Kept
  <1> QED BY <1>9, <1>10, <1>11

\* recv_find_node_reply, before send_find().
LEMMA NodeReplyOK ==
    ASSUME NEW q, NEW c, Open(q), Linked(q, c), Seen(q, c), q.kind # "value",
           NEW m, m.nodes \in Seq(Node), Sorted(q.dst, m.nodes), m.peer \in Peers,
           NEW timer \in q.timers, timer \in {m.peer, Zero}, NEW r,
           r = [q EXCEPT !.timers = @ \ {timer}, !.sent = @ \cup {m.peer},
                         !.num_query = @ - 1, !.told = @ \cup ToSet(m.nodes),
                         !.nodes = Merge(q, m)]
    PROVE  Open(r) /\ Linked(r, c) /\ Seen(r, c) /\ Kept(q, r)
  <1>1. q \in Query /\ Sorted(q.dst, q.nodes) /\ Best(q)
    BY DEF Open
  <1> DEFINE nodes == Merge(q, m)
             told == q.told \cup ToSet(m.nodes)
  <1>2. /\ nodes \in Seq(Node) /\ Sorted(q.dst, nodes)
        /\ ~ q.expired => Nearest(q.dst, ToSet(nodes) \cup told, NumFindNode, nodes)
    BY <1>1, MergeOK DEF Query
  <1>3. r = [q EXCEPT !.timers = q.timers \ {timer}, !.sent = q.sent \cup {m.peer},
                      !.num_query = q.num_query - 1, !.told = told, !.nodes = nodes]
    OBVIOUS
  <1>4. told \in SUBSET Node
    BY <1>1, ToSetOf DEF Query
  <1> HIDE DEF nodes, told
  <1>5. r \in Query
    <2>1. /\ q.sent \cup {m.peer} \in SUBSET Id /\ q.num_query - 1 \in Int
          /\ q.timers \ {timer} \in SUBSET Id
      BY <1>1, OneLess, NodesAreIds DEF Query
    <2> QED BY <1>1, <1>2, <1>3, <1>4, <2>1, ZenonT(60) DEF Query
  <1>6. /\ r.sent = q.sent \cup {m.peer} /\ r.num_query = q.num_query - 1
        /\ r.timers = q.timers \ {timer} /\ r.told = told /\ r.nodes = nodes
    BY <1>1, <1>3 DEF Query
  <1>7. /\ r.active = q.active /\ r.kind = q.kind /\ r.dst = q.dst
        /\ r.is_rdp_con = q.is_rdp_con /\ r.ids = q.ids /\ r.vset = q.vset
        /\ r.calls = q.calls /\ r.found = q.found /\ r.expired = q.expired
    BY <1>1, <1>3 DEF Query
  <1>8. r.num_query = Cardinality(r.timers) /\ r.num_query <= MaxQuery
    BY <1>6, OneLess, ZenonT(60)
  <1>9. r.timers \subseteq r.sent \cup {Zero} /\ m_id \in r.sent
    BY <1>6 DEF Open
  <1>10. Open(r)
    <2>1. Best(r) /\ Sorted(r.dst, r.nodes)
      BY <1>2, <1>6, <1>7 DEF Best
    <2> QED BY <1>5, <1>7, <1>8, <1>9, <2>1 DEF Open
  <1>11. Linked(r, c)
    BY <1>6, <1>7 DEF Linked
  <1>12. Seen(r, c) /\ Kept(q, r)
    BY <1>6, <1>7 DEF Seen, Kept
  <1> QED BY <1>10, <1>11, <1>12

\* A holder that was asked is accounted for, the one that just answered excepted.
SeenBut(q, c, x) ==
    q.kind = "value" /\ ~ q.expired /\ ~ q.broken /\ ~ q.waited =>
        \A p \in (q.sent \cap HasId) \ {x} : Stored[p] = {} \/ p \in q.timers \/ p = c.peer

\* The question that a reply to find_value() answers is closed.
LEMMA CountedOK ==
    ASSUME NEW q, NEW c, Open(q), Linked(q, c), Seen(q, c), NEW p \in Peers, p \in q.sent
    PROVE  LET r == Counted(q, p)
           IN  /\ Open(r) /\ Linked(r, c) /\ SeenBut(r, c, p) /\ Kept(q, r)
               /\ r.is_rdp_con = q.is_rdp_con /\ r.nodes = q.nodes /\ r.told = q.told
               /\ r.expired = q.expired /\ r.sent = q.sent
  <1> DEFINE r == Counted(q, p)
  <1>1. q \in Query /\ Sorted(q.dst, q.nodes) /\ Best(q)
    BY DEF Open
  <1>2. CASE p \notin q.timers
    <2>1. r = q
      BY <1>2 DEF Counted
    <2>2. SeenBut(q, c, p) /\ Kept(q, q)
      BY DEF Seen, SeenBut, Kept
    <2> QED BY <2>1, <2>2
  <1>3. CASE p \in q.timers
    <2>1. r = [q EXCEPT !.timers = q.timers \ {p}, !.sent = q.sent \cup {p},
                        !.num_query = q.num_query - 1]
      BY <1>3 DEF Counted
    <2> HIDE DEF r
    <2>2. q.sent \cup {p} = q.sent
      OBVIOUS
    <2>3. r \in Query
      <3>1. q.sent \cup {p} \in SUBSET Id /\ q.num_query - 1 \in Int /\ q.timers \ {p} \in SUBSET Id
        BY <1>1, <1>3, <2>2, OneLess DEF Query
      <3> QED BY <1>1, <2>1, <3>1 DEF Query
    <2>4. r.sent = q.sent /\ r.num_query = q.num_query - 1 /\ r.timers = q.timers \ {p}
      BY <1>1, <2>1, <2>2 DEF Query
    <2>5. /\ r.active = q.active /\ r.kind = q.kind /\ r.dst = q.dst
          /\ r.is_rdp_con = q.is_rdp_con /\ r.ids = q.ids /\ r.vset = q.vset
          /\ r.calls = q.calls /\ r.found = q.found /\ r.expired = q.expired
      BY <1>1, <2>1 DEF Query
    <2>6. r.nodes = q.nodes /\ r.told = q.told /\ r.broken = q.broken /\ r.waited = q.waited
      BY <1>1, <2>1 DEF Query
    <2>7. r.num_query = Cardinality(r.timers) /\ r.num_query <= MaxQuery
      BY <1>3, <2>4, OneLess
    <2>8. r.timers \subseteq r.sent \cup {Zero} /\ m_id \in r.sent
      BY <2>4 DEF Open
    <2>9. Open(r)
      <3>1. Best(r) /\ Sorted(r.dst, r.nodes)
        BY <1>1, <2>5, <2>6 DEF Best
      <3> QED BY <2>3, <2>5, <2>7, <2>8, <3>1 DEF Open
    <2>10. Linked(r, c)
      BY <2>4, <2>5 DEF Linked
    <2>11. SeenBut(r, c, p) /\ Kept(q, r)
      BY <2>4, <2>5, <2>6 DEF Seen, SeenBut, Kept
    <2> QED BY <2>4, <2>5, <2>6, <2>9, <2>10, <2>11 DEF r
  <1> QED BY <1>2, <1>3

Conn == [peer: Id, dport: {0, rdp_get_port}, desc: BOOLEAN, connected: BOOLEAN,
         left: SUBSET Values]

\* A new connection to a holder.
NewConn(p, dport, d) ==
    [peer |-> p, dport |-> dport, desc |-> d, connected |-> FALSE, left |-> Stored[p]]

\* A new connection is one to that holder, of which nothing was read.
LEMMA NewConnOK ==
    ASSUME NEW p \in HasId, NEW dport \in {0, rdp_get_port}, NEW d \in BOOLEAN
    PROVE  /\ NewConn(p, dport, d) # NoConn
           /\ NewConn(p, dport, d) \in Conn
           /\ \A S : p \in S =>
                NewConn(p, dport, d) \in [peer: S \cap HasId, dport: {0, rdp_get_port},
                      desc: BOOLEAN, connected: BOOLEAN, left: SUBSET Stored[p]]
           /\ NewConn(p, dport, d).peer = p /\ NewConn(p, dport, d).left = Stored[p]
  <1>1. p # Zero /\ p \in Id /\ p \in Peers
    BY NodesAreIds
  <1>2. Stored[p] \subseteq Values
    BY <1>1 DEF Values
  <1>3. NewConn(p, dport, d).peer = p /\ NewConn(p, dport, d).left = Stored[p]
    BY DEF NewConn
  <1>4. NewConn(p, dport, d) # NoConn
    BY <1>1, <1>3 DEF NoConn
  <1> QED BY <1>1, <1>2, <1>3, <1>4 DEF NewConn, Conn

\* No connection is one to no holder.
LEMMA NoConnOK == NoConn \in Conn /\ NoConn.peer = Zero /\ \A p \in HasId : p # NoConn.peer
  BY NodesAreIds DEF NoConn, Conn

\* A holder answers while there is a connection: it has to wait.
LEMMA WaitsOK ==
    ASSUME NEW q, NEW c, NEW p \in HasId, Open(q), Linked(q, c), c # NoConn, p \in q.sent, NEW r,
           r = [q EXCEPT !.ids = Append(@, p), !.waited = TRUE]
    PROVE  QueryOK(r, c) /\ Kept(q, r)
  <1>1. q \in Query
    BY DEF Open
  <1> DEFINE ids == Append(q.ids, p)
  <1>2. q.ids \in Seq(HasId) /\ ids \in Seq(HasId)
    BY <1>1 DEF Query
  <1>3. ToSet(ids) \subseteq q.sent
    <2>1. ToSet(q.ids) \subseteq q.sent
      BY DEF Linked
    <2> QED BY <1>2, <2>1 DEF ToSet
  <1>4. r = [q EXCEPT !.ids = ids, !.waited = TRUE]
    OBVIOUS
  <1> HIDE DEF ids
  <1>5. r \in Query
    BY <1>1, <1>2, <1>4 DEF Query
  <1>6. /\ r.ids = ids /\ r.waited = TRUE /\ r.active = q.active /\ r.kind = q.kind
        /\ r.dst = q.dst /\ r.nodes = q.nodes /\ r.sent = q.sent /\ r.timers = q.timers
    BY <1>1, <1>4 DEF Query
  <1>7. /\ r.num_query = q.num_query /\ r.is_rdp_con = q.is_rdp_con /\ r.vset = q.vset
        /\ r.told = q.told /\ r.expired = q.expired /\ r.calls = q.calls /\ r.found = q.found
    BY <1>1, <1>4 DEF Query
  <1>8. Open(r)
    <2>1. Best(r)
      BY <1>6, <1>7 DEF Open, Best
    <2> QED BY <1>5, <1>6, <1>7, <2>1 DEF Open
  <1>9. Linked(r, c)
    BY <1>3, <1>6, <1>7 DEF Linked
  <1>10. Seen(r, c) /\ Kept(q, r)
    BY <1>6 DEF Seen, Kept
  <1> QED BY <1>8, <1>9, <1>10 DEF QueryOK

\* The first holder answers.
LEMMA HolderOK ==
    ASSUME NEW q, NEW p \in HasId, Open(q), Linked(q, NoConn), SeenBut(q, NoConn, p), p \in q.sent,
           q.kind = "value", NEW d \in BOOLEAN, NEW r, r = [q EXCEPT !.is_rdp_con = TRUE]
    PROVE  QueryOK(r, NewConn(p, rdp_get_port, d)) /\ Kept(q, r)
  <1> DEFINE c == NewConn(p, rdp_get_port, d)
  <1>1. q \in Query
    BY DEF Open
  <1>2. r \in Query
    BY <1>1 DEF Query
  <1>3. /\ r.ids = q.ids /\ r.waited = q.waited /\ r.active = q.active /\ r.kind = q.kind
        /\ r.dst = q.dst /\ r.nodes = q.nodes /\ r.sent = q.sent /\ r.timers = q.timers
        /\ r.is_rdp_con = TRUE
    BY <1>1 DEF Query
  <1>4. /\ r.num_query = q.num_query /\ r.vset = q.vset /\ r.broken = q.broken
        /\ r.told = q.told /\ r.expired = q.expired /\ r.calls = q.calls /\ r.found = q.found
    BY <1>1 DEF Query
  <1>5. /\ c # NoConn /\ c.peer = p /\ c.left = Stored[p]
        /\ c \in [peer: r.sent \cap HasId, dport: {0, rdp_get_port},
                      desc: BOOLEAN, connected: BOOLEAN, left: SUBSET Stored[p]]
    BY <1>3, NewConnOK
  <1> HIDE DEF c
  <1>6. Open(r)
    <2>1. Best(r)
      BY <1>3, <1>4 DEF Open, Best
    <2> QED BY <1>2, <1>3, <1>4, <2>1 DEF Open
  <1>7. Linked(r, c)
    <2>1. r.vset = {} /\ ToSet(r.ids) \subseteq r.sent
      BY <1>3, <1>4 DEF Linked
    <2> QED BY <1>3, <1>5, <2>1 DEF Linked
  <1>8. Seen(r, c) /\ Kept(q, r)
    BY <1>3, <1>4, <1>5, NoConnOK DEF Seen, SeenBut, Kept
  <1> QED BY <1>5, <1>6, <1>7, <1>8 DEF QueryOK, c

\* One that has no value answers with the nodes it knows.
LEMMA NodesOK ==
    ASSUME NEW q, NEW c, Open(q), Linked(q, c), NEW p \in Peers \ HasId, SeenBut(q, c, p),
           NEW m, m.nodes \in Seq(Node), Sorted(q.dst, m.nodes), NEW o, o.dst = q.dst,
           o.nodes = q.nodes, NEW r,
           r = [q EXCEPT !.told = @ \cup ToSet(m.nodes), !.nodes = Merge(o, m)]
    PROVE  Open(r) /\ Linked(r, c) /\ Seen(r, c) /\ Kept(q, r)
  <1>1. q \in Query /\ Sorted(q.dst, q.nodes) /\ Best(q)
    BY DEF Open
  <1> DEFINE nodes == Merge(q, m)
             told == q.told \cup ToSet(m.nodes)
  <1>2. /\ nodes \in Seq(Node) /\ Sorted(q.dst, nodes)
        /\ ~ q.expired => Nearest(q.dst, ToSet(nodes) \cup told, NumFindNode, nodes)
    BY <1>1, MergeOK DEF Query
  <1>3. r = [q EXCEPT !.told = told, !.nodes = nodes]
    BY DEF Merge
  <1>4. told \in SUBSET Node
    BY <1>1, ToSetOf DEF Query
  <1> HIDE DEF nodes, told
  <1>5. r \in Query
    BY <1>1, <1>2, <1>3, <1>4 DEF Query
  <1>6. /\ r.ids = q.ids /\ r.waited = q.waited /\ r.active = q.active /\ r.kind = q.kind
        /\ r.dst = q.dst /\ r.nodes = nodes /\ r.sent = q.sent /\ r.timers = q.timers
        /\ r.is_rdp_con = q.is_rdp_con
    BY <1>1, <1>3 DEF Query
  <1>7. /\ r.num_query = q.num_query /\ r.vset = q.vset /\ r.broken = q.broken
        /\ r.told = told /\ r.expired = q.expired /\ r.calls = q.calls /\ r.found = q.found
    BY <1>1, <1>3 DEF Query
  <1>8. Open(r)
    <2>1. Best(r) /\ Sorted(r.dst, r.nodes)
      BY <1>2, <1>6, <1>7 DEF Best
    <2> QED BY <1>5, <1>6, <1>7, <2>1 DEF Open
  <1>9. Linked(r, c)
    BY <1>6, <1>7 DEF Linked
  <1>10. Seen(r, c) /\ Kept(q, r)
    BY <1>6, <1>7 DEF Seen, SeenBut, Kept
  <1> QED BY <1>8, <1>9, <1>10

\* A connection of which not all was read is marked as broken.
LEMMA BrokenOK ==
    ASSUME NEW q, NEW c, Open(q), Linked(q, c), NEW r, r = [q EXCEPT !.broken = TRUE]
    PROVE  Open(r) /\ Linked(r, c) /\ Seen(r, c) /\ Kept(q, r) /\ r.broken = TRUE
  <1>1. q \in Query
    BY DEF Open
  <1>2. r \in Query
    BY <1>1 DEF Query
  <1>3. /\ r.ids = q.ids /\ r.waited = q.waited /\ r.active = q.active /\ r.kind = q.kind
        /\ r.dst = q.dst /\ r.nodes = q.nodes /\ r.sent = q.sent /\ r.timers = q.timers
        /\ r.is_rdp_con = q.is_rdp_con
    BY <1>1 DEF Query
  <1>4. /\ r.num_query = q.num_query /\ r.vset = q.vset /\ r.broken = TRUE
        /\ r.told = q.told /\ r.expired = q.expired /\ r.calls = q.calls /\ r.found = q.found
    BY <1>1 DEF Query
  <1>5. Open(r)
    <2>1. Best(r)
      BY <1>3, <1>4 DEF Open, Best
    <2> QED BY <1>2, <1>3, <1>4, <2>1 DEF Open
  <1>6. Linked(r, c)
    BY <1>3, <1>4 DEF Linked
  <1>7. Seen(r, c) /\ Kept(q, r)
    BY <1>3, <1>4 DEF Seen, Kept
  <1> QED BY <1>4, <1>5, <1>6, <1>7

\* close_rdp() with values: the query is over.
LEMMA FoundOK ==
    ASSUME NEW q, NEW c, Open(q), Linked(q, c), c # NoConn, q.broken \/ c.left = {}, q.vset # {}
    PROVE  Done(Finish(q, TRUE)) /\ Kept(q, Finish(q, TRUE))
  <1> DEFINE r == Finish(q, TRUE)
  <1>1. q \in Query /\ q.calls = 0
    BY DEF Open
  <1>2. r = [q EXCEPT !.active = FALSE, !.calls = 1, !.found = TRUE]
    BY <1>1 DEF Finish
  <1> HIDE DEF r
  <1>3. r \in Query
    BY <1>1, <1>2 DEF Query
  <1>4. /\ r.active = FALSE /\ r.calls = 1 /\ r.found = TRUE /\ r.kind = q.kind
        /\ r.dst = q.dst /\ r.sent = q.sent /\ r.vset = q.vset /\ r.broken = q.broken
    BY <1>1, <1>2 DEF Query
  <1>5. /\ c.peer \in q.sent \cap HasId /\ q.vset \cup c.left = Stored[c.peer]
        /\ q.vset \subseteq Stored[c.peer]
    BY DEF Linked
  <1>6. \E p \in r.sent \cap HasId : /\ Stored[p] # {} /\ r.vset \subseteq Stored[p]
                                     /\ ~ r.broken => r.vset = Stored[p]
    BY <1>4, <1>5
  <1>7. r.kind # "none"
    BY <1>4 DEF Open
  <1> QED BY <1>3, <1>4, <1>6, <1>7 DEF Done, Kept, r

\* A holder that was connected to and gave no value has none, if nothing broke.
LEMMA NoValue ==
    ASSUME NEW q, NEW c, Linked(q, c), c # NoConn, q.broken \/ c.left = {}, q.vset = {}
    PROVE  ~ q.broken => Stored[c.peer] = {}
  BY DEF Linked

\* close_rdp() without values: the next holder.
LEMMA NextOK ==
    ASSUME NEW q, NEW c, Open(q), Linked(q, c), Seen(q, c), c # NoConn, q.broken \/ c.left = {},
           q.vset = {}, q.ids # <<>>, NEW d \in BOOLEAN, NEW r, r = [q EXCEPT !.ids = Tail(@)]
    PROVE  /\ Head(q.ids) \in HasId
           /\ QueryOK(r, NewConn(Head(q.ids), 0, d)) /\ Kept(q, r)
  <1> DEFINE p == Head(q.ids)
             ids == Tail(q.ids)
             e == NewConn(p, 0, d)
  <1>1. q \in Query
    BY DEF Open
  <1>2. /\ q.ids \in Seq(HasId) /\ p \in HasId /\ ids \in Seq(HasId)
        /\ p \in ToSet(q.ids) /\ ToSet(ids) \subseteq ToSet(q.ids)
    <2>1. q.ids \in Seq(HasId)
      BY <1>1 DEF Query
    <2>2. /\ p \in HasId /\ ids \in Seq(HasId) /\ Len(q.ids) \in Nat /\ Len(q.ids) > 0
          /\ Len(ids) = Len(q.ids) - 1 /\ p = q.ids[1]
          /\ \A k \in 1..Len(ids) : ids[k] = q.ids[k + 1]
      BY <2>1
    <2>3. p \in ToSet(q.ids)
      BY <2>1, <2>2 DEF ToSet
    <2>4. ASSUME NEW x \in ToSet(ids) PROVE x \in ToSet(q.ids)
      <3>1. PICK k \in DOMAIN ids : x = ids[k]
        BY DEF ToSet
      <3>2. k \in 1..Len(ids) /\ k + 1 \in 1..Len(q.ids)
        BY <2>2, <3>1
      <3>3. x = q.ids[k + 1] /\ DOMAIN q.ids = 1..Len(q.ids)
        BY <2>1, <2>2, <3>1, <3>2
      <3> QED BY <3>2, <3>3 DEF ToSet
    <2> QED BY <2>1, <2>2, <2>3, <2>4
  <1>3. p \in q.sent /\ ToSet(ids) \subseteq q.sent
    BY <1>2 DEF Linked
  <1>4. r = [q EXCEPT !.ids = ids]
    OBVIOUS
  <1> HIDE DEF ids, p
  <1>5. r \in Query
    BY <1>1, <1>2, <1>4 DEF Query
  <1>6. /\ r.ids = ids /\ r.waited = q.waited /\ r.active = q.active /\ r.kind = q.kind
        /\ r.dst = q.dst /\ r.nodes = q.nodes /\ r.sent = q.sent /\ r.timers = q.timers
        /\ r.is_rdp_con = q.is_rdp_con
    BY <1>1, <1>4 DEF Query
  <1>7. /\ r.num_query = q.num_query /\ r.vset = q.vset /\ r.broken = q.broken
        /\ r.told = q.told /\ r.expired = q.expired /\ r.calls = q.calls /\ r.found = q.found
    BY <1>1, <1>4 DEF Query
  <1>8. /\ e # NoConn /\ e.peer = p /\ e.left = Stored[p]
        /\ e \in [peer: r.sent \cap HasId, dport: {0, rdp_get_port},
                      desc: BOOLEAN, connected: BOOLEAN, left: SUBSET Stored[p]]
    BY <1>2, <1>3, <1>6, NewConnOK
  <1> HIDE DEF e
  <1>9. Open(r)
    <2>1. Best(r)
      BY <1>6, <1>7 DEF Open, Best
    <2> QED BY <1>5, <1>6, <1>7, <2>1 DEF Open
  <1>10. Linked(r, e)
    BY <1>3, <1>6, <1>7, <1>8 DEF Linked
  <1>11. Seen(r, e) /\ Kept(q, r)
    BY <1>6, <1>7, NoValue DEF Seen, Kept
  <1> QED BY <1>2, <1>8, <1>9, <1>10, <1>11 DEF QueryOK, e, p

\* close_rdp() without values and without another holder, before send_find().
LEMMA FreeOK ==
    ASSUME NEW q, NEW c, Open(q), Linked(q, c), Seen(q, c), c # NoConn, q.broken \/ c.left = {},
           q.vset = {}, q.ids = <<>>, NEW r, r = [q EXCEPT !.is_rdp_con = FALSE]
    PROVE  Open(r) /\ Linked(r, NoConn) /\ Seen(r, NoConn) /\ Kept(q, r)
  <1>1. q \in Query
    BY DEF Open
  <1>2. r \in Query
    BY <1>1 DEF Query
  <1>3. /\ r.ids = q.ids /\ r.waited = q.waited /\ r.active = q.active /\ r.kind = q.kind
        /\ r.dst = q.dst /\ r.nodes = q.nodes /\ r.sent = q.sent /\ r.timers = q.timers
        /\ r.is_rdp_con = FALSE
    BY <1>1 DEF Query
  <1>4. /\ r.num_query = q.num_query /\ r.vset = q.vset /\ r.broken = q.broken
        /\ r.told = q.told /\ r.expired = q.expired /\ r.calls = q.calls /\ r.found = q.found
    BY <1>1 DEF Query
  <1>5. Open(r)
    <2>1. Best(r)
      BY <1>3, <1>4 DEF Open, Best
    <2> QED BY <1>2, <1>3, <1>4, <2>1 DEF Open
  <1>6. Linked(r, NoConn)
    BY <1>3, <1>4 DEF Linked
  <1>7. Seen(r, NoConn) /\ Kept(q, r)
    BY <1>3, <1>4, NoValue DEF Seen, Kept
  <1> QED BY <1>5, <1>6, <1>7

\* READY2READ: a value is taken from the connection.
LEMMA ReadOK ==
    ASSUME NEW q, NEW c, Open(q), Linked(q, c), Seen(q, c), c # NoConn, c.connected,
           NEW v \in c.left, NEW r, r = [q EXCEPT !.vset = @ \cup {v}],
           NEW e, e = [c EXCEPT !.left = @ \ {v}]
    PROVE  QueryOK(r, e) /\ Kept(q, r)
  <1>1. q \in Query
    BY DEF Open
  <1>2. /\ c \in [peer: q.sent \cap HasId, dport: {0, rdp_get_port}, desc: BOOLEAN,
                   connected: BOOLEAN, left: SUBSET Stored[c.peer]]
        /\ q.vset \cup c.left = Stored[c.peer] /\ q.vset \subseteq Stored[c.peer]
        /\ q.kind = "value" /\ q.is_rdp_con
    BY DEF Linked
  <1>3. /\ e \in [peer: q.sent \cap HasId, dport: {0, rdp_get_port}, desc: BOOLEAN,
                   connected: BOOLEAN, left: SUBSET Stored[c.peer]]
        /\ e.peer = c.peer /\ e.left = c.left \ {v} /\ e.connected = c.connected
    BY <1>2
  <1>4. e # NoConn /\ v \in Stored[c.peer]
    BY <1>2, <1>3, NoConnOK
  <1>5. q.vset \cup {v} \in SUBSET Values
    BY <1>1, <1>2, <1>4, NodesAreIds DEF Query, Values
  <1> DEFINE vset == q.vset \cup {v}
  <1>6. r = [q EXCEPT !.vset = vset] /\ vset \cup e.left = Stored[c.peer]
        /\ vset \subseteq Stored[c.peer]
    BY <1>2, <1>3, <1>4
  <1> HIDE DEF vset
  <1>7. r \in Query
    BY <1>1, <1>5, <1>6 DEF Query, vset
  <1>8. /\ r.ids = q.ids /\ r.waited = q.waited /\ r.active = q.active /\ r.kind = q.kind
        /\ r.dst = q.dst /\ r.nodes = q.nodes /\ r.sent = q.sent /\ r.timers = q.timers
        /\ r.is_rdp_con = q.is_rdp_con
    BY <1>1, <1>6 DEF Query
  <1>9. /\ r.num_query = q.num_query /\ r.vset = vset /\ r.broken = q.broken
        /\ r.told = q.told /\ r.expired = q.expired /\ r.calls = q.calls /\ r.found = q.found
    BY <1>1, <1>6 DEF Query
  <1>10. Open(r)
    <2>1. Best(r)
      BY <1>8, <1>9 DEF Open, Best
    <2> QED BY <1>7, <1>8, <1>9, <2>1 DEF Open
  <1>11. Linked(r, e)
    <2>1. ToSet(r.ids) \subseteq r.sent
      BY <1>8 DEF Linked
    <2> QED BY <1>2, <1>3, <1>4, <1>6, <1>8, <1>9, <2>1 DEF Linked
  <1>12. Seen(r, e) /\ Kept(q, r)
    BY <1>3, <1>8, <1>9 DEF Seen, Kept
  <1> QED BY <1>4, <1>10, <1>11, <1>12 DEF QueryOK

\* rdp_get_func: CONNECTED.
LEMMA ConnectedOK ==
    ASSUME NEW q, NEW c, Open(q), Linked(q, c), Seen(q, c), c # NoConn,
           NEW e, e = [c EXCEPT !.connected = TRUE]
    PROVE  QueryOK(q, e)
  <1>1. /\ c \in [peer: q.sent \cap HasId, dport: {0, rdp_get_port}, desc: BOOLEAN,
                   connected: BOOLEAN, left: SUBSET Stored[c.peer]]
    BY DEF Linked
  <1>2. /\ e \in [peer: q.sent \cap HasId, dport: {0, rdp_get_port}, desc: BOOLEAN,
                   connected: BOOLEAN, left: SUBSET Stored[c.peer]]
        /\ e.peer = c.peer /\ e.left = c.left /\ e.connected = TRUE
    BY <1>1
  <1>3. e # NoConn
    BY <1>1, <1>2, NoConnOK
  <1>4. Linked(q, e) /\ Seen(q, e)
    BY <1>2, <1>3 DEF Linked, Seen
  <1> QED BY <1>3, <1>4 DEF QueryOK
-----------------------------------------------------------------------------
(* The steps of the lookups. *)

\* What lookup() gives, of this node or of a peer.
LEMMA LookupOK ==
    ASSUME NEW id \in Id, NEW S \in SUBSET Node
    PROVE  /\ lookup(id, S) \in Seq(Node) /\ Sorted(id, lookup(id, S))
           /\ Nearest(id, ToSet(lookup(id, S)), NumFindNode, lookup(id, S))
  <1> DEFINE s == Closest(id, S, NumFindNode)
  <1>1. S \in SUBSET Id /\ IsFiniteSet(S) /\ NumFindNode \in Nat
    BY NodesAreIds, IdFinite, LookupAssumption, IdAssumption, DhtQueryAssumption
  <1>2. Nearest(id, S, NumFindNode, s)
    BY <1>1, ClosestNearest
  <1> HIDE DEF s
  <1>3. s \in Seq(S) /\ Sorted(id, s) /\ ToSet(s) \in SUBSET S
    BY <1>2, ToSetOf DEF Nearest
  <1>4. Nearest(id, ToSet(s), NumFindNode, s)
    BY <1>1, <1>2, <1>3, NearestWithin
  <1>5. s \in Seq(Node)
    BY <1>3
  <1> QED BY <1>3, <1>4, <1>5 DEF lookup, s

\* A query that was not made.
LEMMA NoQueryOK == NoQuery \in Query
  <1>1. <<>> \in Seq(Node) /\ <<>> \in Seq(HasId) /\ Zero \in Id /\ 0 \in Nat
    BY NodesAreIds
  <1> QED BY <1>1 DEF NoQuery, Query

\* The empty list, of nobody.
LEMMA EmptyNearest == Sorted(Zero, <<>>) /\ \A id : Sorted(id, <<>>) /\ ToSet(<<>>) = {}
                      /\ Nearest(id, {}, NumFindNode, <<>>)
  <1>1. Cardinality({}) = 0 /\ NumFindNode \in Nat
    BY FS_EmptySet, LookupAssumption, IdAssumption, DhtQueryAssumption
  <1>2. \A id : Sorted(id, <<>>) /\ ToSet(<<>>) = {}
    BY DEF Sorted, ToSet
  <1>3. Len(<<>>) = IF NumFindNode <= Cardinality({}) THEN NumFindNode ELSE Cardinality({})
    BY <1>1
  <1> QED BY <1>2, <1>3 DEF Nearest

\* find_node() of an address.
LEMMA BootOK ==
    ASSUME NEW r, r = [NoQuery EXCEPT !.active = TRUE, !.kind = "boot", !.dst = m_id,
                                      !.sent = {m_id}, !.timers = {Zero}, !.num_query = 1]
    PROVE  QueryOK(r, NoConn) /\ r.kind = "boot"
  <1>1. r \in Query
    <2>1. m_id \in Id /\ {m_id} \in SUBSET Id /\ {Zero} \in SUBSET Id
      BY NodesAreIds
    <2> DEFINE one == 1
    <2>2. one \in Int /\ r = [NoQuery EXCEPT !.active = TRUE, !.kind = "boot", !.dst = m_id,
                               !.sent = {m_id}, !.timers = {Zero}, !.num_query = one]
      OBVIOUS
    <2> HIDE DEF one
    <2> QED BY <2>1, <2>2, NoQueryOK, ZenonT(60) DEF Query
  <1>2. /\ r.active = TRUE /\ r.kind = "boot" /\ r.dst = m_id /\ r.nodes = <<>> /\ r.sent = {m_id}
        /\ r.timers = {Zero} /\ r.num_query = 1
    BY DEF NoQuery
  <1>3. /\ r.is_rdp_con = FALSE /\ r.ids = <<>> /\ r.vset = {} /\ r.told = {}
        /\ r.expired = FALSE /\ r.broken = FALSE /\ r.waited = FALSE /\ r.calls = 0
        /\ r.found = FALSE
    BY DEF NoQuery
  <1>4. Cardinality({Zero}) = 1
    BY FS_Singleton
  <1>5. Best(r) /\ Sorted(r.dst, r.nodes)
    BY <1>2, <1>3, EmptyNearest, ZenonT(60) DEF Best
  <1>6. r.num_query = Cardinality(r.timers) /\ r.num_query <= MaxQuery
    BY <1>2, <1>4, LookupAssumption, IdAssumption, DhtQueryAssumption
  <1>7. Open(r)
    BY <1>1, <1>2, <1>3, <1>5, <1>6 DEF Open
  <1>8. Linked(r, NoConn)
    BY <1>2, <1>3, EmptyNearest DEF Linked
  <1>9. Seen(r, NoConn)
    BY <1>2 DEF Seen
  <1>10. r.num_query > 0
    BY <1>2
  <1> QED BY <1>2, <1>7, <1>8, <1>9, <1>10 DEF QueryOK

\* find_nv(), before send_find().
LEMMA FindOK ==
    ASSUME NEW S \in SUBSET Peers, NEW kind \in {"node", "value"}, NEW r,
           r = [NoQuery EXCEPT !.active = TRUE, !.kind = kind, !.dst = Dst, !.sent = {m_id},
                               !.nodes = lookup(Dst, S \cup {m_id})]
    PROVE  Open(r) /\ Linked(r, NoConn) /\ Seen(r, NoConn)
  <1> DEFINE nodes == lookup(Dst, S \cup {m_id})
  <1>1. /\ nodes \in Seq(Node) /\ Sorted(Dst, nodes)
        /\ Nearest(Dst, ToSet(nodes), NumFindNode, nodes)
    <2>1. S \cup {m_id} \in SUBSET Node
      BY DEF Node
    <2> QED BY <2>1, LookupOK, NodesAreIds
  <1>2. r = [NoQuery EXCEPT !.active = TRUE, !.kind = kind, !.dst = Dst, !.sent = {m_id},
                            !.nodes = nodes]
    OBVIOUS
  <1> HIDE DEF nodes
  <1>3. r \in Query
    <2>1. Dst \in Id /\ {m_id} \in SUBSET Id
      BY NodesAreIds
    <2> QED BY <1>1, <1>2, <2>1, NoQueryOK, ZenonT(60) DEF Query
  <1>4. /\ r.active = TRUE /\ r.kind = kind /\ r.dst = Dst /\ r.nodes = nodes /\ r.sent = {m_id}
        /\ r.timers = {} /\ r.num_query = 0
    BY <1>2, ZenonT(60) DEF NoQuery
  <1>5. /\ r.is_rdp_con = FALSE /\ r.ids = <<>> /\ r.vset = {} /\ r.told = {}
        /\ r.expired = FALSE /\ r.broken = FALSE /\ r.waited = FALSE /\ r.calls = 0
        /\ r.found = FALSE
    BY <1>2 DEF NoQuery
  <1>6. Best(r) /\ Sorted(r.dst, r.nodes)
    <2>1. ToSet(r.nodes) \cup r.told = ToSet(nodes)
      BY <1>4, <1>5
    <2> QED BY <1>1, <1>4, <2>1 DEF Best
  <1>7. r.num_query = Cardinality(r.timers) /\ r.num_query <= MaxQuery
    <2>1. Cardinality({}) = 0 /\ MaxQuery \in Nat
      BY FS_EmptySet, LookupAssumption, IdAssumption, DhtQueryAssumption
    <2> QED BY <1>4, <2>1
  <1>8. Open(r)
    BY <1>3, <1>4, <1>5, <1>6, <1>7 DEF Open
  <1>9. Linked(r, NoConn)
    BY <1>4, <1>5, EmptyNearest DEF Linked
  <1>10. Seen(r, NoConn)
    BY <1>4, NodesAreIds DEF Seen
  <1> QED BY <1>8, <1>9, <1>10

\* The early return behind a NAT.
LEMMA EarlyOK ==
    ASSUME NEW kind \in {"node", "value"}, NEW r, r = Finish([NoQuery EXCEPT !.kind = kind], FALSE)
    PROVE  Done(r) /\ r.active = FALSE /\ r.vset = {} /\ r.found = FALSE
  <1>1. r = [NoQuery EXCEPT !.kind = kind, !.active = FALSE, !.calls = 1, !.found = FALSE]
    BY DEF Finish, NoQuery
  <1>2. r \in Query
    <2> DEFINE one == 1
    <2>1. one \in Nat /\ r = [NoQuery EXCEPT !.kind = kind, !.active = FALSE, !.calls = one,
                                             !.found = FALSE]
      BY <1>1
    <2> HIDE DEF one
    <2> QED BY <2>1, NoQueryOK DEF Query
  <1>3. /\ r.active = FALSE /\ r.kind = kind /\ r.dst = Zero /\ r.nodes = <<>> /\ r.sent = {}
        /\ r.timers = {} /\ r.vset = {} /\ r.told = {} /\ r.calls = 1 /\ r.found = FALSE
    BY <1>1, ZenonT(60) DEF NoQuery
  <1>4. Best(r) /\ ToSet(r.nodes) = {}
    BY <1>3, EmptyNearest DEF Best
  <1> QED BY <1>2, <1>3, <1>4 DEF Done
-----------------------------------------------------------------------------
\* A datagram belongs to a query that was made, whose node was asked; a reply has a sorted
\* list, and is that of a holder if and only if its sender is one.
Message(m, q) ==
    /\ m.nonce \in Nonces /\ m.peer \in Peers
    /\ m.kind = q.kind /\ q.kind # "none" /\ m.dst = q.dst
    /\ q.kind # "boot" => m.peer \in q.sent
    /\ m.type = "reply" =>
         /\ m.nodes \in Seq(Node) /\ Sorted(m.dst, m.nodes)
         /\ m.flag \in {"data_are_nul", "data_are_nodes"}
         /\ m.kind = "value" => (m.flag = "data_are_nul" <=> m.peer \in HasId)

DhtInv ==
    /\ m_query \in [Nonces -> Query] /\ conn \in [Nonces -> Conn] /\ table \in SUBSET Peers
    /\ \A n \in Nonces : QueryOK(m_query[n], conn[n])
    /\ \A m \in net : Message(m, m_query[m.nonce])

\* A query that is over does not change any more.
Steady ==
    \A n \in Nonces :
        m_query[n].kind # "none" => /\ m_query'[n].kind = m_query[n].kind
                                    /\ m_query[n].active = FALSE => m_query'[n] = m_query[n]

\* The types of a query and its connection.
LEMMA QueryTypes ==
    ASSUME NEW q, NEW c, QueryOK(q, c)
    PROVE  q \in Query /\ c \in Conn
  <1>1. q \in Query
    BY NoQueryOK DEF QueryOK, Open, Done
  <1>2. ASSUME Open(q), Linked(q, c), c # NoConn
        PROVE  c \in Conn
    <2>1. /\ c \in [peer: q.sent \cap HasId, dport: {0, rdp_get_port}, desc: BOOLEAN,
                   connected: BOOLEAN, left: SUBSET Stored[c.peer]]
          /\ c.peer \in HasId
      BY <1>2 DEF Linked
    <2>2. c.peer \in Id /\ c.peer \in Peers /\ q.sent \cap HasId \subseteq Id
      BY <2>1, NodesAreIds
    <2>3. Stored[c.peer] \subseteq Values
      BY <2>2 DEF Values
    <2> QED BY <2>1, <2>2, <2>3 DEF Conn
  <1> QED BY <1>1, <1>2, NoConnOK DEF QueryOK

\* A step of one query keeps the invariant: the datagrams of the query stay good if what they
\* tell of it is kept, and it had none before it began.
LEMMA OneQuery ==
    ASSUME DhtInv, NEW n \in Nonces, NEW q, NEW c, QueryOK(q, c),
           m_query[n] = NoQuery \/ (Open(m_query[n]) /\ Kept(m_query[n], q)),
           m_query' = [m_query EXCEPT ![n] = q], conn' = [conn EXCEPT ![n] = c],
           table' \in SUBSET Peers,
           \A m \in net' \ net : m.nonce = n /\ Message(m, q)
    PROVE  DhtInv' /\ Steady
  <1>1. q \in Query /\ c \in Conn
    BY QueryTypes
  <1>2. m_query' \in [Nonces -> Query] /\ conn' \in [Nonces -> Conn]
    BY <1>1 DEF DhtInv
  <1>3. m_query'[n] = q /\ conn'[n] = c
    BY DEF DhtInv
  <1>4. \A o \in Nonces \ {n} : m_query'[o] = m_query[o] /\ conn'[o] = conn[o]
    BY DEF DhtInv
  <1>5. \A o \in Nonces : QueryOK(m_query'[o], conn'[o])
    BY <1>3, <1>4 DEF DhtInv
  <1>6. ASSUME NEW m \in net'
        PROVE  Message(m, m_query'[m.nonce])
    <2>1. CASE m \in net
      <3>1. Message(m, m_query[m.nonce])
        BY <2>1 DEF DhtInv
      <3>2. CASE m.nonce = n
        <4>1. m_query[n].kind # "none"
          BY <3>1, <3>2 DEF Message
        <4>2. Kept(m_query[n], q)
          BY <4>1 DEF NoQuery
        <4> QED BY <1>3, <3>1, <3>2, <4>2 DEF Message, Kept
      <3>3. CASE m.nonce # n
        BY <1>4, <3>1, <3>3 DEF Message
      <3> QED BY <3>2, <3>3
    <2>2. CASE m \notin net
      BY <1>3, <2>2, SMTT(60)
    <2> QED BY <2>1, <2>2
  <1>7. DhtInv'
    BY <1>2, <1>5, <1>6 DEF DhtInv, QueryOK, Message, Open, Done, Linked, Seen
  <1>8. Steady
    <2>1. m_query[n].kind # "none" => q.kind = m_query[n].kind /\ m_query[n].active
      BY DEF NoQuery, Kept, Open
    <2> QED BY <1>3, <1>4, <2>1 DEF Steady
  <1> QED BY <1>7, <1>8

\* The questions of a query.
LEMMA QuestionOK ==
    ASSUME NEW n \in Nonces, NEW q, NEW p \in Peers, NEW r, r.kind = q.kind, r.dst = q.dst,
           q.kind # "none", q.kind # "boot" => p \in r.sent
    PROVE  Question(n, q, p).nonce = n /\ Message(Question(n, q, p), r)
  <1>1. /\ Question(n, q, p).nonce = n /\ Question(n, q, p).peer = p
        /\ Question(n, q, p).kind = q.kind /\ Question(n, q, p).dst = q.dst
        /\ Question(n, q, p).type = "find"
    BY DEF Question
  <1>2. "find" # "reply"
    OBVIOUS
  <1> HIDE DEF Question
  <1> QED BY <1>1, <1>2 DEF Message

\* send_find() at the end of a step of an open query, or of a new one.
LEMMA SendFindStep ==
    ASSUME DhtInv, NEW n \in Nonces, NEW q, NEW c, Open(q), Linked(q, c), Seen(q, c),
           m_query[n] = NoQuery \/ (Open(m_query[n]) /\ Kept(m_query[n], q)),
           NEW before, before \subseteq net, send_find(n, q, before),
           conn' = [conn EXCEPT ![n] = c], table' \in SUBSET Peers
    PROVE  DhtInv' /\ Steady
  <1> DEFINE r == Asked(q)
  <1>1. QueryOK(r, c) /\ Kept(q, r) /\ Asking(q) \subseteq Peers /\ Asking(q) \subseteq r.sent
    BY AskedOK
  <1>2. m_query' = [m_query EXCEPT ![n] = r] /\ net' = before \cup {Question(n, q, p) : p \in Asking(q)}
    BY DEF send_find
  <1> HIDE DEF r
  <1>3. m_query[n] = NoQuery \/ (Open(m_query[n]) /\ Kept(m_query[n], r))
    BY <1>1 DEF Kept
  <1>4. ASSUME NEW m \in net' \ net
        PROVE  m.nonce = n /\ Message(m, r)
    <2>1. PICK p \in Asking(q) : m = Question(n, q, p)
      BY <1>2
    <2>2. q.kind # "none" /\ r.kind = q.kind /\ r.dst = q.dst
      BY <1>1 DEF Open, Kept
    <2> QED BY <1>1, <2>1, <2>2, QuestionOK
  <1> QED BY <1>1, <1>2, <1>3, <1>4, OneQuery

\* Nothing of the connection of a query that was not made.
LEMMA NoQueryNoConn ==
    ASSUME DhtInv, NEW n \in Nonces, m_query[n] = NoQuery
    PROVE  conn[n] = NoConn
  <1>1. NoQuery.active = FALSE /\ NoQuery.kind = "none"
    BY DEF NoQuery
  <1> QED BY <1>1 DEF DhtInv, QueryOK, Open, Done

\* A step that leaves all connections alone leaves that of the query alone.
LEMMA SameConn ==
    ASSUME DhtInv, NEW n \in Nonces, conn' = conn
    PROVE  conn' = [conn EXCEPT ![n] = conn[n]]
  BY DEF DhtInv

\* find_node() and find_value() keep the invariant.
LEMMA FindStep ==
    ASSUME DhtInv, NEW n \in Nonces, m_query[n] = NoQuery, NEW kind \in {"node", "value"},
           find_nv(n, kind) \/ find_early(n, kind)
    PROVE  DhtInv' /\ Steady
  <1>1. conn[n] = NoConn
    BY NoQueryNoConn
  <1>2. CASE find_nv(n, kind)
    <2> DEFINE q == [NoQuery EXCEPT !.active = TRUE, !.kind = kind, !.dst = Dst, !.sent = {m_id},
                                    !.nodes = lookup(Dst, table \cup {m_id})]
    <2>1. send_find(n, q, net) /\ conn' = conn /\ table' = table
      BY <1>2 DEF find_nv
    <2>2. table \in SUBSET Peers
      BY DEF DhtInv
    <2>3. Open(q) /\ Linked(q, NoConn) /\ Seen(q, NoConn)
      BY <2>2, FindOK
    <2> HIDE DEF q
    <2>4. conn' = [conn EXCEPT ![n] = NoConn]
      BY <1>1, <2>1, SameConn
    <2>5. m_query[n] = NoQuery \/ (Open(m_query[n]) /\ Kept(m_query[n], q))
      OBVIOUS
    <2>6. table' \in SUBSET Peers /\ net \subseteq net
      BY <2>1, <2>2
    <2> QED BY <2>1, <2>3, <2>4, <2>5, <2>6, SendFindStep
  <1>3. CASE find_early(n, kind)
    <2> DEFINE q == Finish([NoQuery EXCEPT !.kind = kind], FALSE)
    <2>1. m_query' = [m_query EXCEPT ![n] = q] /\ conn' = conn /\ table' = table /\ net' = net
      BY <1>3 DEF find_early
    <2>2. Done(q)
      BY EarlyOK
    <2> HIDE DEF q
    <2>3. conn' = [conn EXCEPT ![n] = NoConn] /\ table' \in SUBSET Peers /\ net' \ net = {}
      BY <1>1, <2>1, SameConn DEF DhtInv
    <2>4. QueryOK(q, NoConn)
      BY <2>2 DEF QueryOK
    <2>5. m_query[n] = NoQuery \/ (Open(m_query[n]) /\ Kept(m_query[n], q))
      OBVIOUS
    <2>6. \A m \in net' \ net : m.nonce = n /\ Message(m, q)
      BY <2>3
    <2> QED BY <2>1, <2>3, <2>4, <2>5, <2>6, OneQuery
  <1> QED BY <1>2, <1>3

\* find_node() of an address keeps the invariant.
LEMMA BootStep ==
    ASSUME DhtInv, NEW n \in Nonces, m_query[n] = NoQuery, NEW p \in Peers, find_node_boot(n, p)
    PROVE  DhtInv' /\ Steady
  <1> DEFINE q == [NoQuery EXCEPT !.active = TRUE, !.kind = "boot", !.dst = m_id, !.sent = {m_id},
                             !.timers = {Zero}, !.num_query = 1]
  <1>1. /\ m_query' = [m_query EXCEPT ![n] = q] /\ net' = net \cup {Question(n, q, p)}
        /\ conn' = conn /\ table' = table
    BY DEF find_node_boot
  <1>2. QueryOK(q, NoConn) /\ q.kind = "boot"
    BY BootOK
  <1> HIDE DEF q
  <1>3. conn' = [conn EXCEPT ![n] = NoConn] /\ table' \in SUBSET Peers
    BY <1>1, NoQueryNoConn, SameConn DEF DhtInv
  <1>4. \A m \in net' \ net : m.nonce = n /\ Message(m, q)
    BY <1>1, <1>2, QuestionOK
  <1>5. m_query[n] = NoQuery \/ (Open(m_query[n]) /\ Kept(m_query[n], q))
    OBVIOUS
  <1> QED BY <1>1, <1>2, <1>3, <1>4, <1>5, OneQuery

\* An open query, by a field of it or by its connection.
LEMMA IsOpen ==
    ASSUME DhtInv, NEW n \in Nonces, m_query[n].active \/ conn[n] # NoConn
    PROVE  Open(m_query[n]) /\ Linked(m_query[n], conn[n]) /\ Seen(m_query[n], conn[n])
  <1>1. NoQuery.active = FALSE
    BY DEF NoQuery
  <1> QED BY <1>1 DEF DhtInv, QueryOK, Done

\* timer_query keeps the invariant.
LEMMA TimerStep ==
    ASSUME DhtInv, NEW n \in Nonces, NEW id, timer_query(n, id)
    PROVE  DhtInv' /\ Steady
  <1> DEFINE q == m_query[n]
             r == [q EXCEPT !.sent = @ \cup {id}, !.num_query = @ - 1,
                            !.timers = @ \ {id}, !.expired = TRUE,
                            !.nodes = IF id = Zero THEN @ ELSE RemoveFirst(@, id)]
  <1>1. /\ q.active /\ id \in q.timers /\ send_find(n, r, net) /\ table' = table \ {id}
        /\ conn' = conn
    BY DEF timer_query
  <1>2. Open(q) /\ Linked(q, conn[n]) /\ Seen(q, conn[n])
    BY <1>1, IsOpen
  <1>3. Open(r) /\ Linked(r, conn[n]) /\ Seen(r, conn[n]) /\ Kept(q, r)
    <2> HIDE DEF q
    <2> QED BY <1>1, <1>2, TimerOK
  <1> HIDE DEF r
  <1>4. conn' = [conn EXCEPT ![n] = conn[n]] /\ table' \in SUBSET Peers
    BY <1>1, SameConn DEF DhtInv
  <1> QED BY <1>1, <1>2, <1>3, <1>4, SendFindStep

\* recv_find_node_reply() keeps the invariant, with a timer and without one.
LEMMA NodeReplyStep ==
    ASSUME DhtInv, NEW m \in net, m.type = "reply", NEW left, left \subseteq net,
           recv_find_node_reply(m.nonce, m, left)
    PROVE  DhtInv' /\ Steady
  <1> DEFINE n == m.nonce
             q == m_query[n]
             timer == TimerOf(q, m.peer)
             r == [q EXCEPT !.timers = @ \ {timer}, !.sent = @ \cup {m.peer},
                            !.num_query = @ - 1, !.told = @ \cup ToSet(m.nodes),
                            !.nodes = Merge(q, m)]
  <1>1. /\ q.active /\ q.kind # "value" /\ table' = table \cup {m.peer} /\ conn' = conn
        /\ IF timer \in q.timers THEN send_find(n, r, left) ELSE net' = left /\ m_query' = m_query
    BY DEF recv_find_node_reply
  <1>2. Message(m, q)
    BY DEF DhtInv
  <1>3. n \in Nonces /\ m.peer \in Peers /\ m.nodes \in Seq(Node) /\ Sorted(q.dst, m.nodes)
    BY <1>2 DEF Message
  <1> HIDE DEF n
  <1>4. Open(q) /\ Linked(q, conn[n]) /\ Seen(q, conn[n])
    BY <1>1, <1>3, IsOpen
  <1>5. conn' = [conn EXCEPT ![n] = conn[n]] /\ table' \in SUBSET Peers
    BY <1>1, <1>3, SameConn DEF DhtInv
  <1>6. CASE timer \in q.timers
    <2>1. timer \in {m.peer, Zero}
      BY DEF TimerOf
    <2>2. Open(r) /\ Linked(r, conn[n]) /\ Seen(r, conn[n]) /\ Kept(q, r)
      <3> HIDE DEF q, timer
      <3> QED BY <1>1, <1>3, <1>4, <1>6, <2>1, NodeReplyOK
    <2>3. send_find(n, r, left)
      BY <1>1, <1>6
    <2> HIDE DEF r
    <2> QED BY <1>3, <1>4, <1>5, <2>2, <2>3, SendFindStep
  <1>7. CASE timer \notin q.timers
    <2>1. net' = left /\ m_query' = [m_query EXCEPT ![n] = q]
      BY <1>1, <1>7 DEF DhtInv
    <2>2. QueryOK(q, conn[n]) /\ Kept(q, q)
      BY <1>3 DEF DhtInv, Kept
    <2>3. net' \ net = {}
      BY <2>1
    <2> HIDE DEF r, q, timer
    <2> QED BY <1>3, <1>4, <1>5, <2>1, <2>2, <2>3, OneQuery DEF q
  <1> QED BY <1>6, <1>7

\* rdp::connect() gives a new connection, with a descriptor or without.
LEMMA ConnectIs ==
    ASSUME NEW n, NEW sport, NEW p, NEW dport, Connect(n, sport, p, dport)
    PROVE  \E d \in BOOLEAN : conn' = [conn EXCEPT ![n] = NewConn(p, dport, d)]
  <1> DEFINE used == sport # 0 /\ \E o \in Nonces \ {n} : conn[o].peer = p /\ conn[o].dport = dport
  <1>1. conn' = [conn EXCEPT ![n] = NewConn(p, dport, ~ used)]
    BY DEF Connect, NewConn
  <1>2. (~ used) \in BOOLEAN
    OBVIOUS
  <1> HIDE DEF used
  <1> QED BY <1>1, <1>2

\* recv_find_value_reply() keeps the invariant, for each of its three answers.
LEMMA ValueReplyStep ==
    ASSUME DhtInv, NEW m \in net, m.type = "reply", NEW left, left \subseteq net,
           recv_find_value_reply(m.nonce, m, left)
    PROVE  DhtInv' /\ Steady
  <1> DEFINE n == m.nonce
             q == m_query[n]
             p == m.peer
             r == Counted(q, p)
             c == conn[n]
  <1>1. /\ q.active /\ q.kind = "value"
        /\ table' = IF p \in q.timers THEN table \cup {p} ELSE table
    BY DEF recv_find_value_reply
  <1>2. \/ /\ m.flag = "data_are_nul" /\ q.is_rdp_con
           /\ m_query' = [m_query EXCEPT ![n] = [r EXCEPT !.ids = Append(@, p), !.waited = TRUE]]
           /\ net' = left
           /\ conn' = conn
        \/ /\ m.flag = "data_are_nul" /\ ~ q.is_rdp_con
           /\ m_query' = [m_query EXCEPT ![n] = [r EXCEPT !.is_rdp_con = TRUE]]
           /\ Connect(n, 0, p, rdp_get_port)
           /\ net' = left
        \/ /\ m.flag = "data_are_nodes"
           /\ send_find(n, [r EXCEPT !.told = @ \cup ToSet(m.nodes), !.nodes = Merge(q, m)], left)
           /\ conn' = conn
    BY DEF recv_find_value_reply
  <1>3. Message(m, q)
    BY DEF DhtInv
  <1>4. /\ n \in Nonces /\ p \in Peers /\ m.nodes \in Seq(Node) /\ Sorted(q.dst, m.nodes)
        /\ p \in q.sent /\ (m.flag = "data_are_nul" <=> p \in HasId)
    BY <1>1, <1>3 DEF Message
  <1>5. table' \in SUBSET Peers
    BY <1>1, <1>4 DEF DhtInv
  <1> HIDE DEF n, p
  <1>6. Open(q) /\ Linked(q, c) /\ Seen(q, c)
    BY <1>1, <1>4, IsOpen
  <1>7. /\ Open(r) /\ Linked(r, c) /\ SeenBut(r, c, p) /\ Kept(q, r)
        /\ r.is_rdp_con = q.is_rdp_con /\ r.nodes = q.nodes /\ r.sent = q.sent
    <2> HIDE DEF q, c
    <2> QED BY <1>4, <1>6, CountedOK
  <1>8. r.kind = "value" /\ r.dst = q.dst /\ (q.is_rdp_con <=> c # NoConn)
    BY <1>1, <1>6, <1>7 DEF Kept, Linked
  <1> HIDE DEF r, q, c
  <1>9. CASE /\ m.flag = "data_are_nul" /\ q.is_rdp_con
             /\ m_query' = [m_query EXCEPT ![n] = [r EXCEPT !.ids = Append(@, p), !.waited = TRUE]]
             /\ net' = left
             /\ conn' = conn
    <2> DEFINE s == [r EXCEPT !.ids = Append(@, p), !.waited = TRUE]
    <2>1. p \in HasId /\ p \in r.sent /\ c # NoConn
      BY <1>4, <1>7, <1>8, <1>9
    <2>2. QueryOK(s, c) /\ Kept(r, s)
      BY <1>7, <2>1, WaitsOK
    <2>3. m_query' = [m_query EXCEPT ![n] = s]
      BY <1>9
    <2> HIDE DEF s
    <2>4. conn' = [conn EXCEPT ![n] = c]
      BY <1>4, <1>9, SameConn DEF c
    <2>5. Kept(q, s)
      BY <1>7, <2>2 DEF Kept
    <2>6. m_query[n] = NoQuery \/ (Open(m_query[n]) /\ Kept(m_query[n], s))
      BY <1>6, <2>5 DEF q
    <2>7. \A x \in net' \ net : x.nonce = n /\ Message(x, s)
      BY <1>9
    <2> QED BY <1>4, <1>5, <2>2, <2>3, <2>4, <2>6, <2>7, OneQuery
  <1>10. CASE /\ m.flag = "data_are_nul" /\ ~ q.is_rdp_con
              /\ m_query' = [m_query EXCEPT ![n] = [r EXCEPT !.is_rdp_con = TRUE]]
              /\ Connect(n, 0, p, rdp_get_port)
              /\ net' = left
    <2> DEFINE s == [r EXCEPT !.is_rdp_con = TRUE]
    <2>1. p \in HasId /\ p \in r.sent /\ c = NoConn
      BY <1>4, <1>7, <1>8, <1>10
    <2>2. PICK d \in BOOLEAN : conn' = [conn EXCEPT ![n] = NewConn(p, rdp_get_port, d)]
      BY <1>10, ConnectIs
    <2>3. Linked(r, NoConn) /\ SeenBut(r, NoConn, p)
      BY <1>7, <2>1
    <2>4. QueryOK(s, NewConn(p, rdp_get_port, d)) /\ Kept(r, s)
      BY <1>7, <1>8, <2>1, <2>3, HolderOK
    <2>5. m_query' = [m_query EXCEPT ![n] = s]
      BY <1>10
    <2> HIDE DEF s
    <2>6. Kept(q, s)
      BY <1>7, <2>4 DEF Kept
    <2>7. m_query[n] = NoQuery \/ (Open(m_query[n]) /\ Kept(m_query[n], s))
      BY <1>6, <2>6 DEF q
    <2>8. \A x \in net' \ net : x.nonce = n /\ Message(x, s)
      BY <1>10
    <2> QED BY <1>4, <1>5, <2>2, <2>4, <2>5, <2>7, <2>8, OneQuery
  <1>11. CASE /\ m.flag = "data_are_nodes"
              /\ send_find(n, [r EXCEPT !.told = @ \cup ToSet(m.nodes), !.nodes = Merge(q, m)], left)
              /\ conn' = conn
    <2> DEFINE s == [r EXCEPT !.told = @ \cup ToSet(m.nodes), !.nodes = Merge(q, m)]
    <2>1. p \in Peers \ HasId
      BY <1>4, <1>11
    <2>2. Sorted(r.dst, m.nodes) /\ q.dst = r.dst /\ q.nodes = r.nodes
      BY <1>4, <1>7, <1>8
    <2>3. Open(s) /\ Linked(s, c) /\ Seen(s, c) /\ Kept(r, s)
      BY <1>4, <1>7, <2>1, <2>2, NodesOK
    <2>4. send_find(n, s, left)
      BY <1>11
    <2> HIDE DEF s
    <2>5. conn' = [conn EXCEPT ![n] = c]
      BY <1>4, <1>11, SameConn DEF c
    <2>6. Kept(q, s)
      BY <1>7, <2>3 DEF Kept
    <2>7. m_query[n] = NoQuery \/ (Open(m_query[n]) /\ Kept(m_query[n], s))
      BY <1>6, <2>6 DEF q
    <2> QED BY <1>4, <1>5, <2>3, <2>4, <2>5, <2>7, SendFindStep
  <1> QED BY <1>2, <1>9, <1>10, <1>11 DEF r, q

\* close_rdp() keeps the invariant: it ends the query, goes to the next holder or asks on.
LEMMA CloseStep ==
    ASSUME DhtInv, NEW n \in Nonces, NEW q, conn[n] # NoConn, Open(m_query[n]),
           Open(q), Linked(q, conn[n]), Seen(q, conn[n]), Kept(m_query[n], q),
           q.broken \/ conn[n].left = {}, close_rdp(n, q)
    PROVE  DhtInv' /\ Steady
  <1> DEFINE c == conn[n]
             free == [q EXCEPT !.is_rdp_con = FALSE]
             next == q.vset = {} /\ q.ids # <<>>
  <1>1. /\ m_query' = [m_query EXCEPT ![n] = Closed(n, q)]
        /\ IF next THEN Connect(n, rdp_get_port, Head(q.ids), 0)
           ELSE conn' = [conn EXCEPT ![n] = NoConn]
        /\ net' = IF q.vset = {} /\ ~ next
                  THEN net \cup {Question(n, q, p) : p \in Asking(free)} ELSE net
        /\ table' = table
    BY DEF close_rdp
  <1>2. table' \in SUBSET Peers
    BY <1>1 DEF DhtInv
  <1>3. CASE q.vset # {}
    <2> DEFINE r == Finish(q, TRUE)
    <2>1. /\ m_query' = [m_query EXCEPT ![n] = r] /\ conn' = [conn EXCEPT ![n] = NoConn]
          /\ net' = net
      BY <1>1, <1>3 DEF Closed
    <2>2. Done(r) /\ Kept(q, r)
      <3> HIDE DEF c, r
      <3> QED BY <1>3, FoundOK DEF r
    <2> HIDE DEF r
    <2>3. QueryOK(r, NoConn)
      BY <2>2 DEF QueryOK
    <2>4. Kept(m_query[n], r)
      BY <2>2 DEF Kept
    <2>5. m_query[n] = NoQuery \/ (Open(m_query[n]) /\ Kept(m_query[n], r))
      BY <2>4
    <2>6. \A x \in net' \ net : x.nonce = n /\ Message(x, r)
      BY <2>1
    <2> QED BY <1>2, <2>1, <2>3, <2>5, <2>6, OneQuery
  <1>4. CASE next
    <2> DEFINE r == [q EXCEPT !.ids = Tail(@)]
    <2>1. /\ m_query' = [m_query EXCEPT ![n] = r] /\ Connect(n, rdp_get_port, Head(q.ids), 0)
          /\ net' = net
      BY <1>1, <1>4 DEF Closed
    <2>2. PICK d \in BOOLEAN : conn' = [conn EXCEPT ![n] = NewConn(Head(q.ids), 0, d)]
      BY <2>1, ConnectIs
    <2>3. QueryOK(r, NewConn(Head(q.ids), 0, d)) /\ Kept(q, r)
      <3>1. q.vset = {} /\ q.ids # <<>>
        BY <1>4
      <3> HIDE DEF c, r
      <3> QED BY <3>1, NextOK DEF r
    <2> HIDE DEF r
    <2>4. Kept(m_query[n], r)
      BY <2>3 DEF Kept
    <2>5. m_query[n] = NoQuery \/ (Open(m_query[n]) /\ Kept(m_query[n], r))
      BY <2>4
    <2>6. \A x \in net' \ net : x.nonce = n /\ Message(x, r)
      BY <2>1
    <2> QED BY <1>2, <2>1, <2>2, <2>3, <2>5, <2>6, OneQuery
  <1>5. CASE q.vset = {} /\ q.ids = <<>>
    <2>1. /\ m_query' = [m_query EXCEPT ![n] = Asked(free)] /\ conn' = [conn EXCEPT ![n] = NoConn]
          /\ net' = net \cup {Question(n, q, p) : p \in Asking(free)}
      BY <1>1, <1>5 DEF Closed
    <2>2. Open(free) /\ Linked(free, NoConn) /\ Seen(free, NoConn) /\ Kept(q, free)
      <3> HIDE DEF c, free
      <3> QED BY <1>5, FreeOK DEF free
    <2> HIDE DEF free
    <2>3. \A p : Question(n, q, p) = Question(n, free, p)
      BY <2>2 DEF Question, Kept
    <2>4. send_find(n, free, net)
      BY <2>1, <2>3 DEF send_find
    <2>5. Kept(m_query[n], free)
      BY <2>2 DEF Kept
    <2>6. m_query[n] = NoQuery \/ (Open(m_query[n]) /\ Kept(m_query[n], free))
      BY <2>5
    <2>7. net \subseteq net
      OBVIOUS
    <2> QED BY <1>2, <2>1, <2>2, <2>4, <2>6, <2>7, SendFindStep
  <1> QED BY <1>3, <1>4, <1>5

\* close_rdp() of a connection of which something is left.
LEMMA BrokenStep ==
    ASSUME DhtInv, NEW n \in Nonces, conn[n] # NoConn,
           close_rdp(n, [m_query[n] EXCEPT !.broken = TRUE])
    PROVE  DhtInv' /\ Steady
  <1> DEFINE q == [m_query[n] EXCEPT !.broken = TRUE]
  <1>1. Open(m_query[n]) /\ Linked(m_query[n], conn[n])
    BY IsOpen
  <1>2. Open(q) /\ Linked(q, conn[n]) /\ Seen(q, conn[n]) /\ Kept(m_query[n], q) /\ q.broken = TRUE
    BY <1>1, BrokenOK
  <1> HIDE DEF q
  <1> QED BY <1>1, <1>2, CloseStep DEF q

\* The reply of a peer.
LEMMA AnswerOK ==
    ASSUME NEW m, NEW q, Message(m, q), q \in Query
    PROVE  recv_find(m).nonce = m.nonce /\ Message(recv_find(m), q)
  <1>1. /\ m.peer \in Peers /\ m.dst = q.dst /\ q.dst \in Id /\ m.nonce \in Nonces
        /\ m.kind = q.kind /\ q.kind # "none" /\ (q.kind # "boot" => m.peer \in q.sent)
    BY DEF Message, Query
  <1>2. ASSUME NEW nodes, NEW flag, nodes \in Seq(Node), Sorted(m.dst, nodes),
               flag \in {"data_are_nul", "data_are_nodes"},
               m.kind = "value" => (flag = "data_are_nul" <=> m.peer \in HasId)
        PROVE  Answer(m, nodes, flag).nonce = m.nonce /\ Message(Answer(m, nodes, flag), q)
    <2> DEFINE a == Answer(m, nodes, flag)
    <2>1. /\ a.nonce = m.nonce /\ a.peer = m.peer /\ a.kind = m.kind /\ a.dst = m.dst
          /\ a.nodes = nodes /\ a.flag = flag
      BY DEF Answer
    <2> HIDE DEF a
    <2> QED BY <1>1, <1>2, <2>1 DEF Message, a
  <1>3. CASE m.kind = "value" /\ m.peer \in HasId
    <2>1. recv_find(m) = Answer(m, <<>>, "data_are_nul")
      BY <1>3 DEF recv_find
    <2>2. <<>> \in Seq(Node) /\ Sorted(m.dst, <<>>)
      BY EmptyNearest
    <2> QED BY <1>2, <1>3, <2>1, <2>2
  <1>4. CASE ~ (m.kind = "value" /\ m.peer \in HasId)
    <2> DEFINE nodes == lookup(m.dst, PeerTable[m.peer] \cup {m.peer, m_id})
    <2>1. recv_find(m) = Answer(m, nodes, "data_are_nodes")
      BY <1>4 DEF recv_find
    <2>2. PeerTable[m.peer] \cup {m.peer, m_id} \in SUBSET Node
      BY <1>1, LookupAssumption, IdAssumption, DhtQueryAssumption DEF Node
    <2>3. nodes \in Seq(Node) /\ Sorted(m.dst, nodes)
      BY <1>1, <2>2, LookupOK
    <2> HIDE DEF nodes
    <2>4. "data_are_nodes" # "data_are_nul"
      OBVIOUS
    <2> QED BY <1>2, <1>4, <2>1, <2>3, <2>4
  <1> QED BY <1>3, <1>4

\* The answer of a peer keeps the invariant.
LEMMA RecvFindStep ==
    ASSUME DhtInv, RecvFind
    PROVE  DhtInv' /\ Steady
  <1>1. m_query' = m_query /\ conn' = conn /\ table' = table
    BY DEF RecvFind
  <1>2. PICK m \in net : net' \subseteq net \cup {recv_find(m)}
    BY DEF RecvFind
  <1>3. Message(m, m_query[m.nonce]) /\ m_query[m.nonce] \in Query
    BY DEF DhtInv, Message
  <1>4. recv_find(m).nonce = m.nonce /\ Message(recv_find(m), m_query[m.nonce])
    BY <1>3, AnswerOK
  <1>5. \A x \in net' : Message(x, m_query'[x.nonce])
    BY <1>1, <1>2, <1>4 DEF DhtInv
  <1>6. \A n \in Nonces : QueryOK(m_query'[n], conn'[n])
    BY <1>1 DEF DhtInv
  <1>7. DhtInv'
    BY <1>1, <1>5, <1>6 DEF DhtInv, QueryOK, Message, Open, Done, Linked, Seen
  <1>8. Steady
    BY <1>1 DEF Steady
  <1> QED BY <1>7, <1>8

\* CONNECTED keeps the invariant.
LEMMA ConnectedStep ==
    ASSUME DhtInv, NEW n \in Nonces, Connected(n)
    PROVE  DhtInv' /\ Steady
  <1> DEFINE e == [conn[n] EXCEPT !.connected = TRUE]
  <1>1. /\ conn[n].dport = rdp_get_port /\ m_query' = m_query /\ table' = table /\ net' = net
        /\ conn' = [conn EXCEPT ![n] = e]
    BY DEF Connected
  <1>2. conn[n] # NoConn
    BY <1>1 DEF NoConn, rdp_get_port
  <1>3. QueryOK(m_query[n], e)
    BY <1>2, IsOpen, ConnectedOK
  <1> HIDE DEF e
  <1>4. m_query' = [m_query EXCEPT ![n] = m_query[n]] /\ table' \in SUBSET Peers
    BY <1>1 DEF DhtInv
  <1>5. m_query[n] = NoQuery \/ (Open(m_query[n]) /\ Kept(m_query[n], m_query[n]))
    BY <1>2, IsOpen DEF Kept
  <1>6. \A x \in net' \ net : x.nonce = n /\ Message(x, m_query[n])
    BY <1>1
  <1> QED BY <1>1, <1>3, <1>4, <1>5, <1>6, OneQuery

\* A value that is read keeps the invariant.
LEMMA ReadValStep ==
    ASSUME DhtInv, NEW n \in Nonces, ReadVal(n)
    PROVE  DhtInv' /\ Steady
  <1>1. PICK v \in conn[n].left :
           /\ m_query' = [m_query EXCEPT ![n].vset = @ \cup {v}]
           /\ conn' = [conn EXCEPT ![n].left = @ \ {v}]
    BY DEF ReadVal
  <1> DEFINE r == [m_query[n] EXCEPT !.vset = @ \cup {v}]
             e == [conn[n] EXCEPT !.left = @ \ {v}]
  <1>2. conn[n].connected /\ table' = table /\ net' = net
    BY DEF ReadVal
  <1>3. conn[n] # NoConn
    BY <1>1 DEF NoConn
  <1>4. QueryOK(r, e) /\ Kept(m_query[n], r)
    BY <1>2, <1>3, IsOpen, ReadOK
  <1>5. m_query' = [m_query EXCEPT ![n] = r] /\ conn' = [conn EXCEPT ![n] = e]
    BY <1>1
  <1> HIDE DEF r, e
  <1>6. table' \in SUBSET Peers
    BY <1>2 DEF DhtInv
  <1>7. m_query[n] = NoQuery \/ (Open(m_query[n]) /\ Kept(m_query[n], r))
    BY <1>3, <1>4, IsOpen
  <1>8. \A x \in net' \ net : x.nonce = n /\ Message(x, r)
    BY <1>2
  <1> QED BY <1>4, <1>5, <1>6, <1>7, <1>8, OneQuery

\* The end of the values keeps the invariant.
LEMMA ReadEndStep ==
    ASSUME DhtInv, NEW n \in Nonces, ReadEnd(n)
    PROVE  DhtInv' /\ Steady
  <1>1. conn[n].connected /\ conn[n].left = {} /\ close_rdp(n, m_query[n])
    BY DEF ReadEnd
  <1>2. NoConn.connected = FALSE
    BY DEF NoConn
  <1>3. conn[n] # NoConn
    BY <1>1, <1>2
  <1>4. Open(m_query[n]) /\ Linked(m_query[n], conn[n]) /\ Seen(m_query[n], conn[n])
    BY <1>3, IsOpen
  <1>5. Kept(m_query[n], m_query[n])
    BY DEF Kept
  <1> QED BY <1>1, <1>3, <1>4, <1>5, CloseStep

\* A connection that ends early keeps the invariant.
LEMMA ConnEndsStep ==
    ASSUME DhtInv, NEW n \in Nonces, ConnEnds(n)
    PROVE  DhtInv' /\ Steady
  <1>1. conn[n].desc /\ close_rdp(n, [m_query[n] EXCEPT !.broken = TRUE])
    BY DEF ConnEnds
  <1>2. NoConn.desc = FALSE
    BY DEF NoConn
  <1>3. conn[n] # NoConn
    BY <1>1, <1>2
  <1> QED BY <1>1, <1>3, BrokenStep

\* sweep_rdp() keeps the invariant.
LEMMA SweepStep ==
    ASSUME DhtInv, NEW n \in Nonces, sweep_rdp(n)
    PROVE  DhtInv' /\ Steady
  <1> DEFINE q == [m_query[n] EXCEPT !.broken = TRUE]
  <1>1. q.active /\ q.is_rdp_con /\ close_rdp(n, q)
    BY DEF sweep_rdp
  <1>2. q.active = m_query[n].active /\ q.is_rdp_con = m_query[n].is_rdp_con
    BY DEF DhtInv, Query
  <1>3. conn[n] # NoConn
    BY <1>1, <1>2, IsOpen DEF Linked
  <1> QED BY <1>1, <1>3, BrokenStep

\* A reply keeps the invariant, whichever handler takes it.
LEMMA ReplyStep ==
    ASSUME DhtInv, RecvReply
    PROVE  DhtInv' /\ Steady
  <1>1. PICK m \in net : \E left \in {net, net \ {m}} :
           /\ m.type = "reply"
           /\ recv_find_node_reply(m.nonce, m, left) \/ recv_find_value_reply(m.nonce, m, left)
    BY DEF RecvReply
  <1>2. PICK left \in {net, net \ {m}} :
           /\ m.type = "reply"
           /\ recv_find_node_reply(m.nonce, m, left) \/ recv_find_value_reply(m.nonce, m, left)
    BY <1>1
  <1>3. left \subseteq net
    OBVIOUS
  <1> QED BY <1>2, <1>3, NodeReplyStep, ValueReplyStep

\* Every step of the lookups keeps the invariant and leaves the queries alone that are over.
LEMMA DhtStep ==
    ASSUME DhtInv, Next
    PROVE  DhtInv' /\ Steady
  <1>1. ASSUME NEW n \in Nonces, Find(n)
        PROVE  DhtInv' /\ Steady
    <2>1. CASE \E p \in Peers : find_node_boot(n, p)
      BY <1>1, <2>1, BootStep DEF Find
    <2>2. CASE \E kind \in Kinds \ {"boot"} : find_nv(n, kind) \/ find_early(n, kind)
      <3>1. PICK kind \in Kinds \ {"boot"} : find_nv(n, kind) \/ find_early(n, kind)
        BY <2>2
      <3>2. kind \in {"node", "value"} /\ m_query[n] = NoQuery
        BY <1>1, LookupAssumption, IdAssumption, DhtQueryAssumption DEF Find
      <3> QED BY <3>1, <3>2, FindStep
    <2> QED BY <1>1, <2>1, <2>2 DEF Find
  <1>2. CASE Timers
    BY <1>2, TimerStep DEF Timers
  <1>3. CASE RecvReply
    BY <1>3, ReplyStep
  <1>4. CASE RecvFind
    BY <1>4, RecvFindStep
  <1>5. CASE \E n \in Nonces : Connected(n) \/ ReadVal(n) \/ ReadEnd(n) \/ ConnEnds(n)
    BY <1>5, ConnectedStep, ReadValStep, ReadEndStep, ConnEndsStep
  <1>6. CASE Sweep
    BY <1>6, SweepStep DEF Sweep
  <1> QED BY <1>1, <1>2, <1>3, <1>4, <1>5, <1>6 DEF Next

\* So does a step of something else.
LEMMA DhtStutter ==
    ASSUME DhtInv, UNCHANGED vars
    PROVE  DhtInv' /\ Steady
  <1>1. m_query' = m_query /\ conn' = conn /\ table' = table /\ net' = net
    BY DEF vars
  <1>2. /\ \A n \in Nonces : QueryOK(m_query'[n], conn'[n])
        /\ \A x \in net' : Message(x, m_query'[x.nonce])
    BY <1>1 DEF DhtInv
  <1>3. DhtInv'
    BY <1>1, <1>2 DEF DhtInv, QueryOK, Message, Open, Done, Linked, Seen
  <1> QED BY <1>1, <1>3 DEF Steady

\* The invariant holds at the start.
LEMMA DhtStart ==
    ASSUME Init
    PROVE  DhtInv
  <1>1. NoQuery \in Query /\ NoConn \in Conn
    BY NoQueryOK, NoConnOK
  <1>2. table \in SUBSET Peers
    BY LookupAssumption, IdAssumption, DhtQueryAssumption DEF Init
  <1>3. QueryOK(NoQuery, NoConn)
    BY DEF QueryOK
  <1> QED BY <1>1, <1>2, <1>3 DEF Init, DhtInv

\* What the lookups promise follows.
LEMMA DhtImplies ==
    ASSUME DhtInv
    PROVE  QueryInv /\ GetExact
  <1>1. ASSUME NEW n \in Nonces
        PROVE  LET q == m_query[n]
               IN  /\ q.active => /\ q.num_query = Cardinality(q.timers) /\ q.num_query <= MaxQuery
                                  /\ q.num_query > 0 \/ conn[n] # NoConn
                   /\ q.active /\ q.is_rdp_con <=> conn[n] # NoConn
    <2>1. NoQuery.active = FALSE
      BY DEF NoQuery
    <2> QED BY <2>1 DEF DhtInv, QueryOK, Open, Done, Linked
  <1>2. ASSUME NEW n \in Nonces
        PROVE  LET q == m_query[n]
               IN  q.calls = (IF q.active \/ q.kind = "none" THEN 0 ELSE 1)
    <2>1. NoQuery.kind = "none" /\ NoQuery.calls = 0
      BY DEF NoQuery
    <2> QED BY <2>1 DEF DhtInv, QueryOK, Open, Done
  <1>3. ASSUME NEW n \in Nonces, m_query[n].kind # "none", ~ m_query[n].active
        PROVE  Done(m_query[n])
    <2>1. NoQuery.kind = "none"
      BY DEF NoQuery
    <2> QED BY <1>3, <2>1 DEF DhtInv, QueryOK, Open
  <1>4. ASSUME NEW n \in Nonces
        PROVE  LET q == m_query[n]
               IN  q.kind # "none" /\ ~ q.active /\ ~ q.expired /\ ~ q.found =>
                     /\ q.timers = {}
                     /\ ToSet(q.nodes) \subseteq q.sent
                     /\ q.nodes = lookup(q.dst, ToSet(q.nodes) \cup q.told)
    <2> DEFINE q == m_query[n]
    <2> SUFFICES ASSUME q.kind # "none", ~ q.active, ~ q.expired, ~ q.found
                 PROVE  /\ q.timers = {}
                        /\ ToSet(q.nodes) \subseteq q.sent
                        /\ q.nodes = lookup(q.dst, ToSet(q.nodes) \cup q.told)
      OBVIOUS
    <2>1. Done(q)
      BY <1>3
    <2>2. q.timers = {} /\ ToSet(q.nodes) \subseteq q.sent /\ Best(q) /\ q \in Query
      BY <2>1 DEF Done
    <2>3. q.dst \in Id /\ q.nodes \in Seq(Node) /\ q.told \in SUBSET Node
      BY <2>2 DEF Query
    <2>4. ToSet(q.nodes) \cup q.told \in SUBSET Id
      BY <2>3, ToSetOf, NodesAreIds
    <2>5. IsFiniteSet(ToSet(q.nodes) \cup q.told) /\ NumFindNode \in Nat
      BY <2>4, IdFinite, LookupAssumption, IdAssumption, DhtQueryAssumption
    <2>6. Nearest(q.dst, ToSet(q.nodes) \cup q.told, NumFindNode, q.nodes)
      BY <2>2 DEF Best
    <2> QED BY <2>2, <2>3, <2>4, <2>5, <2>6, NearestClosest DEF lookup
  <1>5. QueryInv
    BY <1>1, <1>2, <1>4 DEF QueryInv, Awaited, CalledOnce, Converged
  <1>6. GetExact
    <2> SUFFICES ASSUME NEW n \in Nonces, m_query[n].kind = "value", ~ m_query[n].active
                 PROVE  LET q == m_query[n]
                            have == {p \in q.sent \cap HasId : Stored[p] # {}}
                        IN  /\ q.found => q.vset # {} /\ \E p \in have : q.vset \subseteq Stored[p]
                            /\ ~ q.broken /\ q.found => \E p \in have : q.vset = Stored[p]
                            /\ ~ q.broken /\ ~ q.expired /\ ~ q.waited /\ ~ q.found => have = {}
      BY DEF GetExact
    <2>1. Done(m_query[n])
      BY <1>3
    <2> QED BY <2>1 DEF Done
  <1> QED BY <1>5, <1>6

\* Every open query waits for a question or a connection, num_query
\* counts its questions, func is called once, and a lookup that nobody let down has asked all
\* its nodes and was told of none that is closer (dht::send_find, timer_query, the replies and
\* close_rdp).  For any tables, any number of nodes, any max_query and num_find_node, and any
\* loss, delay and duplication of datagrams.
THEOREM QueryInvariance == Spec => []QueryInv
  <1>1. Init => DhtInv
    BY DhtStart
  <1>2. DhtInv /\ [Next]_vars => DhtInv'
    BY DhtStep, DhtStutter
  <1>3. DhtInv => QueryInv
    BY DhtImplies
  <1> QED BY <1>1, <1>2, <1>3, PTL DEF Spec

\* Find_value() gives all the values of one holder that was asked, and
\* none only if no node that was asked has one, with the exceptions that GetExact names
\* (dht::recv_find_value_reply, read_val, close_rdp, sweep_rdp).
THEOREM GetsAreExact == Spec => []GetExact
  <1>1. Init => DhtInv
    BY DhtStart
  <1>2. DhtInv /\ [Next]_vars => DhtInv'
    BY DhtStep, DhtStutter
  <1>3. DhtInv => GetExact
    BY DhtImplies
  <1> QED BY <1>1, <1>2, <1>3, PTL DEF Spec
-----------------------------------------------------------------------------
(* The get of the client (ProxyGet). *)

Gets == [asked: BOOLEAN, getdata: BOOLEAN, timer: BOOLEAN, desc: BOOLEAN,
         vset: SUBSET (Values \cup {Cut}), calls: Nat, result: BOOLEAN, again: BOOLEAN,
         short: BOOLEAN]
Reqs == [client: {"none", "opening", "open"}, server: {"none", "accepted", "closed"}]
Reps == [server: {"none", "opening", "open", "closed"},
         client: {"none", "RGR_HDR", "RGR_VAL_HDR", "closed"}, result: BOOLEAN,
         left: SUBSET Values, flight: Seq(Values \cup {"hdr"}), op: BOOLEAN]

\* The get of the client and the connection of its question.
Waiting ==
    /\ get.timer = get.getdata
    /\ get.asked = FALSE => get = NoGet /\ req = NoReq
    /\ get.getdata = TRUE => get.asked = TRUE /\ get.calls = 0 /\ get.again = FALSE
    /\ get.asked = TRUE /\ get.getdata = FALSE => get.calls = IF get.again THEN 2 ELSE 1
    /\ req.client # "none" => get.again = FALSE
    /\ get.calls > 0 => (get.result = TRUE => get.vset # {})
    /\ get.calls > 0 /\ get.short = FALSE => (get.result = TRUE <=> get.vset # {})
    /\ req.server # "closed" => forClient = {}
    /\ get.calls > 0 /\ get.short = FALSE /\ forClient = {} => req = NoReq

\* What became of the query of the proxy, and of its values on their way to the client.
Told(q) ==
    /\ rep.server # "none" /\ rep.result = q.found /\ rep.left \subseteq q.vset
    /\ Cut \notin get.vset => get.vset \subseteq q.vset
    /\ rep.client \in {"none", "RGR_HDR"} =>
         get.vset = {} /\ rep.left = q.vset /\ rep.op = FALSE /\ rep.flight \in {<<>>, <<"hdr">>}
    /\ rep.client = "RGR_HDR" => rep.flight # <<>>
    /\ rep.server = "opening" => rep.client = "none" /\ rep.flight = <<>>
    /\ rep.client = "RGR_VAL_HDR" =>
         /\ rep.flight \in Seq(q.vset)
         /\ get.getdata = TRUE /\ Cut \notin get.vset =>
              get.vset \cup ToSet(rep.flight) \cup rep.left = q.vset
    /\ get.getdata = TRUE /\ get.short = FALSE /\ rep.server = "closed" => rep.left = {}
    /\ get.calls > 0 /\ get.short = FALSE /\ Cut \notin get.vset => get.vset = q.vset

Answering ==
    /\ forClient = {} => rep = NoRep /\ get.vset = {}
    /\ forClient # {} =>
         \E n \in Nonces :
            /\ forClient = {n} /\ m_query[n].kind = "value"
            /\ m_query[n].active = TRUE =>
                 rep = NoRep /\ get.vset = {} /\ (get.calls > 0 => get.short = TRUE)
            /\ m_query[n].active = FALSE => Told(m_query[n])

ClientOK ==
    /\ get \in Gets /\ req \in Reqs /\ rep \in Reps
    /\ Waiting /\ Answering

ProxyInv == DhtInv /\ ClientOK
-----------------------------------------------------------------------------
\* What the calls of func do to a get.
LEMMA CallIs ==
    ASSUME NEW g \in Gets, NEW b \in BOOLEAN
    PROVE  /\ Call(g, b) \in Gets
           /\ Call(g, b).calls = g.calls + 1
           /\ Call(g, b).result = IF g.calls = 0 THEN b ELSE g.result
           /\ Call(g, b).asked = g.asked /\ Call(g, b).getdata = g.getdata
           /\ Call(g, b).timer = g.timer /\ Call(g, b).desc = g.desc
           /\ Call(g, b).vset = g.vset /\ Call(g, b).again = g.again
           /\ Call(g, b).short = g.short
  <1> DEFINE k == g.calls + 1
             x == IF g.calls = 0 THEN b ELSE g.result
  <1>1. k \in Nat /\ x \in BOOLEAN
    BY DEF Gets
  <1>2. Call(g, b) = [g EXCEPT !.calls = k, !.result = x]
    BY DEF Call
  <1> HIDE DEF k, x
  <1>3. Call(g, b) \in Gets
    BY <1>1, <1>2 DEF Gets
  <1>4. /\ Call(g, b).calls = k /\ Call(g, b).result = x
    BY <1>2 DEF Gets
  <1>5. /\ Call(g, b).asked = g.asked /\ Call(g, b).getdata = g.getdata
        /\ Call(g, b).timer = g.timer /\ Call(g, b).desc = g.desc
        /\ Call(g, b).vset = g.vset /\ Call(g, b).again = g.again
        /\ Call(g, b).short = g.short
    BY <1>2 DEF Gets
  <1> QED BY <1>3, <1>4, <1>5 DEF k, x

\* What the end of a get in m_getdata leaves of it.
LEMMA OverIs ==
    ASSUME NEW g \in Gets
    PROVE  /\ Over(g) \in Gets /\ Over(g).getdata = FALSE /\ Over(g).timer = FALSE
           /\ Over(g).asked = g.asked /\ Over(g).desc = g.desc /\ Over(g).vset = g.vset
           /\ Over(g).calls = g.calls /\ Over(g).result = g.result
           /\ Over(g).again = g.again /\ Over(g).short = g.short
  <1>1. Over(g) \in Gets
    BY DEF Over, Gets
  <1>2. /\ Over(g).getdata = FALSE /\ Over(g).timer = FALSE
        /\ Over(g).asked = g.asked /\ Over(g).desc = g.desc /\ Over(g).vset = g.vset
    BY DEF Over, Gets
  <1>3. /\ Over(g).calls = g.calls /\ Over(g).result = g.result
        /\ Over(g).again = g.again /\ Over(g).short = g.short
    BY DEF Over, Gets
  <1> QED BY <1>1, <1>2, <1>3

\* The end of a get that is in m_getdata, by a call with what was read.
LEMMA AnsweredIs ==
    ASSUME NEW g \in Gets, g.calls = 0
    PROVE  LET h == Answered(g)
           IN  /\ h \in Gets /\ h.getdata = FALSE /\ h.timer = FALSE /\ h.calls = 1
               /\ h.result = (g.vset # {}) /\ h.asked = g.asked /\ h.desc = g.desc
               /\ h.vset = g.vset /\ h.again = g.again /\ h.short = g.short
  <1> DEFINE b == g.vset # {}
             c == Call(g, b)
  <1>1. b \in BOOLEAN /\ Answered(g) = Over(c)
    BY DEF Answered
  <1> HIDE DEF b
  <1>2. /\ c \in Gets /\ c.calls = 1 /\ c.result = b /\ c.asked = g.asked
        /\ c.desc = g.desc /\ c.vset = g.vset /\ c.again = g.again /\ c.short = g.short
    BY <1>1, CallIs
  <1> HIDE DEF c
  <1>3. /\ Over(c) \in Gets /\ Over(c).getdata = FALSE /\ Over(c).timer = FALSE
        /\ Over(c).calls = 1 /\ Over(c).result = b /\ Over(c).asked = g.asked
        /\ Over(c).desc = g.desc /\ Over(c).vset = g.vset /\ Over(c).again = g.again
        /\ Over(c).short = g.short
    BY <1>2, OverIs
  <1> QED BY <1>1, <1>3, Zenon DEF b

\* The types of the start.
LEMMA NoneOK == NoGet \in Gets /\ NoReq \in Reqs /\ NoRep \in Reps
  <1>1. <<>> \in Seq(Values \cup {"hdr"})
    OBVIOUS
  <1> QED BY <1>1 DEF NoGet, NoReq, NoRep, Gets, Reqs, Reps

\* A query that is over: its values are those of one node.
LEMMA FoundValues ==
    ASSUME NEW q, Done(q)
    PROVE  /\ Cut \notin q.vset
           /\ q.found = (q.vset # {})
           /\ q.vset # {} => \E p \in Peers : q.vset \subseteq Stored[p]
  <1>1. q.found \in BOOLEAN
    BY DEF Done, Query
  <1>2. q.vset # {} => \E p \in Peers : q.vset \subseteq Stored[p]
    BY NodesAreIds DEF Done
  <1> QED BY <1>1, <1>2, ProxyGetAssumption DEF Done

\* What the proxy promises follows from the invariant.
LEMMA GetImplies ==
    ASSUME ProxyInv
    PROVE  GetInv
  <1>1. GetAwaited
    <2>1. get \in Gets /\ Waiting
      BY DEF ProxyInv, ClientOK
    <2>2. NoGet.calls = 0
      BY DEF NoGet
    <2> QED BY <2>1, <2>2 DEF GetAwaited, Waiting, Gets
  <1>2. ToldExact
    <2> DEFINE found == UNION {m_query[n].vset : n \in forClient}
    <2> SUFFICES ASSUME get.calls > 0, Cut \notin get.vset
                 PROVE  /\ get.result => get.vset # {}
                        /\ get.vset # {} => \E p \in Peers : get.vset \subseteq Stored[p]
                        /\ forClient # {} /\ ~ get.short =>
                             get.vset = found /\ (get.result <=> found # {})
      BY DEF ToldExact
    <2>1. get \in Gets /\ Waiting /\ Answering /\ DhtInv
      BY DEF ProxyInv, ClientOK
    <2>2. get.result => get.vset # {}
      BY <2>1 DEF Waiting, Gets
    <2>3. CASE forClient = {}
      BY <2>1, <2>2, <2>3 DEF Answering
    <2>4. CASE forClient # {}
      <3>1. PICK n \in Nonces :
              /\ forClient = {n} /\ m_query[n].kind = "value"
              /\ m_query[n].active = TRUE =>
                   rep = NoRep /\ get.vset = {} /\ (get.calls > 0 => get.short = TRUE)
              /\ m_query[n].active = FALSE => Told(m_query[n])
        BY <2>1, <2>4 DEF Answering
      <3>2. found = m_query[n].vset
        BY <3>1
      <3>3. m_query[n].active \in BOOLEAN
        BY <2>1 DEF DhtInv, Query
      <3>4. CASE m_query[n].active = FALSE
        <4>1. Done(m_query[n])
          <5>1. NoQuery.kind = "none"
            BY DEF NoQuery
          <5> QED BY <2>1, <3>1, <3>4, <5>1 DEF DhtInv, QueryOK, Open
        <4>2. Told(m_query[n])
          BY <3>1, <3>4
        <4>3. get.vset # {} => \E p \in Peers : get.vset \subseteq Stored[p]
          BY <4>1, <4>2, FoundValues DEF Told
        <4>4. ~ get.short => get.vset = found /\ (get.result <=> found # {})
          BY <2>1, <3>2, <4>2 DEF Told, Waiting, Gets
        <4> QED BY <2>2, <4>3, <4>4
      <3>5. CASE m_query[n].active = TRUE
        <4>1. get.vset = {} /\ get.short = TRUE
          BY <3>1, <3>5
        <4>2. get.short
          BY <4>1
        <4> QED BY <2>2, <4>1, <4>2
      <3> QED BY <3>3, <3>4, <3>5
    <2> QED BY <2>3, <2>4
  <1> QED BY <1>1, <1>2 DEF GetInv

\* Once the proxy answers, its query is over.
LEMMA Replying ==
    ASSUME ProxyInv, rep.server # "none"
    PROVE  \E n \in Nonces : /\ forClient = {n} /\ m_query[n].kind = "value"
                             /\ m_query[n].active = FALSE
                             /\ Done(m_query[n]) /\ Told(m_query[n])
  <1>1. NoRep.server = "none"
    BY DEF NoRep
  <1>2. DhtInv /\ Answering
    BY DEF ProxyInv, ClientOK
  <1>3. PICK n \in Nonces :
              /\ forClient = {n} /\ m_query[n].kind = "value"
              /\ m_query[n].active = TRUE => rep = NoRep
              /\ m_query[n].active = FALSE => Told(m_query[n])
    BY <1>1, <1>2 DEF Answering
  <1>4. m_query[n].active = FALSE
    <2>1. m_query[n].active \in BOOLEAN
      BY <1>2 DEF DhtInv, Query
    <2> QED BY <1>1, <1>3, <2>1
  <1>5. Done(m_query[n])
    <2>1. NoQuery.kind = "none"
      BY DEF NoQuery
    <2> QED BY <1>2, <1>3, <1>4, <2>1 DEF DhtInv, QueryOK, Open
  <1> QED BY <1>3, <1>4, <1>5

\* A step that leaves the reply alone.
LEMMA AnsweringKept ==
    ASSUME Answering, m_query' = m_query, forClient' = forClient, rep' = rep,
           get \in Gets, get' \in Gets,
           get'.vset = get.vset, get'.getdata = TRUE => get.getdata = TRUE,
           get'.short = FALSE => get.short = FALSE,
           get'.calls > 0 /\ get'.short = FALSE => get.calls > 0
    PROVE  Answering'
  <1>0. get.short \in BOOLEAN /\ get'.short \in BOOLEAN
    BY DEF Gets
  <1>1. ASSUME NEW n \in Nonces, Told(m_query[n])
        PROVE  Told(m_query[n])'
    BY <1>1 DEF Told
  <1> QED BY <1>0, <1>1 DEF Answering

\* get() keeps the invariant, registered or not.
LEMMA GetStart ==
    ASSUME ProxyInv, proxy_get
    PROVE  ClientOK'
  <1>1. /\ get \in Gets /\ req \in Reqs /\ rep \in Reps /\ Waiting /\ Answering
    BY DEF ProxyInv, ClientOK
  <1>2. get.asked = FALSE
    BY <1>1 DEF proxy_get, Gets
  <1>3. get = NoGet /\ req = NoReq
    BY <1>1, <1>2 DEF Waiting
  <1>4. /\ get.getdata = FALSE /\ get.timer = FALSE /\ get.desc = FALSE /\ get.vset = {}
        /\ get.calls = 0 /\ get.result = FALSE /\ get.again = FALSE /\ get.short = FALSE
        /\ req.server = "none" /\ req.client = "none"
    BY <1>3 DEF NoGet, NoReq
  <1>5. forClient = {} /\ rep = NoRep
    BY <1>1, <1>4 DEF Waiting, Answering
  <1>6. rep' = rep /\ forClient' = forClient
    BY DEF proxy_get
  <1>7. CASE get' = Call([get EXCEPT !.asked = TRUE], FALSE) /\ req' = req
    <2> DEFINE g == [get EXCEPT !.asked = TRUE]
    <2>1. /\ g \in Gets /\ g.asked = TRUE /\ g.getdata = FALSE /\ g.timer = FALSE
          /\ g.desc = FALSE /\ g.vset = {} /\ g.calls = 0 /\ g.again = FALSE /\ g.short = FALSE
      BY <1>1, <1>4 DEF Gets
    <2>2. get' = Call(g, FALSE)
      BY <1>7
    <2> HIDE DEF g
    <2>3. /\ get' \in Gets /\ get'.calls = 1 /\ get'.result = FALSE /\ get'.asked = TRUE
          /\ get'.getdata = FALSE /\ get'.timer = FALSE /\ get'.vset = {} /\ get'.again = FALSE
          /\ get'.short = FALSE
      <3> DEFINE b == FALSE
      <3>1. b \in BOOLEAN /\ get' = Call(g, b)
        BY <2>2
      <3> HIDE DEF b
      <3>2. /\ get' \in Gets /\ get'.calls = 1 /\ get'.result = b /\ get'.asked = TRUE
            /\ get'.getdata = FALSE /\ get'.timer = FALSE /\ get'.vset = {}
            /\ get'.again = FALSE /\ get'.short = FALSE
        BY <2>1, <3>1, CallIs
      <3> QED BY <3>2 DEF b
    <2>4. Waiting'
      BY <1>3, <1>4, <1>5, <1>6, <1>7, <2>3 DEF Waiting
    <2>5. Answering'
      BY <1>5, <1>6, <2>3 DEF Answering
    <2> QED BY <1>1, <1>6, <1>7, <2>3, <2>4, <2>5 DEF ClientOK
  <1>8. CASE /\ get' = [get EXCEPT !.asked = TRUE, !.getdata = TRUE, !.timer = TRUE, !.desc = TRUE]
             /\ req' = [req EXCEPT !.client = "opening"]
    <2>1. get' \in Gets
      BY <1>1, <1>8 DEF Gets
    <2>2. /\ get'.asked = TRUE /\ get'.getdata = TRUE /\ get'.timer = TRUE /\ get'.vset = {}
          /\ get'.calls = 0 /\ get'.again = FALSE /\ get'.short = FALSE
      BY <1>1, <1>4, <1>8 DEF Gets
    <2>3. req' \in Reqs /\ req'.server = "none"
      BY <1>1, <1>4, <1>8 DEF Reqs
    <2>4. Waiting'
      BY <1>5, <1>6, <2>1, <2>2, <2>3 DEF Waiting, Gets
    <2>5. Answering'
      BY <1>5, <1>6, <2>2 DEF Answering
    <2> QED BY <1>1, <1>6, <2>1, <2>3, <2>4, <2>5 DEF ClientOK
  <1> QED BY <1>7, <1>8 DEF proxy_get

\* The connection of the question moves, and the get does not change.
LEMMA ReqMoves ==
    ASSUME ProxyInv, req' \in Reqs, req # NoReq, req'.client # "none" => req.client # "none",
           req.server = "closed" => req'.server = "closed",
           UNCHANGED <<vars, get, rep, forClient>>
    PROVE  ClientOK'
  <1>1. /\ get \in Gets /\ req \in Reqs /\ rep \in Reps /\ Waiting /\ Answering
    BY DEF ProxyInv, ClientOK
  <1>2. m_query' = m_query /\ get' = get /\ rep' = rep /\ forClient' = forClient
    BY DEF vars
  <1>4. Waiting'
    BY <1>1, <1>2 DEF Waiting
  <1>5. Answering'
    BY <1>1, <1>2, AnsweringKept
  <1> QED BY <1>1, <1>2, <1>4, <1>5 DEF ClientOK

\* The RESET with which the proxy closes keeps the invariant.
LEMMA ResetStep ==
    ASSUME ProxyInv, GetReset
    PROVE  ClientOK'
  <1>1. /\ get \in Gets /\ req \in Reqs /\ rep \in Reps /\ Waiting /\ Answering
    BY DEF ProxyInv, ClientOK
  <1>2. /\ m_query' = m_query /\ rep' = rep /\ forClient' = forClient
        /\ req.client # "none" /\ req.server = "closed"
        /\ req' = [req EXCEPT !.client = "none"] /\ get' = [get EXCEPT !.desc = FALSE]
    BY DEF GetReset, vars
  <1>3. /\ get' \in Gets /\ get'.asked = get.asked /\ get'.getdata = get.getdata
        /\ get'.timer = get.timer /\ get'.vset = get.vset /\ get'.calls = get.calls
        /\ get'.result = get.result /\ get'.again = get.again /\ get'.short = get.short
    <2>1. get' \in Gets
      BY <1>1, <1>2 DEF Gets
    <2> QED BY <1>1, <1>2, <2>1 DEF Gets
  <1>4. req' \in Reqs /\ req'.client = "none" /\ req'.server = "closed"
    BY <1>1, <1>2 DEF Reqs
  <1>5. req # NoReq
    BY <1>2 DEF NoReq
  <1>6. Waiting'
    BY <1>1, <1>2, <1>3, <1>4, <1>5 DEF Waiting
  <1>7. Answering'
    BY <1>1, <1>2, <1>3, AnsweringKept
  <1> QED BY <1>1, <1>2, <1>3, <1>4, <1>6, <1>7 DEF ClientOK

\* Any other end of the question keeps the invariant: it calls func, maybe again.
LEMMA FailsStep ==
    ASSUME ProxyInv, GetFails
    PROVE  ClientOK'
  <1>1. /\ get \in Gets /\ req \in Reqs /\ rep \in Reps /\ Waiting /\ Answering
    BY DEF ProxyInv, ClientOK
  <1> DEFINE h == Over(Call(get, FALSE))
             a == ~ get.getdata
             s == get.short \/ get.getdata
  <1>2. h \in Gets /\ h.getdata = FALSE /\ h.timer = FALSE /\ h.asked = get.asked
        /\ h.vset = get.vset /\ h.calls = get.calls + 1 /\ h.short = get.short
        /\ h.result = IF get.calls = 0 THEN FALSE ELSE get.result
    <2> DEFINE b == FALSE
    <2>1. b \in BOOLEAN /\ h = Over(Call(get, b))
      OBVIOUS
    <2> HIDE DEF b
    <2>2. h \in Gets /\ h.getdata = FALSE /\ h.timer = FALSE /\ h.asked = get.asked
          /\ h.vset = get.vset /\ h.calls = get.calls + 1 /\ h.short = get.short
          /\ h.result = IF get.calls = 0 THEN b ELSE get.result
      <3> DEFINE c == Call(get, b)
      <3>1. /\ c \in Gets /\ c.calls = get.calls + 1 /\ c.asked = get.asked
            /\ c.vset = get.vset /\ c.short = get.short
            /\ c.result = IF get.calls = 0 THEN b ELSE get.result
        BY <1>1, <2>1, CallIs
      <3>2. h = Over(c)
        BY <2>1
      <3> HIDE DEF h, c
      <3> QED BY <3>1, <3>2, OverIs
    <2> HIDE DEF h
    <2> QED BY <2>2 DEF b
  <1>3. /\ m_query' = m_query /\ rep' = rep /\ forClient' = forClient
        /\ req.client # "none" /\ req' = [req EXCEPT !.client = "none"]
        /\ get' = [h EXCEPT !.again = a, !.short = s]
    <2>1. get' = [h EXCEPT !.again = ~ get.getdata, !.short = @ \/ get.getdata]
      BY DEF GetFails
    <2>2. get' = [h EXCEPT !.again = ~ get.getdata, !.short = h.short \/ get.getdata]
      <3> HIDE DEF h
      <3> QED BY <2>1
    <2>3. h.short = get.short
      BY <1>2
    <2> HIDE DEF h
    <2> QED BY <2>2, <2>3 DEF GetFails, vars
  <1>4. a \in BOOLEAN /\ s \in BOOLEAN
    OBVIOUS
  <1>5. /\ get.getdata = TRUE => a = FALSE /\ s = TRUE
        /\ get.getdata = FALSE => a = TRUE /\ s = get.short
    BY <1>1 DEF Gets
  <1> HIDE DEF h, a, s
  <1>6. /\ get' \in Gets /\ get'.asked = get.asked /\ get'.getdata = FALSE
        /\ get'.timer = FALSE /\ get'.vset = get.vset /\ get'.calls = get.calls + 1
        /\ get'.again = a /\ get'.short = s /\ get'.result = h.result
    <2>1. get' \in Gets
      BY <1>2, <1>3, <1>4 DEF Gets
    <2>2. get'.again = a /\ get'.short = s /\ get'.result = h.result
      BY <1>2, <1>3, <1>4 DEF Gets
    <2> QED BY <1>2, <1>3, <1>4, <2>1, <2>2 DEF Gets
  <1>7. req' \in Reqs /\ req'.client = "none" /\ req'.server = req.server
    BY <1>1, <1>3 DEF Reqs
  <1>8. req # NoReq /\ get.again = FALSE /\ get.asked = TRUE
    <2>1. req # NoReq
      BY <1>3 DEF NoReq
    <2> QED BY <1>1, <1>3, <2>1 DEF Waiting, Gets
  <1>9. get.getdata \in BOOLEAN /\ get.calls \in Nat /\ get.short \in BOOLEAN
    BY <1>1 DEF Gets
  <1>10. Waiting'
    <2>1. CASE get.getdata = TRUE
      <3>1. get.calls = 0
        BY <1>1, <2>1 DEF Waiting
      <3>2. get'.calls = 1 /\ get'.again = FALSE /\ get'.short = TRUE /\ get'.result = FALSE
        BY <1>2, <1>5, <1>6, <2>1, <3>1
      <3> QED BY <1>1, <1>3, <1>6, <1>7, <1>8, <3>2 DEF Waiting
    <2>2. CASE get.getdata = FALSE
      <3>1. get.calls = 1
        BY <1>1, <1>8, <2>2 DEF Waiting
      <3>2. get'.calls = 2 /\ get'.again = TRUE /\ get'.short = get.short /\ get'.result = get.result
        BY <1>2, <1>5, <1>6, <2>2, <3>1
      <3>3. get.short = FALSE => forClient # {} /\ (get.result = TRUE <=> get.vset # {})
        BY <1>1, <1>8, <3>1 DEF Waiting
      <3>4. get.result = TRUE => get.vset # {}
        BY <1>1, <3>1 DEF Waiting
      <3>5. req.server # "closed" => forClient = {}
        BY <1>1 DEF Waiting
      <3> QED BY <1>3, <1>6, <1>7, <1>8, <3>2, <3>3, <3>4, <3>5 DEF Waiting
    <2> QED BY <1>9, <2>1, <2>2
  <1>11. Answering'
    <2>1. get'.short = FALSE => get.short = FALSE /\ get.getdata = FALSE
      BY <1>5, <1>6, <1>9
    <2>2. get'.calls > 0 /\ get'.short = FALSE => get.calls > 0
      BY <1>1, <1>8, <2>1 DEF Waiting
    <2> QED BY <1>1, <1>3, <1>6, <2>1, <2>2, AnsweringKept
  <1> QED BY <1>1, <1>3, <1>6, <1>7, <1>10, <1>11 DEF ClientOK

\* timer_get keeps the invariant.
LEMMA TimeoutStep ==
    ASSUME ProxyInv, timer_get
    PROVE  ClientOK'
  <1>1. /\ get \in Gets /\ req \in Reqs /\ rep \in Reps /\ Waiting /\ Answering
    BY DEF ProxyInv, ClientOK
  <1>2. get.getdata = TRUE /\ get.asked = TRUE /\ get.calls = 0 /\ get.again = FALSE
    BY <1>1 DEF timer_get, Waiting, Gets
  <1> DEFINE h == Answered(get)
  <1>3. /\ h \in Gets /\ h.getdata = FALSE /\ h.timer = FALSE /\ h.calls = 1
        /\ h.result = (get.vset # {}) /\ h.asked = TRUE /\ h.vset = get.vset /\ h.again = FALSE
    BY <1>1, <1>2, AnsweredIs
  <1>4. /\ m_query' = m_query /\ rep' = rep /\ forClient' = forClient
        /\ get' = [h EXCEPT !.short = TRUE]
        /\ req' = IF get.desc THEN [req EXCEPT !.client = "none"] ELSE req
    BY DEF timer_get, vars, Answered
  <1> HIDE DEF h
  <1>5. /\ get' \in Gets /\ get'.asked = TRUE /\ get'.getdata = FALSE
        /\ get'.timer = FALSE /\ get'.vset = get.vset /\ get'.calls = 1
        /\ get'.again = FALSE /\ get'.short = TRUE /\ get'.result = h.result
    <2>1. get' \in Gets
      BY <1>3, <1>4 DEF Gets
    <2> QED BY <1>3, <1>4, <2>1 DEF Gets
  <1>6. req' \in Reqs /\ req'.server = req.server
    BY <1>1, <1>4 DEF Reqs
  <1>7. get'.result = TRUE => get'.vset # {}
    BY <1>3, <1>5
  <1>8. Waiting'
    BY <1>1, <1>4, <1>5, <1>6, <1>7 DEF Waiting
  <1>9. Answering'
    BY <1>1, <1>4, <1>5, AnsweringKept
  <1> QED BY <1>1, <1>4, <1>5, <1>6, <1>8, <1>9 DEF ClientOK

\* send_find() leaves the values alone.
LEMMA AskedVset ==
    ASSUME NEW q, q \in Query
    PROVE  Asked(q).vset = q.vset /\ Asked(q).kind = q.kind
  BY DEF Asked, Finish, Query

\* A query begins with no values.
LEMMA FindBegins ==
    ASSUME DhtInv, NEW n \in Nonces, find_nv(n, "value") \/ find_early(n, "value")
    PROVE  m_query'[n].kind = "value" /\ m_query'[n].vset = {}
  <1>1. CASE find_nv(n, "value")
    <2> DEFINE q == [NoQuery EXCEPT !.active = TRUE, !.kind = "value", !.dst = Dst, !.sent = {m_id},
                                    !.nodes = lookup(Dst, table \cup {m_id})]
    <2>1. send_find(n, q, net)
      BY <1>1, SMTT(60) DEF find_nv
    <2>2. q \in Query
      BY FindOK DEF Open, DhtInv
    <2>3. q.kind = "value" /\ q.vset = {}
      BY DEF NoQuery
    <2> HIDE DEF q
    <2>4. m_query'[n] = Asked(q)
      BY <2>1 DEF send_find, DhtInv
    <2> QED BY <2>2, <2>3, <2>4, AskedVset
  <1>2. CASE find_early(n, "value")
    <2> DEFINE q == Finish([NoQuery EXCEPT !.kind = "value"], FALSE)
    <2>1. m_query'[n] = q
      BY <1>2 DEF find_early, DhtInv
    <2>2. q.kind = "value" /\ q.vset = {}
      BY DEF Finish, NoQuery
    <2> QED BY <2>1, <2>2
  <1> QED BY <1>1, <1>2

\* An open query has not called back, one that is over once.
LEMMA OverOrOpen ==
    ASSUME NEW q, NEW c, QueryOK(q, c), q.kind = "value"
    PROVE  /\ q.active \in BOOLEAN
           /\ q.active = TRUE => q.calls = 0
           /\ q.active = FALSE => Done(q) /\ q.calls = 1
  <1>1. q \in Query
    BY QueryTypes
  <1>2. NoQuery.kind = "none"
    BY DEF NoQuery
  <1> QED BY <1>1, <1>2 DEF QueryOK, Open, Done, Query

\* The question that the proxy reads starts its query.
LEMMA ReadKeyStep ==
    ASSUME ProxyInv, NEW n \in Nonces, ReadKey(n)
    PROVE  ProxyInv'
  <1>1. /\ get \in Gets /\ req \in Reqs /\ rep \in Reps /\ Waiting /\ Answering /\ DhtInv
    BY DEF ProxyInv, ClientOK
  <1>2. /\ req.server = "accepted" /\ m_query[n] = NoQuery
        /\ find_nv(n, "value") \/ find_early(n, "value")
        /\ forClient' = {n} /\ get' = get /\ req' = [req EXCEPT !.server = "closed"]
        /\ rep' = IF m_query'[n].active THEN rep ELSE [NoRep EXCEPT !.server = "opening"]
    BY DEF ReadKey
  <1>3. DhtInv'
    <2>1. "value" \in {"node", "value"}
      OBVIOUS
    <2> QED BY <1>1, <1>2, <2>1, FindStep
  <1> DEFINE q == m_query'[n]
  <1>4. q.kind = "value" /\ q.vset = {}
    BY <1>1, <1>2, FindBegins
  <1>5. QueryOK(q, conn'[n])
    BY <1>3 DEF DhtInv, QueryOK, Open, Done, Linked, Seen
  <1> HIDE DEF q
  <1>6. /\ q.active \in BOOLEAN /\ (q.active = FALSE => Done(q))
    BY <1>4, <1>5, OverOrOpen
  <1>7. req' \in Reqs /\ req'.server = "closed" /\ req'.client = req.client /\ req # NoReq
    BY <1>1, <1>2 DEF Reqs, NoReq
  <1>8. forClient = {} /\ rep = NoRep /\ get.vset = {} /\ (get.calls > 0 => get.short = TRUE)
    BY <1>1, <1>2, <1>7 DEF Waiting, Answering, Gets
  <1>9. Waiting'
    BY <1>1, <1>2, <1>7, <1>8 DEF Waiting
  <1>10. CASE q.active = TRUE
    <2>1. rep' = rep
      BY <1>2, <1>10 DEF q
    <2>2. Answering'
      BY <1>2, <1>4, <1>8, <1>10, <2>1 DEF Answering, q
    <2> QED BY <1>1, <1>2, <1>3, <1>7, <1>9, <2>1, <2>2 DEF ProxyInv, ClientOK
  <1>11. CASE q.active = FALSE
    <2>1. rep' = [NoRep EXCEPT !.server = "opening"]
      BY <1>2, <1>11 DEF q
    <2>2. rep' \in Reps
      BY <2>1, NoneOK DEF Reps
    <2>3. /\ rep'.server = "opening" /\ rep'.client = "none" /\ rep'.result = FALSE
          /\ rep'.left = {} /\ rep'.flight = <<>> /\ rep'.op = FALSE
      BY <2>1 DEF NoRep
    <2>4. q.found = FALSE
      BY <1>4, <1>6, <1>11, FoundValues
    <2>5. Told(m_query[n])'
      BY <1>2, <1>4, <1>8, <2>3, <2>4 DEF Told, q
    <2>6. Answering'
      BY <1>2, <1>4, <1>11, <2>5 DEF Answering, q
    <2> QED BY <1>1, <1>2, <1>3, <1>7, <1>9, <2>2, <2>6 DEF ProxyInv, ClientOK
  <1> QED BY <1>6, <1>10, <1>11

\* A step of the lookups, with which the proxy may begin to answer.
LEMMA LookupStep ==
    ASSUME ProxyInv, Next, Reply
    PROVE  ProxyInv'
  <1>1. /\ get \in Gets /\ req \in Reqs /\ rep \in Reps /\ Waiting /\ Answering /\ DhtInv
    BY DEF ProxyInv, ClientOK
  <1>2. /\ get' = get /\ req' = req /\ forClient' = forClient
        /\ rep' = IF \E n \in Nonces : Called(n)
                  THEN LET q == m_query'[CHOOSE n \in Nonces : Called(n)]
                       IN  [NoRep EXCEPT !.server = "opening", !.result = q.found, !.left = q.vset]
                  ELSE rep
    BY DEF Reply
  <1>3. DhtInv' /\ Steady
    BY <1>1, DhtStep
  <1>4. Waiting'
    BY <1>1, <1>2 DEF Waiting
  <1>5. CASE forClient = {}
    <2>1. \A n \in Nonces : ~ Called(n)
      BY <1>5 DEF Called
    <2>2. rep' = rep
      BY <1>2, <2>1
    <2>3. Answering'
      BY <1>1, <1>2, <1>5, <2>2 DEF Answering
    <2> QED BY <1>1, <1>2, <1>3, <1>4, <2>2, <2>3 DEF ProxyInv, ClientOK
  <1>6. CASE forClient # {}
    <2>1. PICK n \in Nonces :
            /\ forClient = {n} /\ m_query[n].kind = "value"
            /\ m_query[n].active = TRUE =>
                 rep = NoRep /\ get.vset = {} /\ (get.calls > 0 => get.short = TRUE)
            /\ m_query[n].active = FALSE => Told(m_query[n])
      BY <1>1, <1>6 DEF Answering
    <2> DEFINE o == m_query[n]
               q == m_query'[n]
    <2>2. QueryOK(o, conn[n]) /\ QueryOK(q, conn'[n])
      <3>1. QueryOK(o, conn[n])
        BY <1>1 DEF DhtInv
      <3>2. QueryOK(q, conn'[n])
        BY <1>3 DEF DhtInv, QueryOK, Open, Done, Linked, Seen
      <3> QED BY <3>1, <3>2
    <2>3. q.kind = "value" /\ (o.active = FALSE => q = o)
      <3>1. o.kind # "none"
        BY <2>1
      <3> QED BY <1>3, <2>1, <3>1 DEF Steady
    <2>4. \A k \in Nonces : Called(k) <=> k = n /\ q.calls > o.calls
      BY <2>1 DEF Called
    <2> HIDE DEF o, q
    <2>5. /\ o.active \in BOOLEAN /\ (o.active = TRUE => o.calls = 0)
          /\ (o.active = FALSE => o.calls = 1)
      BY <2>1, <2>2, OverOrOpen DEF o
    <2>6. /\ q.active \in BOOLEAN /\ (q.active = TRUE => q.calls = 0)
          /\ (q.active = FALSE => Done(q) /\ q.calls = 1)
      BY <2>2, <2>3, OverOrOpen
    <2>7. CASE o.active = FALSE
      <3>1. \A k \in Nonces : ~ Called(k)
        BY <2>3, <2>4, <2>5, <2>7
      <3>2. rep' = rep /\ q = o
        BY <1>2, <2>3, <2>7, <3>1
      <3>3. Told(o)
        BY <2>1, <2>7 DEF o
      <3>4. Told(m_query[n])'
        BY <1>2, <3>2, <3>3 DEF Told, q, o
      <3>5. Answering'
        BY <1>2, <2>1, <2>3, <2>7, <3>2, <3>4 DEF Answering, q
      <3> QED BY <1>1, <1>2, <1>3, <1>4, <3>2, <3>5 DEF ProxyInv, ClientOK
    <2>8. CASE o.active = TRUE /\ q.active = TRUE
      <3>1. \A k \in Nonces : ~ Called(k)
        BY <2>4, <2>5, <2>6, <2>8
      <3>2. rep' = rep
        BY <1>2, <3>1
      <3>3. rep = NoRep /\ get.vset = {} /\ (get.calls > 0 => get.short = TRUE)
        BY <2>1, <2>8 DEF o
      <3>4. Answering'
        BY <1>2, <2>1, <2>3, <2>8, <3>2, <3>3 DEF Answering, q
      <3> QED BY <1>1, <1>2, <1>3, <1>4, <3>2, <3>4 DEF ProxyInv, ClientOK
    <2>9. CASE o.active = TRUE /\ q.active = FALSE
      <3>1. \A k \in Nonces : Called(k) <=> k = n
        <4>1. o.calls = 0 /\ q.calls = 1
          BY <2>5, <2>6, <2>9
        <4> QED BY <2>4, <4>1
      <3>2. (CHOOSE k \in Nonces : Called(k)) = n
        BY <3>1
      <3>3. rep' = [NoRep EXCEPT !.server = "opening", !.result = q.found, !.left = q.vset]
        BY <1>2, <3>1, <3>2 DEF q
      <3>4. q \in Query /\ q.found \in BOOLEAN /\ q.vset \in SUBSET Values
        <4>1. q \in Query
          BY <2>6, <2>9 DEF Done
        <4> QED BY <4>1 DEF Query
      <3>5. rep' \in Reps
        BY <3>3, <3>4, NoneOK DEF Reps
      <3>6. /\ rep'.server = "opening" /\ rep'.client = "none" /\ rep'.result = q.found
            /\ rep'.left = q.vset /\ rep'.flight = <<>> /\ rep'.op = FALSE
        BY <3>3 DEF NoRep
      <3>7. rep = NoRep /\ get.vset = {} /\ (get.calls > 0 => get.short = TRUE)
        BY <2>1, <2>9 DEF o
      <3>8. Told(m_query[n])'
        BY <1>2, <3>6, <3>7 DEF Told, q
      <3>9. Answering'
        BY <1>2, <2>1, <2>3, <2>9, <3>8 DEF Answering, q
      <3> QED BY <1>1, <1>2, <1>3, <1>4, <3>5, <3>9 DEF ProxyInv, ClientOK
    <2> QED BY <2>5, <2>6, <2>7, <2>8, <2>9
  <1> QED BY <1>5, <1>6

\* A step that only moves the reply.
LEMMA RepMoves ==
    ASSUME ProxyInv, UNCHANGED <<vars, get, req, forClient>>, rep' \in Reps,
           NEW n \in Nonces, forClient = {n}, m_query[n].kind = "value",
           m_query[n].active = FALSE, Told(m_query[n])'
    PROVE  ClientOK'
  <1>1. /\ get \in Gets /\ req \in Reqs /\ Waiting
    BY DEF ProxyInv, ClientOK
  <1>2. get' = get /\ req' = req /\ forClient' = forClient /\ m_query' = m_query
    BY DEF vars
  <1>3. Waiting'
    BY <1>1, <1>2 DEF Waiting
  <1>4. Answering'
    BY <1>2 DEF Answering
  <1> QED BY <1>1, <1>2, <1>3, <1>4 DEF ClientOK

\* The header that the proxy sends keeps the invariant.
LEMMA RepConnectedStep ==
    ASSUME ProxyInv, RepConnected
    PROVE  ClientOK'
  <1>1. rep \in Reps /\ rep.server = "opening" /\ UNCHANGED <<vars, get, req, forClient>>
        /\ rep' = [rep EXCEPT !.server = "open", !.flight = <<"hdr">>]
    BY DEF ProxyInv, ClientOK, RepConnected
  <1>2. PICK n \in Nonces : /\ forClient = {n} /\ m_query[n].kind = "value"
                            /\ m_query[n].active = FALSE /\ Told(m_query[n])
    BY <1>1, Replying
  <1> DEFINE f == <<"hdr">>
  <1>3. f \in Seq(Values \cup {"hdr"}) /\ f # <<>> /\ rep' = [rep EXCEPT !.server = "open", !.flight = f]
    BY <1>1
  <1> HIDE DEF f
  <1>4. rep' \in Reps
    BY <1>1, <1>3 DEF Reps
  <1>5. /\ rep'.server = "open" /\ rep'.flight = f /\ rep'.client = rep.client
        /\ rep'.result = rep.result /\ rep'.left = rep.left /\ rep'.op = rep.op
    BY <1>1, <1>3 DEF Reps
  <1>6. get' = get /\ m_query' = m_query
    BY <1>1 DEF vars
  <1>7. rep.client = "none"
    BY <1>1, <1>2 DEF Told
  <1>8. Told(m_query[n])'
    BY <1>2, <1>5, <1>6, <1>7 DEF Told, f
  <1> QED BY <1>1, <1>2, <1>4, <1>8, RepMoves

\* The connection that the client accepts keeps the invariant.
LEMMA RepAcceptedStep ==
    ASSUME ProxyInv, RepAccepted
    PROVE  ClientOK'
  <1>1. /\ rep \in Reps /\ rep.server \in {"open", "closed"} /\ rep.client = "none"
        /\ rep.flight # <<>> /\ UNCHANGED <<vars, get, req, forClient>>
        /\ rep' = [rep EXCEPT !.client = "RGR_HDR"]
    BY DEF ProxyInv, ClientOK, RepAccepted
  <1>2. PICK n \in Nonces : /\ forClient = {n} /\ m_query[n].kind = "value"
                            /\ m_query[n].active = FALSE /\ Told(m_query[n])
    BY <1>1, Replying
  <1>4. rep' \in Reps
    BY <1>1 DEF Reps
  <1>5. /\ rep'.server = rep.server /\ rep'.flight = rep.flight /\ rep'.client = "RGR_HDR"
        /\ rep'.result = rep.result /\ rep'.left = rep.left /\ rep'.op = rep.op
    BY <1>1 DEF Reps
  <1>6. get' = get /\ m_query' = m_query
    BY <1>1 DEF vars
  <1>8. Told(m_query[n])'
    BY <1>1, <1>2, <1>5, <1>6 DEF Told
  <1> QED BY <1>1, <1>2, <1>4, <1>8, RepMoves

\* The client has a connection only if the proxy answers.
LEMMA NotNone ==
    ASSUME ProxyInv, rep.client # "none"
    PROVE  rep.server # "none"
  <1>1. NoRep.client = "none" /\ Answering /\ DhtInv
    BY DEF NoRep, ProxyInv, ClientOK
  <1>2. \A n \in Nonces : m_query[n].active \in BOOLEAN
    BY <1>1 DEF DhtInv, Query
  <1> QED BY <1>1, <1>2 DEF Answering, Told

\* sweep_rdp() of the client keeps the invariant.
LEMMA SweepReplyStep ==
    ASSUME ProxyInv, sweep_reply
    PROVE  ClientOK'
  <1>1. /\ rep \in Reps /\ rep.client \in {"RGR_HDR", "RGR_VAL_HDR"}
        /\ UNCHANGED <<vars, get, req, forClient>>
        /\ rep' = [rep EXCEPT !.client = "closed", !.flight = <<>>]
    BY DEF ProxyInv, ClientOK, sweep_reply
  <1>3. rep.server # "none"
    BY <1>1, NotNone
  <1>4. PICK n \in Nonces : /\ forClient = {n} /\ m_query[n].kind = "value"
                            /\ m_query[n].active = FALSE /\ Told(m_query[n])
    BY <1>3, Replying
  <1>5. rep' \in Reps
    <2>1. <<>> \in Seq(Values \cup {"hdr"})
      OBVIOUS
    <2> QED BY <1>1, <2>1 DEF Reps
  <1>6. /\ rep'.server = rep.server /\ rep'.client = "closed"
        /\ rep'.result = rep.result /\ rep'.left = rep.left
    BY <1>1 DEF Reps
  <1>7. get' = get /\ m_query' = m_query
    BY <1>1 DEF vars
  <1>8. Told(m_query[n])'
    BY <1>1, <1>4, <1>6, <1>7 DEF Told
  <1> QED BY <1>1, <1>4, <1>5, <1>8, RepMoves

\* read_op(): a value goes from what is left to what is under way.
LEMMA ReadOpStep ==
    ASSUME ProxyInv, read_op
    PROVE  ClientOK'
  <1>1. /\ rep \in Reps /\ rep.server = "open" /\ rep.op /\ UNCHANGED <<vars, get, req, forClient>>
        /\ get \in Gets
    BY DEF ProxyInv, ClientOK, read_op
  <1>2. PICK v \in rep.left : rep' = Sent(rep, v)
    BY DEF read_op
  <1>3. PICK n \in Nonces : /\ forClient = {n} /\ m_query[n].kind = "value"
                            /\ m_query[n].active = FALSE /\ Told(m_query[n])
    BY <1>1, Replying
  <1> DEFINE flight == Append(rep.flight, v)
             left == rep.left \ {v}
             server == IF rep.left = {v} THEN "closed" ELSE rep.server
             q == m_query[n]
  <1>4. rep' = [rep EXCEPT !.op = FALSE, !.flight = flight, !.left = left, !.server = server]
    BY <1>2 DEF Sent
  <1>5. rep.flight \in Seq(Values \cup {"hdr"}) /\ rep.left \in SUBSET Values /\ v \in Values
    BY <1>1 DEF Reps
  <1>6. /\ flight \in Seq(Values \cup {"hdr"}) /\ left \in SUBSET Values
        /\ server \in {"none", "opening", "open", "closed"} /\ server \in {"open", "closed"}
        /\ server = "closed" => left = {}
    BY <1>1, <1>5
  <1>7. get' = get /\ m_query' = m_query
    BY <1>1 DEF vars
  <1>8. rep.client \notin {"none", "RGR_HDR"}
    BY <1>1, <1>3 DEF Told
  <1>9. ASSUME rep.client = "RGR_VAL_HDR"
        PROVE  /\ flight \in Seq(q.vset)
               /\ ToSet(flight) \cup left = ToSet(rep.flight) \cup rep.left
    <2>1. rep.flight \in Seq(q.vset) /\ v \in q.vset
      BY <1>3, <1>9 DEF Told
    <2>2. flight \in Seq(q.vset)
      <3> HIDE DEF q
      <3> QED BY <2>1, AppendProperties
    <2>3. ToSet(flight) = ToSet(rep.flight) \cup {v}
      <3>1. /\ Len(rep.flight) \in Nat /\ DOMAIN rep.flight = 1..Len(rep.flight)
            /\ DOMAIN flight = 1..(Len(rep.flight) + 1)
            /\ flight[Len(rep.flight) + 1] = v
            /\ \A k \in 1..Len(rep.flight) : flight[k] = rep.flight[k]
        BY <2>1
      <3> HIDE DEF flight
      <3>2. \A k \in DOMAIN flight : flight[k] \in ToSet(rep.flight) \cup {v}
        BY <3>1 DEF ToSet
      <3>3. \A k \in DOMAIN rep.flight : rep.flight[k] \in ToSet(flight)
        BY <3>1 DEF ToSet
      <3>4. v \in ToSet(flight)
        BY <3>1 DEF ToSet
      <3> QED BY <3>2, <3>3, <3>4 DEF ToSet
    <2> QED BY <2>2, <2>3
  <1> HIDE DEF flight, left, server
  <1>10. rep' \in Reps
    BY <1>1, <1>4, <1>6 DEF Reps
  <1>11. /\ rep'.server = server /\ rep'.flight = flight /\ rep'.client = rep.client
         /\ rep'.result = rep.result /\ rep'.left = left /\ rep'.op = FALSE
    BY <1>1, <1>4 DEF Reps
  <1>12. left \subseteq q.vset
    BY <1>3 DEF Told, left
  <1>13. rep.client = "RGR_VAL_HDR" /\ get.getdata = TRUE /\ Cut \notin get.vset =>
            get.vset \cup ToSet(flight) \cup left = q.vset
    <2>1. rep.client = "RGR_VAL_HDR" /\ get.getdata = TRUE /\ Cut \notin get.vset =>
            get.vset \cup ToSet(rep.flight) \cup rep.left = q.vset
      BY <1>3 DEF Told
    <2> QED BY <1>9, <2>1
  <1>14. Told(m_query[n])'
    BY <1>3, <1>6, <1>7, <1>8, <1>9, <1>11, <1>12, <1>13 DEF Told
  <1> QED BY <1>1, <1>3, <1>10, <1>14, RepMoves

\* A step of the reply that changes the get.
LEMMA BothMove ==
    ASSUME ProxyInv, UNCHANGED <<vars, req, forClient>>, get' \in Gets, rep' \in Reps,
           NEW n \in Nonces, forClient = {n}, m_query[n].kind = "value",
           m_query[n].active = FALSE, Told(m_query[n])', Waiting'
    PROVE  ClientOK'
  <1>1. req \in Reqs
    BY DEF ProxyInv, ClientOK
  <1>2. req' = req /\ forClient' = forClient /\ m_query' = m_query
    BY DEF vars
  <1>3. Answering'
    BY <1>2 DEF Answering
  <1> QED BY <1>1, <1>2, <1>3 DEF ClientOK

\* func is called with what was read.
LEMMA AnsweredWaits ==
    ASSUME ProxyInv, forClient # {}, get.getdata = TRUE,
           forClient' = forClient, req' = req, get' \in Gets,
           get'.getdata = FALSE, get'.timer = FALSE, get'.calls = 1, get'.vset = get.vset,
           get'.result = (get.vset # {}), get'.asked = get.asked, get'.again = get.again
    PROVE  Waiting'
  <1>1. Waiting
    BY DEF ProxyInv, ClientOK
  <1>2. get.asked = TRUE /\ get.again = FALSE
    BY <1>1 DEF Waiting
  <1>3. get'.result = TRUE <=> get'.vset # {}
    OBVIOUS
  <1>4. req.server # "closed" => forClient = {}
    BY <1>1 DEF Waiting
  <1> QED BY <1>2, <1>3, <1>4 DEF Waiting

\* Nothing of the get changes but that some of the reply was not waited for.
LEMMA ShortWaits ==
    ASSUME ProxyInv, forClient # {}, forClient' = forClient, req' = req, get' \in Gets,
           get'.getdata = get.getdata, get'.timer = get.timer, get'.calls = get.calls,
           get'.vset = get.vset, get'.result = get.result, get'.asked = get.asked,
           get'.again = get.again, get'.short = FALSE => get.short = FALSE
    PROVE  Waiting'
  <1>1. Waiting
    BY DEF ProxyInv, ClientOK
  <1>2. get.asked = TRUE
    <2>1. NoReq.server = "none" /\ get \in Gets
      BY DEF NoReq, ProxyInv, ClientOK
    <2> QED BY <1>1, <2>1 DEF Waiting, Gets
  <1> QED BY <1>1, <1>2 DEF Waiting

\* The two ends of a sequence.
LEMMA HeadAndTail ==
    ASSUME NEW S, NEW s \in Seq(S), s # <<>>
    PROVE  /\ Head(s) \in S /\ Tail(s) \in Seq(S)
           /\ ToSet(s) = {Head(s)} \cup ToSet(Tail(s))
  <1> DEFINE t == Tail(s)
  <1>1. /\ Len(s) \in Nat /\ Len(s) > 0 /\ DOMAIN s = 1..Len(s) /\ Head(s) = s[1]
        /\ Head(s) \in S /\ t \in Seq(S) /\ Len(t) = Len(s) - 1 /\ DOMAIN t = 1..(Len(s) - 1)
        /\ \A k \in 1..(Len(s) - 1) : t[k] = s[k + 1]
    OBVIOUS
  <1> HIDE DEF t
  <1>2. \A k \in DOMAIN t : k + 1 \in DOMAIN s /\ t[k] = s[k + 1]
    BY <1>1
  <1>3. \A k \in DOMAIN s : k = 1 \/ (k - 1 \in DOMAIN t /\ s[k] = t[k - 1])
    <2> SUFFICES ASSUME NEW k \in DOMAIN s, k # 1
                 PROVE  k - 1 \in DOMAIN t /\ s[k] = t[k - 1]
      OBVIOUS
    <2>1. k - 1 \in 1..(Len(s) - 1) /\ (k - 1) + 1 = k
      BY <1>1
    <2> QED BY <1>1, <2>1
  <1>4. ToSet(s) \subseteq {Head(s)} \cup ToSet(t)
    BY <1>1, <1>3 DEF ToSet
  <1>5. ToSet(t) \subseteq ToSet(s)
    BY <1>2 DEF ToSet
  <1>6. Head(s) \in ToSet(s)
    BY <1>1 DEF ToSet
  <1> QED BY <1>1, <1>4, <1>5, <1>6 DEF t

\* read_hdr(): the client asks for the first value, is told that there is none, or is late.
LEMMA ReadHdrStep ==
    ASSUME ProxyInv, ReadHdr
    PROVE  ClientOK'
  <1>1. /\ rep \in Reps /\ get \in Gets /\ Waiting /\ rep.client = "RGR_HDR"
        /\ UNCHANGED <<vars, req, forClient>>
        /\ get' = IF get.getdata /\ ~ rep.result THEN Answered(get) ELSE get
        /\ rep.flight # <<>>
    BY DEF ProxyInv, ClientOK, ReadHdr
  <1>2. rep.server # "none"
    BY <1>1, NotNone
  <1>3. PICK n \in Nonces : /\ forClient = {n} /\ m_query[n].kind = "value"
                            /\ m_query[n].active = FALSE /\ Done(m_query[n]) /\ Told(m_query[n])
    BY <1>2, Replying
  <1> DEFINE go == get.getdata /\ rep.result
             client == IF go THEN "RGR_VAL_HDR" ELSE "closed"
             flight == Tail(rep.flight)
             q == m_query[n]
  <1>4. rep' = [rep EXCEPT !.flight = flight, !.op = go, !.client = client]
    BY DEF ReadHdr
  <1>5. rep.flight \in Seq(Values \cup {"hdr"}) /\ rep.flight = <<"hdr">>
    BY <1>1, <1>3 DEF Told, Reps
  <1>6. flight = <<>>
    BY <1>5
  <1>7. flight \in Seq(Values \cup {"hdr"}) /\ go \in BOOLEAN /\ client \in {"RGR_VAL_HDR", "closed"}
    <2>1. flight \in Seq(Values \cup {"hdr"})
      <3> HIDE DEF flight
      <3> QED BY <1>6
    <2>2. go \in BOOLEAN
      OBVIOUS
    <2>3. client \in {"RGR_VAL_HDR", "closed"}
      OBVIOUS
    <2> QED BY <2>1, <2>2, <2>3
  <1>8. /\ get.getdata = TRUE /\ rep.result = TRUE => client = "RGR_VAL_HDR"
        /\ client = "RGR_VAL_HDR" => get.getdata = TRUE /\ rep.result = TRUE
    BY <1>1 DEF Gets, Reps
  <1>9. /\ get.getdata \in BOOLEAN /\ rep.result \in BOOLEAN
    BY <1>1 DEF Gets, Reps
  <1> HIDE DEF flight, go, client
  <1>10. rep' \in Reps
    BY <1>1, <1>4, <1>7 DEF Reps
  <1>11. /\ rep'.server = rep.server /\ rep'.flight = <<>> /\ rep'.client = client
         /\ rep'.result = rep.result /\ rep'.left = rep.left
    BY <1>1, <1>4, <1>6 DEF Reps
  <1>12. req' = req /\ forClient' = forClient /\ m_query' = m_query
    BY <1>1 DEF vars
  <1>13. /\ get.vset = {} /\ rep.left = q.vset /\ rep.server # "opening" /\ rep.server # "none"
         /\ rep.result = q.found /\ <<>> \in Seq(q.vset) /\ ToSet(<<>>) = {}
    BY <1>1, <1>3, EmptyNearest DEF Told
  <1>14. CASE get.getdata = TRUE /\ rep.result = FALSE
    <2>1. get' = Answered(get) /\ get.calls = 0 /\ client = "closed"
      BY <1>1, <1>7, <1>8, <1>14 DEF Waiting
    <2>2. /\ get' \in Gets /\ get'.getdata = FALSE /\ get'.timer = FALSE /\ get'.calls = 1
          /\ get'.result = (get.vset # {}) /\ get'.asked = get.asked
          /\ get'.vset = get.vset /\ get'.again = get.again
      BY <1>1, <2>1, AnsweredIs
    <2>3. Waiting'
      BY <1>3, <1>12, <1>14, <2>2, AnsweredWaits
    <2>4. q.vset = {}
      BY <1>3, <1>13, <1>14, FoundValues
    <2>5. Told(m_query[n])'
      BY <1>11, <1>12, <1>13, <2>1, <2>2, <2>4 DEF Told
    <2> QED BY <1>1, <1>3, <1>10, <2>2, <2>3, <2>5, BothMove
  <1>15. CASE ~ (get.getdata = TRUE /\ rep.result = FALSE)
    <2>1. get' = get
      BY <1>1, <1>9, <1>15
    <2>2. Told(m_query[n])'
      BY <1>3, <1>7, <1>8, <1>11, <1>12, <1>13, <2>1 DEF Told
    <2> QED BY <1>1, <1>3, <1>10, <2>1, <2>2, RepMoves
  <1> QED BY <1>14, <1>15

\* read_val(): a value, or a part of it, goes from what is under way to the get.
LEMMA ReadReplyStep ==
    ASSUME ProxyInv, ReadReply
    PROVE  ClientOK'
  <1>1. /\ rep \in Reps /\ get \in Gets /\ Waiting /\ rep.client = "RGR_VAL_HDR"
        /\ UNCHANGED <<vars, req, forClient>> /\ rep.flight # <<>>
    BY DEF ProxyInv, ClientOK, ReadReply
  <1>2. rep.server # "none"
    BY <1>1, NotNone
  <1>3. PICK n \in Nonces : /\ forClient = {n} /\ m_query[n].kind = "value"
                            /\ m_query[n].active = FALSE /\ Done(m_query[n]) /\ Told(m_query[n])
    BY <1>2, Replying
  <1>4. req' = req /\ forClient' = forClient /\ m_query' = m_query
    BY <1>1 DEF vars
  <1>5. CASE rep' = [rep EXCEPT !.client = "closed"] /\ get' = get
    <2>1. rep' \in Reps
      BY <1>1, <1>5 DEF Reps
    <2>2. /\ rep'.server = rep.server /\ rep'.client = "closed"
          /\ rep'.result = rep.result /\ rep'.left = rep.left
      BY <1>1, <1>5 DEF Reps
    <2>3. Told(m_query[n])'
      BY <1>1, <1>3, <1>4, <1>5, <2>2 DEF Told
    <2> QED BY <1>1, <1>3, <1>5, <2>1, <2>3, RepMoves
  <1> DEFINE v == Head(rep.flight)
             flight == Tail(rep.flight)
             q == m_query[n]
  <1>6. CASE /\ get.getdata
             /\ \E w \in {v} \cup (IF v \in Long \/ Cut \in get.vset THEN {Cut} ELSE {}) :
                   get' = [get EXCEPT !.vset = @ \cup {w}]
             /\ rep' = [rep EXCEPT !.flight = flight, !.op = TRUE]
    <2>1. PICK w \in {v, Cut} : get' = [get EXCEPT !.vset = get.vset \cup {w}]
      BY <1>6
    <2>2. rep.flight \in Seq(q.vset) /\ q.vset \in SUBSET Values
      BY <1>1, <1>3 DEF Told, Done, Query
    <2>3. /\ v \in q.vset /\ flight \in Seq(q.vset) /\ ToSet(rep.flight) = {v} \cup ToSet(flight)
      <3> HIDE DEF q
      <3> QED BY <1>1, <2>2, HeadAndTail
    <2>4. v \in Values /\ flight \in Seq(Values \cup {"hdr"})
      <3>1. rep.flight \in Seq(Values \cup {"hdr"})
        BY <1>1 DEF Reps
      <3>2. flight \in Seq(Values \cup {"hdr"})
        BY <1>1, <3>1, HeadAndTail
      <3> QED BY <2>2, <2>3, <3>2
    <2>5. get.getdata = TRUE /\ get.asked = TRUE /\ get.calls = 0 /\ get.again = FALSE
      BY <1>1, <1>6 DEF Waiting, Gets
    <2> HIDE DEF v, flight
    <2>6. get.vset \cup {w} \in SUBSET (Values \cup {Cut})
      BY <1>1, <2>4 DEF Gets
    <2>7. get' \in Gets
      BY <1>1, <2>1, <2>6 DEF Gets
    <2>8. /\ get'.vset = get.vset \cup {w} /\ get'.asked = get.asked /\ get'.getdata = get.getdata
          /\ get'.timer = get.timer /\ get'.calls = get.calls /\ get'.again = get.again
          /\ get'.short = get.short
      BY <1>1, <2>1 DEF Gets
    <2>9. rep' \in Reps
      BY <1>1, <1>6, <2>4 DEF Reps
    <2>10. /\ rep'.server = rep.server /\ rep'.client = rep.client /\ rep'.flight = flight
           /\ rep'.result = rep.result /\ rep'.left = rep.left
      BY <1>1, <1>6 DEF Reps
    <2>11. Waiting'
      BY <1>1, <1>4, <2>5, <2>8 DEF Waiting
    <2>12. ASSUME Cut \notin get'.vset
           PROVE  get'.vset \subseteq q.vset /\ get'.vset \cup ToSet(flight) \cup rep.left = q.vset
      <3>1. w = v /\ Cut \notin get.vset
        BY <2>8, <2>12
      <3>2. get.vset \cup ToSet(rep.flight) \cup rep.left = q.vset
        BY <1>1, <1>3, <2>5, <3>1 DEF Told
      <3> QED BY <2>3, <2>8, <3>1, <3>2
    <2>13. Told(m_query[n])'
      BY <1>1, <1>3, <1>4, <2>3, <2>5, <2>8, <2>10, <2>12 DEF Told
    <2> QED BY <1>1, <1>3, <2>7, <2>9, <2>11, <2>13, BothMove
  <1> QED BY <1>5, <1>6 DEF ReadReply

\* The end of the reply calls func with what was read.
LEMMA RepEndsStep ==
    ASSUME ProxyInv, RepEnds
    PROVE  ClientOK'
  <1>1. /\ rep \in Reps /\ get \in Gets /\ Waiting /\ rep.client \in {"RGR_HDR", "RGR_VAL_HDR"}
        /\ UNCHANGED <<vars, req, forClient>>
        /\ rep' = [rep EXCEPT !.client = "closed", !.flight = <<>>]
    BY DEF ProxyInv, ClientOK, RepEnds
  <1>2. rep.server # "none"
    BY <1>1, NotNone
  <1>3. PICK n \in Nonces : /\ forClient = {n} /\ m_query[n].kind = "value"
                            /\ m_query[n].active = FALSE /\ Done(m_query[n]) /\ Told(m_query[n])
    BY <1>2, Replying
  <1>4. req' = req /\ forClient' = forClient /\ m_query' = m_query /\ forClient # {}
    BY <1>1, <1>3 DEF vars
  <1>5. rep' \in Reps
    <2>1. <<>> \in Seq(Values \cup {"hdr"})
      OBVIOUS
    <2> QED BY <1>1, <2>1 DEF Reps
  <1>6. /\ rep'.server = rep.server /\ rep'.client = "closed"
        /\ rep'.result = rep.result /\ rep'.left = rep.left
    BY <1>1 DEF Reps
  <1>7. PICK mine \in BOOLEAN :
           get' = [Ended(get, mine) EXCEPT
                     !.short = @ \/ rep.server # "closed" \/ rep.flight # <<>>]
    BY DEF RepEnds
  <1> DEFINE q == m_query[n]
             h == Ended(get, mine)
             s == h.short \/ rep.server # "closed" \/ rep.flight # <<>>
  <1>8. get' = [h EXCEPT !.short = s] /\ s \in BOOLEAN
    <2> HIDE DEF h
    <2> QED BY <1>7 DEF h
  <1>9. CASE get.getdata = TRUE /\ mine = TRUE
    <2>1. h = Answered(get) /\ get.calls = 0
      BY <1>1, <1>9 DEF Ended, Waiting
    <2>2. /\ h \in Gets /\ h.getdata = FALSE /\ h.timer = FALSE /\ h.calls = 1
          /\ h.result = (get.vset # {}) /\ h.asked = get.asked
          /\ h.vset = get.vset /\ h.again = get.again /\ h.short = get.short
      BY <1>1, <2>1, AnsweredIs
    <2>3. s = FALSE => get.short = FALSE /\ rep.server = "closed" /\ rep.flight = <<>>
      <3>1. h.short \in BOOLEAN
        BY <2>2 DEF Gets
      <3> HIDE DEF h
      <3> QED BY <2>2, <3>1
    <2> HIDE DEF h, s
    <2>4. /\ get' \in Gets /\ get'.getdata = FALSE /\ get'.timer = FALSE /\ get'.calls = 1
          /\ get'.result = h.result /\ get'.asked = get.asked
          /\ get'.vset = get.vset /\ get'.again = get.again /\ get'.short = s
      <3>1. get' \in Gets
        BY <1>8, <2>2 DEF Gets
      <3>2. get'.result = h.result /\ get'.short = s
        BY <1>8, <2>2 DEF Gets
      <3> QED BY <1>8, <2>2, <3>1, <3>2 DEF Gets
    <2>5. Waiting'
      <3>1. get'.result = (get.vset # {})
        BY <2>2, <2>4, Zenon
      <3> QED BY <1>4, <1>9, <2>4, <3>1, AnsweredWaits
    <2>6. ASSUME s = FALSE, Cut \notin get.vset
          PROVE  get.vset = q.vset
      <3>1. get.short = FALSE /\ rep.server = "closed" /\ rep.flight = <<>>
        BY <2>3, <2>6
      <3>2. rep.client = "RGR_VAL_HDR"
        BY <1>1, <1>3, <3>1 DEF Told
      <3>3. get.vset \cup ToSet(<<>>) \cup rep.left = q.vset /\ rep.left = {}
        BY <1>3, <1>9, <2>6, <3>1, <3>2 DEF Told
      <3> QED BY <3>3, EmptyNearest
    <2>7. Told(m_query[n])'
      BY <1>3, <1>1, <1>4, <1>6, <2>4, <2>6 DEF Told
    <2> QED BY <1>1, <1>3, <1>5, <2>4, <2>5, <2>7, BothMove
  <1>10. CASE ~ (get.getdata = TRUE /\ mine = TRUE)
    <2>1. h = get
      BY <1>1, <1>10 DEF Ended, Gets
    <2>2. s = FALSE => get.short = FALSE
      <3>1. get.short \in BOOLEAN
        BY <1>1 DEF Gets
      <3> HIDE DEF h
      <3> QED BY <2>1, <3>1
    <2> HIDE DEF h, s
    <2>3. /\ get' \in Gets /\ get'.getdata = get.getdata /\ get'.timer = get.timer
          /\ get'.calls = get.calls /\ get'.result = get.result /\ get'.asked = get.asked
          /\ get'.vset = get.vset /\ get'.again = get.again /\ get'.short = s
      <3>1. get' \in Gets
        BY <1>1, <1>8, <2>1 DEF Gets
      <3> QED BY <1>1, <1>8, <2>1, <3>1 DEF Gets
    <2>4. Waiting'
      BY <1>4, <2>2, <2>3, ShortWaits
    <2>5. Told(m_query[n])'
      BY <1>3, <1>1, <1>4, <1>6, <2>2, <2>3 DEF Told
    <2> QED BY <1>1, <1>3, <1>5, <2>3, <2>4, <2>5, BothMove
  <1> QED BY <1>9, <1>10

\* The end of the connection at the proxy keeps the invariant.
LEMMA RepServerEndsStep ==
    ASSUME ProxyInv, RepServerEnds
    PROVE  ClientOK'
  <1>1. /\ rep \in Reps /\ get \in Gets /\ rep.server \in {"opening", "open"}
        /\ UNCHANGED <<vars, req, forClient>>
        /\ rep' = [rep EXCEPT !.server = "closed"]
        /\ get' = [get EXCEPT !.short = @ \/ get.getdata]
    BY DEF ProxyInv, ClientOK, RepServerEnds
  <1>2. PICK n \in Nonces : /\ forClient = {n} /\ m_query[n].kind = "value"
                            /\ m_query[n].active = FALSE /\ Done(m_query[n]) /\ Told(m_query[n])
    BY <1>1, Replying
  <1>3. req' = req /\ forClient' = forClient /\ m_query' = m_query /\ forClient # {}
    BY <1>1, <1>2 DEF vars
  <1>4. rep' \in Reps
    BY <1>1 DEF Reps
  <1>5. /\ rep'.server = "closed" /\ rep'.client = rep.client /\ rep'.result = rep.result
        /\ rep'.left = rep.left /\ rep'.flight = rep.flight /\ rep'.op = rep.op
    BY <1>1 DEF Reps
  <1> DEFINE s == get.short \/ get.getdata
  <1>6. get' = [get EXCEPT !.short = s] /\ s \in BOOLEAN
    BY <1>1
  <1>7. s = FALSE => get.short = FALSE /\ get.getdata = FALSE
    BY <1>1 DEF Gets
  <1> HIDE DEF s
  <1>8. /\ get' \in Gets /\ get'.getdata = get.getdata /\ get'.timer = get.timer
        /\ get'.calls = get.calls /\ get'.result = get.result /\ get'.asked = get.asked
        /\ get'.vset = get.vset /\ get'.again = get.again /\ get'.short = s
    <2>1. get' \in Gets
      BY <1>1, <1>6 DEF Gets
    <2> QED BY <1>1, <1>6, <2>1 DEF Gets
  <1>9. Waiting'
    BY <1>3, <1>7, <1>8, ShortWaits
  <1>10. Told(m_query[n])'
    BY <1>2, <1>3, <1>5, <1>7, <1>8 DEF Told
  <1> QED BY <1>1, <1>2, <1>4, <1>8, <1>9, <1>10, BothMove

\* The connection of the question.
LEMMA QuestionStep ==
    ASSUME ProxyInv, GetConnected \/ ReqAccepted \/ ReqServerEnds
    PROVE  ClientOK'
  <1>1. req \in Reqs /\ UNCHANGED <<vars, get, rep, forClient>>
    BY DEF ProxyInv, ClientOK, GetConnected, ReqAccepted, ReqServerEnds
  <1>2. CASE GetConnected
    <2>1. req.client = "opening" /\ req' = [req EXCEPT !.client = "open"]
      BY <1>2 DEF GetConnected
    <2>2. /\ req' \in Reqs /\ req # NoReq /\ req'.server = req.server
      BY <1>1, <2>1 DEF Reqs, NoReq
    <2> QED BY <1>1, <2>1, <2>2, ReqMoves
  <1>3. CASE ReqAccepted
    <2>1. PICK r \in BOOLEAN :
             req' = [req EXCEPT !.server = IF r THEN "accepted" ELSE "closed"]
      BY <1>3 DEF ReqAccepted
    <2>2. req.client = "open" /\ req.server = "none"
      BY <1>3 DEF ReqAccepted
    <2>3. /\ req' \in Reqs /\ req # NoReq /\ req'.client = req.client
      BY <1>1, <2>1, <2>2 DEF Reqs, NoReq
    <2> QED BY <1>1, <2>2, <2>3, ReqMoves
  <1>4. CASE ReqServerEnds
    <2>1. req.server = "accepted" /\ req' = [req EXCEPT !.server = "closed"]
      BY <1>4 DEF ReqServerEnds
    <2>2. /\ req' \in Reqs /\ req # NoReq /\ req'.client = req.client
      BY <1>1, <2>1 DEF Reqs, NoReq
    <2> QED BY <1>1, <2>1, <2>2, ReqMoves
  <1> QED BY <1>2, <1>3, <1>4

\* Every step of the proxy, its client and the lookups keeps the invariant.
LEMMA ProxyStep == ProxyInv /\ [ProxyNext]_allvars => ProxyInv'
  <1> SUFFICES ASSUME ProxyInv, [ProxyNext]_allvars PROVE ProxyInv'
    OBVIOUS
  <1>1. DhtInv
    BY DEF ProxyInv
  <1>2. ASSUME ClientOK', UNCHANGED vars PROVE ProxyInv'
    BY <1>1, <1>2, DhtStutter DEF ProxyInv
  <1>3. CASE proxy_get
    BY <1>2, <1>3, GetStart DEF proxy_get
  <1>4. CASE GetConnected \/ ReqAccepted \/ ReqServerEnds
    BY <1>2, <1>4, QuestionStep DEF GetConnected, ReqAccepted, ReqServerEnds
  <1>5. CASE GetReset
    BY <1>2, <1>5, ResetStep DEF GetReset
  <1>6. CASE GetFails
    BY <1>2, <1>6, FailsStep DEF GetFails
  <1>7. CASE \E n \in Nonces : ReadKey(n)
    BY <1>7, ReadKeyStep
  <1>8. CASE timer_get
    BY <1>2, <1>8, TimeoutStep DEF timer_get
  <1>9. CASE Next /\ Reply
    BY <1>9, LookupStep
  <1>10. CASE RepConnected
    BY <1>2, <1>10, RepConnectedStep DEF RepConnected
  <1>11. CASE RepAccepted
    BY <1>2, <1>11, RepAcceptedStep DEF RepAccepted
  <1>12. CASE ReadHdr
    BY <1>2, <1>12, ReadHdrStep DEF ReadHdr
  <1>13. CASE read_op
    BY <1>2, <1>13, ReadOpStep DEF read_op
  <1>14. CASE ReadReply
    BY <1>2, <1>14, ReadReplyStep DEF ReadReply
  <1>15. CASE RepEnds
    BY <1>2, <1>15, RepEndsStep DEF RepEnds
  <1>16. CASE RepServerEnds
    BY <1>2, <1>16, RepServerEndsStep DEF RepServerEnds
  <1>17. CASE sweep_reply
    BY <1>2, <1>17, SweepReplyStep DEF sweep_reply
  <1>18. CASE UNCHANGED allvars
    <2>1. UNCHANGED vars /\ UNCHANGED <<get, req, rep, forClient>> /\ m_query' = m_query
      BY <1>18 DEF allvars, pvars, vars
    <2>2. get \in Gets /\ req \in Reqs /\ rep \in Reps /\ Waiting /\ Answering
      BY DEF ProxyInv, ClientOK
    <2>3. Waiting'
      BY <2>1, <2>2 DEF Waiting
    <2>4. Answering'
      BY <2>1, <2>2, AnsweringKept
    <2> QED BY <1>2, <2>1, <2>2, <2>3, <2>4 DEF ClientOK
  <1> QED BY <1>3, <1>4, <1>5, <1>6, <1>7, <1>8, <1>9, <1>10, <1>11, <1>12, <1>13, <1>14, <1>15,
             <1>16, <1>17, <1>18 DEF ProxyNext

\* The invariant holds at the start.
LEMMA ProxyStart ==
    ASSUME ProxyInit
    PROVE  ProxyInv
  <1>1. DhtInv
    BY DhtStart DEF ProxyInit
  <1>2. get = NoGet /\ req = NoReq /\ rep = NoRep /\ forClient = {}
    BY DEF ProxyInit
  <1>3. /\ get.asked = FALSE /\ get.getdata = FALSE /\ get.timer = FALSE /\ get.calls = 0
        /\ get.vset = {} /\ req.client = "none"
    BY <1>2 DEF NoGet, NoReq
  <1>4. Waiting
    BY <1>2, <1>3, NoneOK DEF Waiting, Gets
  <1>5. Answering
    BY <1>2, <1>3 DEF Answering
  <1> QED BY <1>1, <1>2, <1>4, <1>5, NoneOK DEF ProxyInv, ClientOK

\* Func of a get through the proxy is called once, or can still be
\* called by its timer; it is told values that one node has, and all that the proxy found
\* unless something cut the exchange off (proxy::get, timer_get, rdp_recv_get_func,
\* get_reply_func, read_op, read_val, close_rdp).  However the steps of the client, the proxy,
\* its lookup and the ends of the two connections are interleaved.
THEOREM GetInvariance == ProxySpec => []GetInv
  <1>1. ProxyInit => ProxyInv
    BY ProxyStart
  <1>2. ProxyInv => GetInv
    BY GetImplies
  <1> QED BY <1>1, <1>2, ProxyStep, PTL DEF ProxySpec

\* The lookups of a proxy are as right as those of any other node, whatever its clients do.
THEOREM ProxyLookups == ProxySpec => [](QueryInv /\ GetExact)
  <1>1. ProxyInit => ProxyInv
    BY ProxyStart
  <1>2. ProxyInv => QueryInv /\ GetExact
    BY DhtImplies DEF ProxyInv
  <1> QED BY <1>1, <1>2, ProxyStep, PTL DEF ProxySpec
-----------------------------------------------------------------------------
(* The routing table. *)

\* A row with a node more at its back, ...
LEMMA RowLonger ==
    ASSUME NEW row \in Seq(Id), NEW x \in Id
    PROVE  /\ Append(row, x) \in Seq(Id) /\ Len(Append(row, x)) = Len(row) + 1
           /\ ToSet(Append(row, x)) = ToSet(row) \cup {x}
           /\ Head(Append(row, x)) = IF row = <<>> THEN x ELSE Head(row)
           /\ IsInjective(row) /\ x \notin ToSet(row) => IsInjective(Append(row, x))
  <1> DEFINE s == Append(row, x)
             n == Len(row)
  <1>1. /\ n \in Nat /\ DOMAIN row = 1..n /\ s \in Seq(Id) /\ Len(s) = n + 1
        /\ DOMAIN s = 1..(n + 1)
        /\ \A i \in 1..n : s[i] = row[i]
        /\ s[n + 1] = x
    OBVIOUS
  <1>2. Head(s) = IF row = <<>> THEN x ELSE Head(row)
    OBVIOUS
  <1> HIDE DEF s, n
  <1>3. 1..(n + 1) = 1..n \cup {n + 1} /\ n + 1 \notin 1..n
    BY <1>1
  <1>4. ToSet(s) = ToSet(row) \cup {x}
    BY <1>1, <1>3 DEF ToSet
  <1>5. IsInjective(row) /\ x \notin ToSet(row) => IsInjective(s)
    BY <1>1, <1>3 DEF IsInjective, ToSet
  <1> QED BY <1>1, <1>2, <1>4, <1>5 DEF s, n

\* ... without the one at its front, ...
LEMMA RowShorter ==
    ASSUME NEW row \in Seq(Id), row # <<>>
    PROVE  /\ Tail(row) \in Seq(Id) /\ Len(Tail(row)) = Len(row) - 1
           /\ Len(row) \in Nat \ {0}
           /\ Head(row) \in ToSet(row)
           /\ ToSet(Tail(row)) \subseteq ToSet(row)
           /\ IsInjective(row) => /\ IsInjective(Tail(row))
                                  /\ ToSet(Tail(row)) = ToSet(row) \ {Head(row)}
  <1> DEFINE s == Tail(row)
             n == Len(row)
             h == Head(row)
  <1>1. /\ n \in Nat \ {0} /\ DOMAIN row = 1..n /\ s \in Seq(Id) /\ Len(s) = n - 1
        /\ DOMAIN s = 1..(n - 1)
        /\ \A i \in 1..(n - 1) : s[i] = row[i + 1]
        /\ h = row[1]
    OBVIOUS
  <1> HIDE DEF s, n, h
  <1>2. /\ 1 \in 1..n
        /\ \A i \in 1..(n - 1) : i + 1 \in 1..n /\ i + 1 # 1
        /\ \A j \in 1..n : j # 1 => j - 1 \in 1..(n - 1) /\ (j - 1) + 1 = j
    BY <1>1
  <1>3. h \in ToSet(row) /\ ToSet(s) \subseteq ToSet(row)
    BY <1>1, <1>2 DEF ToSet
  <1>4. ASSUME IsInjective(row) PROVE IsInjective(s) /\ ToSet(s) = ToSet(row) \ {h}
    <2>1. ASSUME NEW i \in 1..(n - 1), NEW j \in 1..(n - 1), s[i] = s[j] PROVE i = j
      <3>1. i + 1 = j + 1
        BY <1>1, <1>2, <1>4, <2>1 DEF IsInjective
      <3> QED BY <3>1
    <2>2. ASSUME NEW i \in 1..(n - 1), s[i] = h PROVE FALSE
      <3>1. i + 1 \in DOMAIN row /\ 1 \in DOMAIN row /\ row[i + 1] = row[1] /\ i + 1 # 1
        BY <1>1, <1>2, <2>2
      <3> QED BY <1>4, <3>1 DEF IsInjective
    <2>3. ASSUME NEW j \in 1..n, row[j] # h PROVE row[j] \in ToSet(s)
      <3>1. j # 1
        BY <1>1, <2>3
      <3>2. j - 1 \in DOMAIN s /\ s[j - 1] = row[j]
        BY <1>1, <1>2, <3>1
      <3> QED BY <3>2 DEF ToSet
    <2>4. IsInjective(s)
      BY <1>1, <2>1 DEF IsInjective
    <2>5. h \notin ToSet(s)
      BY <1>1, <2>2 DEF ToSet
    <2>6. \A x \in ToSet(row) : x # h => x \in ToSet(s)
      BY <1>1, <2>3 DEF ToSet
    <2> QED BY <1>3, <2>4, <2>5, <2>6
  <1> QED BY <1>1, <1>3, <1>4 DEF s, n, h

\* ... and without any of them.
LEMMA RowWithout ==
    ASSUME NEW row \in Seq(Id), NEW k \in 1..Len(row)
    PROVE  /\ RemoveAt(row, k) \in Seq(Id) /\ Len(RemoveAt(row, k)) = Len(row) - 1
           /\ ToSet(RemoveAt(row, k)) \subseteq ToSet(row)
           /\ IsInjective(row) => /\ IsInjective(RemoveAt(row, k))
                                  /\ ToSet(RemoveAt(row, k)) = ToSet(row) \ {row[k]}
  <1> DEFINE s == RemoveAt(row, k)
             n == Len(row)
  <1>1. /\ n \in Nat /\ k \in 1..n /\ DOMAIN row = 1..n /\ s \in Seq(Id) /\ Len(s) = n - 1
        /\ \A i \in 1..(n - 1) : s[i] = IF i < k THEN row[i] ELSE row[i + 1]
    BY RemoveAtFacts
  <1> HIDE DEF s, n
  <1>2. DOMAIN s = 1..(n - 1)
    BY <1>1
  <1> DEFINE f(i) == IF i < k THEN i ELSE i + 1
             g(j) == IF j < k THEN j ELSE j - 1
  <1>3. \A i \in 1..(n - 1) : f(i) \in 1..n /\ f(i) # k
    BY <1>1
  <1>4. \A j \in 1..n : j # k => g(j) \in 1..(n - 1) /\ f(g(j)) = j
    BY <1>1
  <1>5. \A i, j \in 1..(n - 1) : f(i) = f(j) => i = j
    BY <1>1
  <1>6. \A i \in 1..(n - 1) : s[i] = row[f(i)]
    BY <1>1
  <1> HIDE DEF f, g
  <1>7. ToSet(s) \subseteq ToSet(row)
    BY <1>1, <1>2, <1>3, <1>6 DEF ToSet
  <1>8. ASSUME IsInjective(row) PROVE IsInjective(s) /\ ToSet(s) = ToSet(row) \ {row[k]}
    <2>1. IsInjective(s)
      BY <1>1, <1>2, <1>3, <1>5, <1>6, <1>8 DEF IsInjective
    <2>2. row[k] \notin ToSet(s)
      <3> SUFFICES ASSUME NEW i \in 1..(n - 1), s[i] = row[k] PROVE FALSE
        BY <1>2 DEF ToSet
      <3>1. f(i) \in DOMAIN row /\ k \in DOMAIN row /\ row[f(i)] = row[k] /\ f(i) # k
        BY <1>1, <1>3, <1>6
      <3> QED BY <1>8, <3>1 DEF IsInjective
    <2>3. ASSUME NEW j \in 1..n, j # k PROVE row[j] \in ToSet(s)
      <3>1. g(j) \in DOMAIN s /\ s[g(j)] = row[j]
        BY <1>2, <1>4, <1>6, <2>3
      <3> QED BY <3>1 DEF ToSet
    <2> QED BY <1>1, <1>7, <2>1, <2>2, <2>3 DEF ToSet
  <1> QED BY <1>1, <1>7, <1>8 DEF s, n

\* The nodes of a row.
LEMMA RowEntries == \A row : Entries(row) = ToSet(row)
  BY DEF Entries, ToSet

\* A node other than this one has a row.
LEMMA RowOf ==
    ASSUME NEW a \in Id
    PROVE  /\ m_id \in Id /\ MaxEntry \in Nat \ {0}
           /\ a # m_id => id2i(a) \in Rows
           /\ a = m_id => id2i(a) \notin Rows
  <1>1. m_id \in Id /\ MaxEntry \in Nat \ {0}
    BY RtAssumption, IdAssumption
  <1>2. ASSUME a # m_id PROVE id2i(a) \in Rows
    <2>1. id2i(a) = Max(Xor(m_id, a))
      BY <1>2 DEF id2i, Max, Xor
    <2>2. Xor(m_id, a) \in Id /\ Xor(m_id, a) # {}
      BY <1>1, <1>2, XorId
    <2>3. Max(Xor(m_id, a)) \in Xor(m_id, a)
      BY <2>2, MaxBit
    <2> QED BY <2>1, <2>2, <2>3 DEF Id, Rows
  <1>3. ASSUME a = m_id PROVE id2i(a) \notin Rows
    BY <1>3, BitsAssumption DEF id2i, Rows
  <1> QED BY <1>1, <1>2, <1>3

\* Where the first entry of a node is, if it has one.
FirstAt(row, a) ==
    LET I == {i \in 1..Len(row) : row[i] = a}
    IN  IF I # {} THEN Min(I) ELSE 0

LEMMA FirstEntry ==
    ASSUME NEW row \in Seq(Id), NEW a
    PROVE  /\ a \in ToSet(row) => FirstAt(row, a) \in 1..Len(row) /\ row[FirstAt(row, a)] = a
           /\ a \notin ToSet(row) => FirstAt(row, a) = 0
  <1> DEFINE I == {i \in 1..Len(row) : row[i] = a}
             k == FirstAt(row, a)
  <1>1. k = IF I # {} THEN Min(I) ELSE 0
    BY DEF FirstAt
  <1>2. a \in ToSet(row) <=> I # {}
    BY DEF ToSet
  <1>3. I \in SUBSET Nat
    OBVIOUS
  <1>4. ASSUME I # {} PROVE Min(I) \in I
    <2> HIDE DEF I
    <2>1. \E x \in I : \A y \in I : x <= y
      BY <1>3, <1>4, LeastNat
    <2> QED BY <2>1 DEF Min
  <1> HIDE DEF k
  <1>5. ASSUME a \in ToSet(row) PROVE k \in 1..Len(row) /\ row[k] = a
    <2>1. k \in I
      BY <1>1, <1>2, <1>4, <1>5
    <2> QED BY <2>1
  <1>6. ASSUME a \notin ToSet(row) PROVE k = 0
    BY <1>1, <1>2, <1>6
  <1> QED BY <1>5, <1>6 DEF k

\* The parts of the invariant in the terms above.
LEMMA TableFacts ==
    ASSUME TableInv
    PROVE  /\ m_table \in [Rows -> Seq(Id)] /\ m_nodes \subseteq Id
           /\ m_ping_wait \subseteq Ping /\ m_ping_send \subseteq Rows
           /\ raced \in BOOLEAN /\ rt_undef \in BOOLEAN
           /\ \A i \in Rows : /\ Len(m_table[i]) <= MaxEntry
                                 /\ \A a \in ToSet(m_table[i]) : id2i(a) = i
           /\ ~ raced => /\ \A a : a \in m_nodes <=> \E i \in Rows : a \in ToSet(m_table[i])
                         /\ \A i \in Rows : IsInjective(m_table[i])
           /\ \A w \in m_ping_wait : w.i \in Rows /\ w.old \in Id /\ w.new \in Id
  BY RowEntries DEF TableInv, RtTypeOK, NodesExact, Ping

\* A row that is replaced, if its nodes belong there, leaves the table in order;
\* if they differ from the old ones like the new m_nodes from the old, it has
\* what the table has.
LEMMA RowReplaced ==
    ASSUME TableInv,
           NEW i \in Rows, NEW row \in Seq(Id),
           Len(row) <= MaxEntry, \A a \in ToSet(row) : id2i(a) = i,
           m_table' = [m_table EXCEPT ![i] = row]
    PROVE  /\ m_table' \in [Rows -> Seq(Id)]
           /\ \A j \in Rows : /\ Len(m_table'[j]) <= MaxEntry
                                 /\ \A a \in Entries(m_table'[j]) : id2i(a) = j
           /\ m_table'[i] = row /\ \A j \in Rows : j # i => m_table'[j] = m_table[j]
           /\ /\ ~ raced /\ IsInjective(row)
              /\ \A a : id2i(a) # i => (a \in m_nodes' <=> a \in m_nodes)
              /\ \A a : id2i(a) = i => (a \in m_nodes' <=> a \in ToSet(row))
              => /\ m_nodes' = UNION {Entries(m_table'[j]) : j \in Rows}
                 /\ \A j \in Rows : IsInjective(m_table'[j])
  <1>1. /\ m_table' \in [Rows -> Seq(Id)]
        /\ m_table'[i] = row /\ \A j \in Rows : j # i => m_table'[j] = m_table[j]
    BY TableFacts
  <1>2. ASSUME NEW j \in Rows
        PROVE  Len(m_table'[j]) <= MaxEntry /\ \A a \in Entries(m_table'[j]) : id2i(a) = j
    BY <1>1, TableFacts, RowEntries
  <1>3. ASSUME ~ raced, IsInjective(row),
               \A a : id2i(a) # i => (a \in m_nodes' <=> a \in m_nodes),
               \A a : id2i(a) = i => (a \in m_nodes' <=> a \in ToSet(row))
        PROVE  /\ m_nodes' = UNION {Entries(m_table'[j]) : j \in Rows}
               /\ \A j \in Rows : IsInjective(m_table'[j])
    <2>1. ASSUME NEW a
          PROVE  a \in m_nodes' <=> \E j \in Rows : a \in Entries(m_table'[j])
      <3>1. CASE id2i(a) = i
        BY <1>1, <1>2, <1>3, <3>1, RowEntries
      <3>2. CASE id2i(a) # i
        BY <1>1, <1>3, <3>2, TableFacts, RowEntries
      <3> QED BY <3>1, <3>2
    <2>2. m_nodes' = UNION {Entries(m_table'[j]) : j \in Rows}
      BY <2>1
    <2>3. \A j \in Rows : IsInjective(m_table'[j])
      BY <1>1, <1>3, TableFacts, RowEntries
    <2> QED BY <2>2, <2>3
  <1> QED BY <1>1, <1>2, <1>3

\* Nothing but the history changes.
LEMMA TableStutter ==
    ASSUME TableInv, UNCHANGED rtvars
    PROVE  TableInv'
  BY DEF TableInv, RtTypeOK, OnePing, NodesExact, rtvars, Ping, Rows, id2i,
         Entries

\* A node is put into its row, or waits for the ping of the oldest one there.
LEMMA AddStep ==
    ASSUME TableInv, NEW id \in Id, add(id)
    PROVE  TableInv'
  <1> DEFINE i == id2i(id)
             row == m_table[i]
  <1>1. /\ id # m_id /\ ~ rt_undef /\ id \notin m_nodes
        /\ raced' = raced /\ rt_undef' = rt_undef
    BY DEF add
  <1>2. i \in Rows /\ row \in Seq(Id) /\ MaxEntry \in Nat \ {0} /\ Len(row) \in Nat
    BY <1>1, RowOf, TableFacts
  <1>3. CASE /\ id \in Entries(row)
             /\ m_table' = [m_table EXCEPT ![i] =
                    Append(RemoveAt(row, SelectInSeq(row, LAMBDA x : x = id)), id)]
             /\ UNCHANGED <<m_nodes, m_ping_wait, m_ping_send>>
    <2> DEFINE k == FirstAt(row, id)
               new == Append(RemoveAt(row, k), id)
    <2>1. id \in ToSet(row) /\ raced
      BY <1>1, <1>2, <1>3, TableFacts, RowEntries
    <2>2. k \in 1..Len(row)
      BY <1>2, <2>1, FirstEntry
    <2>3. m_table' = [m_table EXCEPT ![i] = new]
      BY <1>3, RowEntries DEF SelectInSeq, Min, FirstAt, Min
    <2> HIDE DEF i, row, k
    <2>4. /\ RemoveAt(row, k) \in Seq(Id) /\ Len(RemoveAt(row, k)) = Len(row) - 1
          /\ ToSet(RemoveAt(row, k)) \subseteq ToSet(row)
      BY <1>2, <2>2, RowWithout
    <2>5. new \in Seq(Id) /\ Len(new) = Len(row) /\ ToSet(new) \subseteq ToSet(row)
      BY <1>2, <2>1, <2>4, RowLonger
    <2> HIDE DEF new
    <2>6. Len(new) <= MaxEntry /\ \A a \in ToSet(new) : id2i(a) = i
      BY <1>2, <2>5, TableFacts DEF row
    <2>7. /\ m_table' \in [Rows -> Seq(Id)]
          /\ \A j \in Rows : /\ Len(m_table'[j]) <= MaxEntry
                                /\ \A a \in Entries(m_table'[j]) : id2i(a) = j
      BY <1>2, <2>3, <2>5, <2>6, RowReplaced
    <2> QED BY <1>1, <1>3, <2>1, <2>7, RowEntries
            DEF TableInv, RtTypeOK, OnePing, NodesExact
  <1>4. CASE /\ id \notin Entries(row) /\ Len(row) < MaxEntry
             /\ m_table' = [m_table EXCEPT ![i] = Append(row, id)]
             /\ m_nodes' = m_nodes \cup {id}
             /\ UNCHANGED <<m_ping_wait, m_ping_send>>
    <2> DEFINE new == Append(row, id)
    <2>1. id \notin ToSet(row)
      BY <1>4, RowEntries
    <2>2. /\ new \in Seq(Id) /\ Len(new) = Len(row) + 1 /\ ToSet(new) = ToSet(row) \cup {id}
          /\ IsInjective(row) => IsInjective(new)
      BY <1>2, <2>1, RowLonger
    <2>3. m_table' = [m_table EXCEPT ![i] = new]
      BY <1>4
    <2> HIDE DEF new
    <2>4. Len(new) <= MaxEntry /\ \A a \in ToSet(new) : id2i(a) = i
      BY <1>2, <1>4, <2>2, TableFacts
    <2>5. ~ raced => /\ IsInjective(new)
                     /\ \A a : id2i(a) # i => (a \in m_nodes' <=> a \in m_nodes)
                     /\ \A a : id2i(a) = i => (a \in m_nodes' <=> a \in ToSet(new))
      BY <1>2, <1>4, <2>2, TableFacts
    <2> HIDE DEF i, row
    <2>6. /\ m_table' \in [Rows -> Seq(Id)]
          /\ \A j \in Rows : /\ Len(m_table'[j]) <= MaxEntry
                                /\ \A a \in Entries(m_table'[j]) : id2i(a) = j
          /\ \A j \in Rows : j # i => m_table'[j] = m_table[j]
          /\ ~ raced => /\ m_nodes' = UNION {Entries(m_table'[j]) : j \in Rows}
                        /\ \A j \in Rows : IsInjective(m_table'[j])
      BY <1>2, <2>2, <2>3, <2>4, <2>5, RowReplaced
    <2>7. ASSUME ~ raced, NEW w \in m_ping_wait
          PROVE  /\ Len(m_table'[w.i]) = MaxEntry
                 /\ Head(m_table'[w.i]) = w.old
                 /\ w.new \notin m_nodes'
      <3>1. /\ Len(m_table[w.i]) = MaxEntry /\ Head(m_table[w.i]) = w.old
            /\ w.new \notin m_nodes /\ id2i(w.new) = w.i /\ w.i \in Rows
        BY <2>7, TableFacts DEF TableInv, NodesExact, OnePing
      <3>2. w.i # i
        BY <1>2, <1>4, <3>1 DEF row
      <3> QED BY <1>4, <2>6, <3>1, <3>2 DEF i
    <2>8. m_nodes' \subseteq Id
      BY <1>4, TableFacts
    <2>9. RtTypeOK'
      BY <1>1, <1>4, <2>6, <2>8, TableFacts, RowEntries DEF RtTypeOK
    <2>10. OnePing'
      BY <1>4 DEF TableInv, OnePing
    <2>11. NodesExact'
      BY <1>1, <1>4, <2>6, <2>7 DEF NodesExact
    <2> QED BY <2>9, <2>10, <2>11 DEF TableInv
  <1>5. CASE /\ id \notin Entries(row) /\ Len(row) >= MaxEntry
             /\ i \notin m_ping_send
             /\ m_ping_wait' = m_ping_wait \cup {[i |-> i, old |-> Head(row), new |-> id]}
             /\ m_ping_send' = m_ping_send \cup {i}
             /\ UNCHANGED <<m_table, m_nodes>>
    <2> DEFINE p == [i |-> i, old |-> Head(row), new |-> id]
    <2>1. Len(row) = MaxEntry /\ row # <<>>
      BY <1>2, <1>5, TableFacts
    <2>2. Head(row) \in ToSet(row) /\ Head(row) \in Id /\ id \notin ToSet(row)
      BY <1>2, <1>5, <2>1, RowShorter, RowEntries
    <2>3. id2i(Head(row)) = i
      BY <1>2, <2>2, TableFacts
    <2>4. /\ p \in Ping /\ p.i = i /\ p.old = Head(row) /\ p.new = id
          /\ id2i(p.old) = p.i /\ id2i(p.new) = p.i /\ p.old # p.new
      BY <1>2, <2>2, <2>3, RowEntries DEF Ping
    <2>5. /\ m_ping_wait' = m_ping_wait \cup {p} /\ m_ping_send' = m_ping_send \cup {p.i}
          /\ UNCHANGED <<m_table, m_nodes, raced, rt_undef>>
          /\ Len(m_table[p.i]) = MaxEntry /\ Head(m_table[p.i]) = p.old /\ p.new \notin m_nodes
      BY <1>1, <1>5, <2>1, <2>4
    <2>6. \A w \in m_ping_wait : w.i # p.i
      BY <1>5, <2>4 DEF TableInv, OnePing
    <2> HIDE DEF p, row, i
    <2>7. RtTypeOK'
      BY <1>2, <2>4, <2>5 DEF TableInv, RtTypeOK
    <2>8. OnePing'
      <3>1. m_ping_send' = {w.i : w \in m_ping_wait'}
        BY <2>5 DEF TableInv, OnePing
      <3>2. ASSUME NEW w \in m_ping_wait'
            PROVE  /\ id2i(w.old) = w.i /\ id2i(w.new) = w.i /\ w.old # w.new
                   /\ \A v \in m_ping_wait' : v.i = w.i => v = w
        BY <2>4, <2>5, <2>6 DEF TableInv, OnePing
      <3> QED BY <3>1, <3>2 DEF OnePing
    <2>9. NodesExact'
      BY <2>5 DEF TableInv, NodesExact
    <2> QED BY <2>7, <2>8, <2>9 DEF TableInv
  <1> QED BY <1>3, <1>4, <1>5 DEF add

\* A node is removed, and with it its first entry.
LEMMA RemoveStep ==
    ASSUME TableInv, NEW id \in Id, remove(id)
    PROVE  TableInv'
  <1> DEFINE i == id2i(id)
             row == m_table[i]
             k == FirstAt(row, id)
             new == IF k = 0 THEN row ELSE RemoveAt(row, k)
  <1>1. /\ ~ rt_undef /\ id \in m_nodes /\ m_nodes' = m_nodes \ {id}
        /\ raced' = (raced \/ i \in m_ping_send)
        /\ UNCHANGED <<m_ping_wait, m_ping_send, rt_undef>>
    BY DEF remove
  <1>2. m_table' = [m_table EXCEPT ![i] = new]
    <2> DEFINE I == {x \in 1..Len(row) : row[x] = id}
               f == IF I # {} THEN Min(I) ELSE 0
    <2>1. m_table' = [m_table EXCEPT ![i] = IF f = 0 THEN row ELSE RemoveAt(row, f)]
      BY DEF remove, SelectInSeq, Min
    <2>2. f = k
      BY DEF FirstAt
    <2> HIDE DEF f, i, row, k
    <2> QED BY <2>1, <2>2, RowEntries
  <1>3. OnePing'
    BY <1>1 DEF TableInv, OnePing
  <1>4. m_nodes' \subseteq Id /\ raced' \in BOOLEAN
    BY <1>1, TableFacts
  <1>5. CASE id = m_id
    <2>1. i \notin Rows
      BY <1>5, RowOf
    <2> HIDE DEF i, new
    <2>2. m_table' = m_table
      BY <1>2, <2>1, TableFacts
    <2>3. ~ raced => id \notin m_nodes
      BY <2>1, TableFacts DEF i
    <2>4. raced /\ raced'
      BY <1>1, <2>3
    <2>5. RtTypeOK'
      BY <1>1, <1>4, <2>2, RowEntries DEF TableInv, RtTypeOK
    <2> QED BY <1>3, <2>4, <2>5 DEF TableInv, NodesExact
  <1>6. CASE id # m_id
    <2>1. i \in Rows /\ row \in Seq(Id) /\ MaxEntry \in Nat \ {0} /\ Len(row) \in Nat
      BY <1>6, RowOf, TableFacts
    <2>2. Len(row) <= MaxEntry /\ \A a \in ToSet(row) : id2i(a) = i
      BY <2>1, TableFacts
    <2>3. ~ raced => id \in ToSet(row) /\ IsInjective(row)
      BY <1>1, <2>1, TableFacts
    <2>4. /\ id \in ToSet(row) => k \in 1..Len(row) /\ row[k] = id
          /\ id \notin ToSet(row) => k = 0
      BY <2>1, FirstEntry
    <2> HIDE DEF i, row, k
    <2>5. /\ new \in Seq(Id) /\ Len(new) <= MaxEntry /\ ToSet(new) \subseteq ToSet(row)
          /\ ~ raced => IsInjective(new) /\ ToSet(new) = ToSet(row) \ {id}
      <3>1. CASE id \in ToSet(row)
        <4>1. /\ RemoveAt(row, k) \in Seq(Id) /\ Len(RemoveAt(row, k)) = Len(row) - 1
              /\ ToSet(RemoveAt(row, k)) \subseteq ToSet(row)
              /\ IsInjective(row) => /\ IsInjective(RemoveAt(row, k))
                                     /\ ToSet(RemoveAt(row, k)) = ToSet(row) \ {row[k]}
          BY <2>1, <2>4, <3>1, RowWithout
        <4>2. new = RemoveAt(row, k)
          BY <2>1, <2>4, <3>1
        <4> QED BY <2>1, <2>2, <2>3, <2>4, <3>1, <4>1, <4>2
      <3>2. CASE id \notin ToSet(row)
        BY <2>1, <2>2, <2>3, <2>4, <3>2
      <3> QED BY <3>1, <3>2
    <2> HIDE DEF new
    <2>6. \A a \in ToSet(new) : id2i(a) = i
      BY <2>2, <2>5
    <2>7. ~ raced => /\ \A a : id2i(a) # i => (a \in m_nodes' <=> a \in m_nodes)
                     /\ \A a : id2i(a) = i => (a \in m_nodes' <=> a \in ToSet(new))
      BY <1>1, <2>1, <2>5, TableFacts DEF i, row
    <2>8. /\ m_table' \in [Rows -> Seq(Id)]
          /\ \A j \in Rows : /\ Len(m_table'[j]) <= MaxEntry
                                /\ \A a \in Entries(m_table'[j]) : id2i(a) = j
          /\ \A j \in Rows : j # i => m_table'[j] = m_table[j]
          /\ ~ raced => /\ m_nodes' = UNION {Entries(m_table'[j]) : j \in Rows}
                        /\ \A j \in Rows : IsInjective(m_table'[j])
      BY <1>2, <2>1, <2>5, <2>6, <2>7, RowReplaced
    <2>9. ASSUME ~ raced', NEW w \in m_ping_wait
          PROVE  /\ Len(m_table'[w.i]) = MaxEntry
                 /\ Head(m_table'[w.i]) = w.old
                 /\ w.new \notin m_nodes'
      <3>1. w.i # i /\ w.i \in Rows
        BY <1>1, <2>9, TableFacts DEF TableInv, OnePing
      <3> QED BY <1>1, <2>8, <2>9, <3>1 DEF TableInv, NodesExact
    <2>10. RtTypeOK'
      BY <1>1, <1>4, <2>8, TableFacts, RowEntries DEF RtTypeOK
    <2>11. NodesExact'
      BY <1>1, <2>8, <2>9 DEF NodesExact
    <2> QED BY <1>3, <2>10, <2>11 DEF TableInv
  <1> QED BY <1>5, <1>6

\* The end of a ping lets go of its row, and of no other.
LEMMA EndPingOK ==
    ASSUME TableInv, NEW w \in m_ping_wait, EndPing(w)
    PROVE  /\ OnePing'
           /\ m_ping_wait' \subseteq Ping /\ m_ping_send' \subseteq Rows
           /\ m_ping_wait' \subseteq m_ping_wait /\ \A v \in m_ping_wait' : v.i # w.i
  <1>1. /\ m_ping_wait' = m_ping_wait \ {w} /\ m_ping_send' = m_ping_send \ {w.i}
        /\ m_ping_send = {v.i : v \in m_ping_wait}
        /\ \A v \in m_ping_wait : v.i = w.i => v = w
    BY DEF EndPing, TableInv, OnePing
  <1>2. \A v \in m_ping_wait' : v.i # w.i
    BY <1>1
  <1>3. m_ping_send' = {v.i : v \in m_ping_wait'}
    BY <1>1
  <1>4. OnePing'
    BY <1>1, <1>3 DEF TableInv, OnePing
  <1> QED BY <1>1, <1>2, <1>4 DEF TableInv, RtTypeOK

\* The front of the pinged row makes room for a, the node that waited or the
\* pinged one itself, and m_nodes has a in its place.
LEMMA RotateOK ==
    ASSUME TableInv, ~ rt_undef, NEW w \in m_ping_wait, NEW a \in {w.old, w.new},
           Rotate(w.i, a), EndPing(w), UNCHANGED raced,
           m_nodes' \subseteq Id,
           ~ raced => m_nodes' = (m_nodes \ {w.old}) \cup {a}
    PROVE  TableInv'
  <1> DEFINE i == w.i
             row == m_table[i]
             new == Append(Tail(row), a)
  <1>1. /\ i \in Rows /\ row \in Seq(Id) /\ MaxEntry \in Nat \ {0} /\ Len(row) \in Nat
        /\ a \in Id /\ w.old \in Id /\ w.new \in Id
        /\ id2i(a) = i /\ id2i(w.old) = i /\ id2i(w.new) = i
    BY RowOf, TableFacts DEF TableInv, OnePing
  <1>2. ~ raced => /\ Len(row) = MaxEntry /\ Head(row) = w.old /\ w.new \notin m_nodes
                   /\ IsInjective(row)
    BY <1>1, TableFacts DEF TableInv, NodesExact
  <1>3. CASE row = <<>>
    <2>1. raced /\ raced' /\ rt_undef' = TRUE /\ m_table' = m_table
      BY <1>1, <1>2, <1>3 DEF Rotate
    <2>2. RtTypeOK'
      BY <2>1, EndPingOK, RowEntries DEF TableInv, RtTypeOK
    <2> QED BY <2>1, <2>2, EndPingOK DEF TableInv, NodesExact
  <1>4. CASE row # <<>>
    <2>1. rt_undef' = rt_undef /\ m_table' = [m_table EXCEPT ![i] = new]
      BY <1>1, <1>4, TableFacts DEF Rotate
    <2>2. /\ Len(row) <= MaxEntry /\ \A b \in ToSet(row) : id2i(b) = i
      BY <1>1, TableFacts
    <2>3. ~ raced => /\ a \notin ToSet(row) \ {w.old}
                     /\ \A b \in ToSet(row) : b \in m_nodes
      BY <1>1, <1>2, TableFacts
    <2> HIDE DEF i, row
    <2>4. /\ Tail(row) \in Seq(Id) /\ Len(Tail(row)) = Len(row) - 1
          /\ ToSet(Tail(row)) \subseteq ToSet(row)
          /\ IsInjective(row) => /\ IsInjective(Tail(row))
                                 /\ ToSet(Tail(row)) = ToSet(row) \ {Head(row)}
      BY <1>1, <1>4, RowShorter
    <2>5. /\ new \in Seq(Id) /\ Len(new) = Len(row) /\ ToSet(new) \subseteq ToSet(row) \cup {a}
          /\ ~ raced => IsInjective(new) /\ ToSet(new) = (ToSet(row) \ {w.old}) \cup {a}
      <3> DEFINE t == Tail(row)
      <3>1. /\ new \in Seq(Id) /\ Len(new) = Len(t) + 1 /\ ToSet(new) = ToSet(t) \cup {a}
            /\ IsInjective(t) /\ a \notin ToSet(t) => IsInjective(new)
        BY <1>1, <2>4, RowLonger
      <3> HIDE DEF t, new
      <3>2. Len(new) = Len(row) /\ ToSet(new) \subseteq ToSet(row) \cup {a}
        BY <1>1, <2>4, <3>1 DEF t
      <3>3. ASSUME ~ raced
            PROVE  IsInjective(new) /\ ToSet(new) = (ToSet(row) \ {w.old}) \cup {a}
        <4>1. IsInjective(t) /\ ToSet(t) = ToSet(row) \ {w.old}
          BY <1>2, <2>4, <3>3 DEF t
        <4> QED BY <2>3, <3>1, <3>3, <4>1
      <3> QED BY <3>1, <3>2, <3>3
    <2> HIDE DEF new
    <2>6. Len(new) <= MaxEntry /\ \A b \in ToSet(new) : id2i(b) = i
      BY <1>1, <2>2, <2>5
    <2>7. ~ raced => /\ \A b : id2i(b) # i => (b \in m_nodes' <=> b \in m_nodes)
                     /\ \A b : id2i(b) = i => (b \in m_nodes' <=> b \in ToSet(new))
      BY <1>1, <2>5, TableFacts DEF i, row
    <2>8. /\ m_table' \in [Rows -> Seq(Id)]
          /\ \A j \in Rows : /\ Len(m_table'[j]) <= MaxEntry
                                /\ \A b \in Entries(m_table'[j]) : id2i(b) = j
          /\ \A j \in Rows : j # i => m_table'[j] = m_table[j]
          /\ ~ raced => /\ m_nodes' = UNION {Entries(m_table'[j]) : j \in Rows}
                        /\ \A j \in Rows : IsInjective(m_table'[j])
      BY <1>1, <2>1, <2>5, <2>6, <2>7, RowReplaced
    <2>9. ASSUME ~ raced, NEW v \in m_ping_wait'
          PROVE  /\ Len(m_table'[v.i]) = MaxEntry
                 /\ Head(m_table'[v.i]) = v.old
                 /\ v.new \notin m_nodes'
      <3>1. v \in m_ping_wait /\ v.i # i /\ v.i \in Rows /\ id2i(v.new) = v.i
        BY EndPingOK, TableFacts DEF TableInv, OnePing, i
      <3> QED BY <2>7, <2>8, <2>9, <3>1 DEF TableInv, NodesExact
    <2>10. RtTypeOK'
      BY <2>1, <2>8, EndPingOK, TableFacts, RowEntries DEF RtTypeOK
    <2>11. NodesExact'
      BY <2>1, <2>8, <2>9 DEF NodesExact
    <2> QED BY <2>10, <2>11, EndPingOK DEF TableInv
  <1> QED BY <1>3, <1>4

\* A ping ends: the node that waited takes the place of the pinged one, ...
LEMMA TimerPingStep ==
    ASSUME TableInv, NEW w \in m_ping_wait, timer_ping(w)
    PROVE  TableInv'
  <1>1. /\ ~ rt_undef /\ Rotate(w.i, w.new) /\ EndPing(w) /\ UNCHANGED raced
        /\ m_nodes' = (m_nodes \ {w.old}) \cup {w.new}
    BY DEF timer_ping
  <1>2. m_nodes' \subseteq Id
    BY <1>1, TableFacts
  <1> QED BY <1>1, <1>2, RotateOK

\* ... or the pinged one moves to the back.
LEMMA PingReplyStep ==
    ASSUME TableInv, NEW w \in m_ping_wait, recv_ping_reply(w)
    PROVE  TableInv'
  <1>1. /\ ~ rt_undef /\ Rotate(w.i, w.old) /\ EndPing(w) /\ UNCHANGED raced
        /\ m_nodes' = m_nodes
    BY DEF recv_ping_reply
  <1>2. m_nodes' \subseteq Id
    BY <1>1, TableFacts
  <1>3. ASSUME ~ raced PROVE w.old \in m_nodes
    <2> DEFINE row == m_table[w.i]
    <2>1. /\ w.i \in Rows /\ row \in Seq(Id) /\ Len(row) = MaxEntry /\ MaxEntry \in Nat \ {0}
          /\ Head(row) = w.old
      BY <1>3, TableFacts, RowOf DEF TableInv, NodesExact
    <2> HIDE DEF row
    <2>2. row # <<>>
      BY <2>1
    <2>3. w.old \in ToSet(row)
      BY <2>1, <2>2, RowShorter
    <2> QED BY <1>3, <2>1, <2>3, TableFacts DEF row
  <1>4. ~ raced => m_nodes' = (m_nodes \ {w.old}) \cup {w.old}
    BY <1>1, <1>3
  <1> QED BY <1>1, <1>2, <1>4, RotateOK

\* The table, m_nodes and the pings under way agree at all times: no row grows
\* beyond max_entry, every node is in its row, every row that is locked has its
\* ping, and as long as no node was removed from a row with a ping under way,
\* m_nodes is exactly what the table has and a ping ends on the node it is for.
THEOREM TableInvariance == RtSpec => []TableInv
  <1>1. RtInit => TableInv
    <2> SUFFICES ASSUME RtInit PROVE TableInv
      OBVIOUS
    <2>1. MaxEntry \in Nat \ {0} /\ m_id \in Id
      BY RtAssumption, IdAssumption
    <2>2. RtTypeOK
      <3>1. <<>> \in Seq(Id) /\ Len(<<>>) <= MaxEntry /\ Entries(<<>>) = {}
        BY <2>1 DEF Entries
      <3>2. m_table \in [Rows -> Seq(Id)] /\ \A i \in Rows : m_table[i] = <<>>
        BY <3>1 DEF RtInit
      <3> QED BY <3>1, <3>2, RowEntries DEF RtInit, RtTypeOK
    <2>3. OnePing
      BY DEF RtInit, OnePing
    <2>4. NodesExact
      BY DEF RtInit, NodesExact, Entries, IsInjective
    <2> QED BY <2>2, <2>3, <2>4 DEF TableInv
  <1>2. TableInv /\ [RtNext]_rtvars => TableInv'
    <2> SUFFICES ASSUME TableInv, [RtNext]_rtvars PROVE TableInv'
      OBVIOUS
    <2>1. ASSUME NEW id \in Id, add(id) \/ remove(id) PROVE TableInv'
      BY <2>1, AddStep, RemoveStep, RowEntries
    <2>2. ASSUME NEW w \in m_ping_wait, timer_ping(w) \/ recv_ping_reply(w) PROVE TableInv'
      BY <2>2, TimerPingStep, PingReplyStep
    <2>3. CASE UNCHANGED rtvars
      BY <2>3, TableStutter
    <2> QED BY <2>1, <2>2, <2>3 DEF RtNext
  <1> QED BY <1>1, <1>2, PTL DEF RtSpec
-----------------------------------------------------------------------------
(* lookup() in the routing table: from the highest bit in which id differs *)
(* from this node to the lowest, then this node, then the other bits from  *)
(* the lowest, every row is farther from id than the ones before it.       *)

\* The rows of the table, and -1 for this node itself.
AllRows == Rows \cup {-1}

\* The row j is nearer to id than the row i.
Before(id, j, i) == (j > i /\ j \in Xor(m_id, id)) \/ (j < i /\ i \notin Xor(m_id, id))

\* The rows before a row.
Pred(id, i) == {j \in AllRows : Before(id, j, i)}

\* The places of found up to s, in the order of their distances from id.
Upto(id, found, s) == {t \in found : \/ Closer(id, At(t), At(s))
                                     \/ At(t) = At(s) /\ t[2] <= s[2]}

\* The rows are ordered.
LEMMA BeforeOrder ==
    ASSUME NEW id \in Id, NEW i \in AllRows, NEW j \in AllRows, NEW k \in AllRows
    PROVE  /\ i # j => Before(id, i, j) \/ Before(id, j, i)
           /\ Before(id, i, j) /\ Before(id, j, k) => Before(id, i, k)
           /\ Before(id, i, j) => i # j
  <1>1. i \in Int /\ j \in Int /\ k \in Int
    BY BitsAssumption DEF AllRows, Rows
  <1> DEFINE T == Xor(m_id, id)
  <1> HIDE DEF T
  <1>2. \A x, y : Before(id, x, y) <=> (x > y /\ x \in T) \/ (x < y /\ y \notin T)
    BY DEF Before, T
  <1> QED BY <1>1, <1>2

\* The highest bit of two distances from this node.
LEMMA RowsApart ==
    ASSUME NEW a \in Id, NEW b \in Id, id2i(b) < id2i(a)
    PROVE  /\ Xor(a, b) \in Id /\ a # b /\ Max(Xor(a, b)) = id2i(a) /\ Max(Xor(b, a)) = id2i(a)
           /\ id2i(a) \in Xor(m_id, a) /\ id2i(a) \notin Xor(m_id, b)
  <1> DEFINE A == Xor(m_id, a)
             B == Xor(m_id, b)
             m == id2i(a)
  <1>1. A \in Id /\ B \in Id /\ (a # m_id => A # {}) /\ (b # m_id => B # {}) /\ Xor(a, b) \in Id
        /\ Xor(a, b) = Xor(b, a)
    BY IdAssumption, XorId
  <1>2. A \subseteq Int /\ B \subseteq Int
    BY <1>1, BitsAssumption DEF Id
  <1>3. a # m_id => m \in A /\ \A y \in A : y <= m
    BY <1>1, MaxBit DEF id2i
  <1>4. b # m_id => id2i(b) \in B /\ \A y \in B : y <= id2i(b)
    BY <1>1, MaxBit DEF id2i
  <1>5. b = m_id => id2i(b) = -1 /\ B = {}
    BY DEF id2i, Xor
  <1>6. a # m_id
    <2> SUFFICES ASSUME a = m_id PROVE FALSE
      OBVIOUS
    <2>1. id2i(a) = -1
      BY DEF id2i
    <2>2. CASE b = m_id
      BY <1>5, <2>1, <2>2
    <2>3. CASE b # m_id
      <3>1. id2i(b) \in 0..(Bits - 1)
        BY <1>1, <1>4, <2>3 DEF Id
      <3> QED BY <2>1, <3>1, BitsAssumption
    <2> QED BY <2>2, <2>3
  <1>7. m \in A /\ m \in Int /\ (\A y \in A : y <= m)
    BY <1>2, <1>3, <1>6
  <1>8. m \notin B /\ \A y \in B : y < m
    <2>1. CASE b = m_id
      BY <1>5, <2>1
    <2>2. CASE b # m_id
      <3> HIDE DEF m, B
      <3>1. id2i(b) \in Int /\ id2i(b) < m /\ m \in Int
        BY <1>2, <1>4, <1>7, <2>2 DEF m
      <3> QED BY <1>2, <1>4, <2>2, <3>1
    <2> QED BY <2>1, <2>2
  <1>9. Xor(a, b) = Xor(A, B)
    BY DEF Xor
  <1> HIDE DEF m, A, B
  <1>10. m \in Xor(a, b) /\ \A y \in Xor(a, b) : y <= m
    <2>1. m \in Xor(A, B) /\ \A y \in Xor(A, B) : y \in A \/ y \in B
      BY <1>7, <1>8 DEF Xor
    <2>2. \A y \in B : y <= m
      BY <1>2, <1>7, <1>8
    <2> QED BY <1>7, <1>9, <2>1, <2>2
  <1>11. Max(Xor(a, b)) = m
    BY <1>1, <1>10, MaxBitIs
  <1>12. a # b
    BY <1>10 DEF Xor
  <1> QED BY <1>1, <1>7, <1>8, <1>11, <1>12 DEF m, A, B

\* A node of a nearer row is nearer.
LEMMA RowsOrdered ==
    ASSUME NEW id \in Id, NEW a \in Id, NEW b \in Id, Before(id, id2i(a), id2i(b))
    PROVE  Closer(id, a, b)
  <1> DEFINE T == Xor(m_id, id)
  <1>1. CASE id2i(a) > id2i(b) /\ id2i(a) \in T
    <2>1. id2i(b) < id2i(a)
      <3>1. \A x \in Id : id2i(x) \in Int
        <4> TAKE x \in Id
        <4>1. CASE x = m_id
          BY <4>1 DEF id2i
        <4>2. CASE x # m_id
          <5>1. Xor(m_id, x) \in Id /\ Xor(m_id, x) # {}
            BY <4>2, IdAssumption, XorId
          <5>2. id2i(x) \in Xor(m_id, x)
            BY <4>2, <5>1, MaxBit DEF id2i
          <5> QED BY <5>1, <5>2, BitsAssumption DEF Id
        <4> QED BY <4>1, <4>2
      <3> QED BY <1>1, <3>1
    <2>2. a # b /\ Max(Xor(a, b)) = id2i(a) /\ id2i(a) \notin Xor(m_id, b)
      BY <2>1, RowsApart
    <2>3. id2i(a) \in Xor(b, id)
      BY <1>1, <2>2 DEF Xor
    <2> QED BY <2>2, <2>3 DEF Closer
  <1>2. CASE id2i(a) < id2i(b) /\ id2i(b) \notin T
    <2>1. a # b /\ Max(Xor(a, b)) = id2i(b) /\ id2i(b) \in Xor(m_id, b)
      BY <1>2, RowsApart
    <2>2. id2i(b) \in Xor(b, id)
      BY <1>2, <2>1 DEF Xor
    <2> QED BY <2>1, <2>2 DEF Closer
  <1> QED BY <1>1, <1>2 DEF Before

\* The places of the table are finitely many.
LEMMA SlotsFinite ==
    ASSUME TableInv, NEW is \in SUBSET AllRows
    PROVE  /\ IsFiniteSet(Slots(is)) /\ Size(is) \in Nat
           /\ \A s \in Slots(is) : /\ s[1] \in is /\ s[2] \in DOMAIN Row(s[1])
                                   /\ s = <<s[1], s[2]>> /\ s[2] \in 1..MaxEntry
           /\ \A i \in is : \A k \in DOMAIN Row(i) : <<i, k>> \in Slots(is)
  <1>1. MaxEntry \in Nat \ {0} /\ Bits \in Nat \ {0}
    BY RtAssumption, BitsAssumption
  <1>2. ASSUME NEW i \in AllRows PROVE DOMAIN Row(i) \subseteq 1..MaxEntry
    <2>1. CASE i = -1
      BY <1>1, <2>1 DEF Row
    <2>2. CASE i # -1
      <3>1. m_table[i] \in Seq(Id) /\ Len(m_table[i]) <= MaxEntry
        BY <2>2, TableFacts DEF AllRows
      <3>2. DOMAIN m_table[i] = 1..Len(m_table[i]) /\ Len(m_table[i]) \in Nat
        BY <3>1
      <3> QED BY <1>1, <2>2, <3>1, <3>2 DEF Row
    <2> QED BY <2>1, <2>2
  <1>3. \A s \in Slots(is) : /\ s[1] \in is /\ s[2] \in DOMAIN Row(s[1]) /\ s = <<s[1], s[2]>>
    BY DEF Slots
  <1>4. \A i \in is : \A k \in DOMAIN Row(i) : <<i, k>> \in Slots(is)
    BY DEF Slots
  <1>5. IsFiniteSet(AllRows \X (1..MaxEntry))
    <2>1. IsFiniteSet(1..MaxEntry) /\ IsFiniteSet((-1)..(Bits - 1))
      BY <1>1, FS_Interval
    <2>2. AllRows = (-1)..(Bits - 1)
      BY <1>1 DEF AllRows, Rows
    <2> QED BY <2>1, <2>2, FS_Product
  <1>6. Slots(is) \in SUBSET (AllRows \X (1..MaxEntry))
    BY <1>2, <1>3
  <1>7. IsFiniteSet(Slots(is))
    BY <1>5, <1>6, FS_Subset
  <1> QED BY <1>2, <1>3, <1>4, <1>7, FS_CardinalityType DEF Size

\* The places of more rows are as many or more, and those of other rows others.
LEMMA SizeOf ==
    ASSUME TableInv, NEW is \in SUBSET AllRows, NEW js \in SUBSET AllRows
    PROVE  /\ is \subseteq js => Size(is) <= Size(js)
           /\ is \cap js = {} => Size(is \cup js) = Size(is) + Size(js)
           /\ Size({-1}) = 1
  <1>1. IsFiniteSet(Slots(is)) /\ IsFiniteSet(Slots(js)) /\ Size(is) \in Nat /\ Size(js) \in Nat
    BY SlotsFinite
  <1>2. ASSUME is \subseteq js PROVE Size(is) <= Size(js)
    <2>1. Slots(is) \in SUBSET Slots(js)
      BY <1>2 DEF Slots
    <2> QED BY <1>1, <2>1, FS_Subset DEF Size
  <1>3. ASSUME is \cap js = {} PROVE Size(is \cup js) = Size(is) + Size(js)
    <2>1. Slots(is \cup js) = Slots(is) \cup Slots(js)
      BY DEF Slots
    <2>2. Slots(is) \cap Slots(js) = {}
      BY <1>3, SlotsFinite
    <2>3. Cardinality(Slots(is) \cup Slots(js))
            = Cardinality(Slots(is)) + Cardinality(Slots(js)) - Cardinality({})
      BY <1>1, <2>2, FS_Union
    <2>4. Cardinality({}) = 0
      BY FS_EmptySet
    <2>5. Size(is \cup js) = Size(is) + Size(js) - 0
      BY <2>1, <2>3, <2>4 DEF Size
    <2> QED BY <1>1, <2>5
  <1>4. Size({-1}) = 1
    <2>1. Row(-1) = <<m_id>> /\ DOMAIN Row(-1) = {1}
      BY DEF Row
    <2>2. Slots({-1}) = {<<-1, 1>>}
      BY <2>1 DEF Slots
    <2> QED BY <2>2, FS_Singleton DEF Size
  <1> QED BY <1>2, <1>3, <1>4

\* lookup() looks at the rows before which there are not yet num nodes.
LEMMA LookupRowsAre ==
    ASSUME TableInv, NEW id \in Id, NEW num \in Nat
    PROVE  LookupRows(id, num) = {i \in AllRows : Size(Pred(id, i)) < num}
  <1> DEFINE T == Xor(m_id, id)
             n(i) == Size({j \in T : j > i})
             rest(i) == Size({j \in Rows \ T : j < i})
  <1>1. T \in SUBSET Rows
    BY IdAssumption, XorId DEF Id, Rows
  <1>2. Rows \subseteq Int /\ -1 \notin Rows /\ \A i \in Rows : i > -1
    BY BitsAssumption DEF Rows
  <1>3. LookupRows(id, num) = {i \in T : n(i) < num} \cup (IF n(-1) < num THEN {-1} ELSE {})
               \cup {i \in Rows \ T : n(-1) + 1 < num /\ rest(i) < num - n(-1) - 1}
    BY DEF LookupRows
  <1>4. \A j, i : Before(id, j, i) <=> (j > i /\ j \in T) \/ (j < i /\ i \notin T)
    BY DEF Before
  <1> HIDE DEF T
  <1>5. ASSUME NEW i \in T PROVE Size(Pred(id, i)) = n(i)
    <2>1. Pred(id, i) = {j \in T : j > i}
      BY <1>1, <1>4 DEF Pred, AllRows
    <2> QED BY <2>1
  <1>6. Size(Pred(id, -1)) = n(-1)
    <2>1. \A j \in AllRows : Before(id, j, -1) <=> j \in T /\ j > -1
      BY <1>2, <1>4 DEF AllRows
    <2>2. Pred(id, -1) = {j \in T : j > -1}
      BY <1>1, <2>1 DEF Pred, AllRows
    <2> QED BY <2>2
  <1>7. ASSUME NEW i \in Rows \ T
        PROVE  /\ Size(Pred(id, i)) = (n(-1) + 1) + rest(i)
               /\ n(-1) \in Nat /\ rest(i) \in Nat
    <2> DEFINE A == {j \in T : j > -1}
               B == {j \in Rows \ T : j < i}
    <2>1. Pred(id, i) = (A \cup {-1}) \cup B
      <3>1. i \in Int /\ i > -1 /\ -1 < i
        BY <1>2
      <3>2. ASSUME NEW j \in Rows
            PROVE  Before(id, j, i) <=> j \in A \/ j \in B
        <4>1. j \in Int /\ j > -1
          BY <1>2
        <4>2. j = i \/ j > i \/ j < i
          BY <3>1, <4>1
        <4>3. j = i => ~ Before(id, j, i)
          BY <1>4, <3>1
        <4> QED BY <1>4, <3>1, <4>1, <4>2, <4>3
      <3>3. Before(id, -1, i)
        BY <1>4, <3>1
      <3>4. A \subseteq Rows /\ B \subseteq Rows
        BY <1>1
      <3> HIDE DEF A, B
      <3> QED BY <3>2, <3>3, <3>4 DEF Pred, AllRows
    <2>2. A \in SUBSET AllRows /\ B \in SUBSET AllRows /\ {-1} \in SUBSET AllRows
          /\ A \cup {-1} \in SUBSET AllRows
      BY <1>1 DEF AllRows
    <2>3. A \cap {-1} = {} /\ (A \cup {-1}) \cap B = {}
      BY <1>1, <1>2
    <2> HIDE DEF A, B
    <2>4. Size(A \cup {-1}) = Size(A) + 1
      BY <2>2, <2>3, SizeOf
    <2>5. Size((A \cup {-1}) \cup B) = Size(A \cup {-1}) + Size(B)
      BY <2>2, <2>3, SizeOf
    <2>6. Size(A) \in Nat /\ Size(B) \in Nat
      BY <2>2, SlotsFinite
    <2> QED BY <2>1, <2>4, <2>5, <2>6 DEF A, B
  <1> HIDE DEF n, rest
  <1>8. ASSUME NEW i \in AllRows
        PROVE  i \in LookupRows(id, num) <=> Size(Pred(id, i)) < num
    <2>1. CASE i \in T
      BY <1>1, <1>2, <1>3, <1>5, <2>1
    <2>2. CASE i = -1
      BY <1>1, <1>2, <1>3, <1>6, <2>2
    <2>3. CASE i \in Rows \ T
      <3>1. i # -1 /\ i \notin T
        BY <1>2, <2>3
      <3>2. i \in LookupRows(id, num) <=> n(-1) + 1 < num /\ rest(i) < num - n(-1) - 1
        BY <1>3, <2>3, <3>1
      <3> QED BY <1>7, <2>3, <3>2
    <2> QED BY <2>1, <2>2, <2>3 DEF AllRows
  <1>9. LookupRows(id, num) \subseteq AllRows
    BY <1>1, <1>3 DEF AllRows
  <1> QED BY <1>8, <1>9

\* Every node of the table and this node are in one place each.
LEMMA NodeOfSlot ==
    ASSUME TableInv, ~ raced
    PROVE  /\ \A s \in Slots(AllRows) : At(s) \in Id /\ id2i(At(s)) = s[1]
           /\ \A s, t \in Slots(AllRows) : At(s) = At(t) => s = t
           /\ {At(s) : s \in Slots(AllRows)} = m_nodes \cup {m_id}
  <1>0. -1 \notin Rows
    BY BitsAssumption DEF Rows
  <1>1. ASSUME NEW s \in Slots(AllRows)
        PROVE  /\ s[1] \in AllRows /\ s[2] \in DOMAIN Row(s[1]) /\ s = <<s[1], s[2]>>
               /\ s[1] = -1 => At(s) = m_id /\ s[2] = 1
               /\ s[1] # -1 => /\ s[1] \in Rows /\ At(s) = m_table[s[1]][s[2]]
                              /\ s[2] \in DOMAIN m_table[s[1]]
                              /\ At(s) \in ToSet(m_table[s[1]])
    <2>1. s[1] \in AllRows /\ s[2] \in DOMAIN Row(s[1]) /\ s = <<s[1], s[2]>>
      BY SlotsFinite
    <2>2. ASSUME s[1] = -1 PROVE At(s) = m_id /\ s[2] = 1
      <3>1. Row(s[1]) = <<m_id>> /\ DOMAIN Row(s[1]) = {1}
        BY <2>2 DEF Row
      <3> QED BY <2>1, <3>1 DEF At
    <2>3. ASSUME s[1] # -1
          PROVE  /\ s[1] \in Rows /\ At(s) = m_table[s[1]][s[2]]
                 /\ s[2] \in DOMAIN m_table[s[1]] /\ At(s) \in ToSet(m_table[s[1]])
      BY <2>1, <2>3 DEF AllRows, Row, At, ToSet
    <2> QED BY <2>1, <2>2, <2>3
  <1>2. ASSUME NEW s \in Slots(AllRows) PROVE At(s) \in Id /\ id2i(At(s)) = s[1]
    <2>1. CASE s[1] = -1
      BY <1>1, <2>1, IdAssumption DEF id2i
    <2>2. CASE s[1] # -1
      <3>1. m_table[s[1]] \in Seq(Id) /\ \A a \in ToSet(m_table[s[1]]) : id2i(a) = s[1]
        BY <1>1, <2>2, TableFacts
      <3>2. At(s) \in Id
        BY <1>1, <2>2, <3>1
      <3> QED BY <1>1, <2>2, <3>1, <3>2
    <2> QED BY <2>1, <2>2
  <1>3. ASSUME NEW s \in Slots(AllRows), NEW t \in Slots(AllRows), At(s) = At(t) PROVE s = t
    <2>1. s[1] = t[1] /\ s = <<s[1], s[2]>> /\ t = <<t[1], t[2]>>
      BY <1>1, <1>2, <1>3
    <2>2. s[2] = t[2]
      <3>1. CASE s[1] = -1
        BY <1>1, <2>1, <3>1
      <3>2. CASE s[1] # -1
        <4>1. IsInjective(m_table[s[1]])
          BY <1>1, <3>2, TableFacts
        <4> QED BY <1>1, <1>3, <2>1, <3>2, <4>1 DEF IsInjective
      <3> QED BY <3>1, <3>2
    <2> QED BY <2>1, <2>2
  <1>4. ASSUME NEW a \in m_nodes PROVE \E s \in Slots(AllRows) : At(s) = a
    <2>1. PICK i \in Rows : a \in ToSet(m_table[i])
      BY TableFacts
    <2>2. PICK k \in DOMAIN m_table[i] : a = m_table[i][k]
      BY <2>1 DEF ToSet
    <2>3. Row(i) = m_table[i] /\ i \in AllRows
      BY <1>0 DEF Row, AllRows
    <2>4. <<i, k>> \in Slots(AllRows)
      BY <2>3, SlotsFinite
    <2> QED BY <2>2, <2>3, <2>4 DEF At
  <1>5. \E s \in Slots(AllRows) : At(s) = m_id
    <2>1. Row(-1) = <<m_id>> /\ 1 \in DOMAIN Row(-1) /\ Row(-1)[1] = m_id /\ -1 \in AllRows
      BY DEF Row, AllRows
    <2>2. <<-1, 1>> \in Slots(AllRows)
      BY <2>1, SlotsFinite
    <2> QED BY <2>1, <2>2 DEF At
  <1>6. ASSUME NEW s \in Slots(AllRows) PROVE At(s) \in m_nodes \cup {m_id}
    <2>1. CASE s[1] = -1
      BY <1>1, <2>1
    <2>2. CASE s[1] # -1
      BY <1>1, <2>2, TableFacts
    <2> QED BY <2>1, <2>2
  <1> QED BY <1>2, <1>3, <1>4, <1>5, <1>6

\* Some places have as many nodes.
LEMMA SlotImage ==
    ASSUME TableInv, ~ raced, NEW P \in SUBSET Slots(AllRows)
    PROVE  /\ IsFiniteSet(P) /\ IsFiniteSet({At(s) : s \in P})
           /\ Cardinality({At(s) : s \in P}) = Cardinality(P)
  <1> DEFINE f == [s \in P |-> At(s)]
  <1>1. IsFiniteSet(P)
    <2>1. AllRows \in SUBSET AllRows
      OBVIOUS
    <2> QED BY <2>1, SlotsFinite, FS_Subset
  <1>2. DOMAIN f = P /\ \A x, y \in P : f[x] = f[y] => x = y
    BY NodeOfSlot
  <1>3. {f[s] : s \in P} = {At(s) : s \in P}
    OBVIOUS
  <1> HIDE DEF f
  <1>4. IsFiniteSet({f[s] : s \in P}) /\ Cardinality({f[s] : s \in P}) = Cardinality(P)
    BY <1>1, <1>2, ImageSize
  <1> QED BY <1>1, <1>3, <1>4

\* A node that lookup() does not look at has num nodes before it, and what is
\* nearer than a node that it looks at it looks at too.
LEMMA LookupCut ==
    ASSUME TableInv, ~ raced, NEW id \in Id, NEW num \in Nat,
           NEW s \in Slots(AllRows), NEW t \in Slots(AllRows)
    PROVE  /\ s[1] \notin LookupRows(id, num) => num < Rank(id, m_nodes \cup {m_id}, At(s))
           /\ s[1] \in LookupRows(id, num) /\ Closer(id, At(t), At(s))
                => t[1] \in LookupRows(id, num)
  <1> DEFINE S == m_nodes \cup {m_id}
             Below == {b \in S : Closer(id, b, At(s))}
             P == Slots(Pred(id, s[1]))
  <1>1. /\ At(s) \in Id /\ id2i(At(s)) = s[1] /\ At(t) \in Id /\ id2i(At(t)) = t[1]
        /\ s[1] \in AllRows /\ t[1] \in AllRows
    <2>1. AllRows \in SUBSET AllRows
      OBVIOUS
    <2> QED BY <2>1, NodeOfSlot, SlotsFinite
  <1>2. Pred(id, s[1]) \in SUBSET AllRows /\ Pred(id, t[1]) \in SUBSET AllRows
    BY DEF Pred
  <1>3. P \in SUBSET Slots(AllRows) /\ \A r \in P : r[1] \in Pred(id, s[1])
    <2>1. \A r \in P : r[1] \in Pred(id, s[1])
      BY <1>2, SlotsFinite
    <2> QED BY <1>2, <2>1 DEF Slots
  <1>4. S = {At(r) : r \in Slots(AllRows)}
    BY NodeOfSlot
  <1>5. Size(Pred(id, s[1])) \in Nat /\ Size(Pred(id, t[1])) \in Nat
    BY <1>2, SlotsFinite
  <1>6. IsFiniteSet(S) /\ S \in SUBSET Id
    <2>1. S \in SUBSET Id
      BY TableFacts, IdAssumption
    <2> QED BY <2>1, IdFinite
  <1>7. \A i \in AllRows : i \in LookupRows(id, num) <=> Size(Pred(id, i)) < num
    BY LookupRowsAre
  <1>8. ASSUME s[1] \notin LookupRows(id, num) PROVE num < Rank(id, S, At(s))
    <2>1. {At(r) : r \in P} \subseteq Below
      <3> SUFFICES ASSUME NEW r \in P PROVE At(r) \in Below
        OBVIOUS
      <3>1. r \in Slots(AllRows) /\ Before(id, r[1], s[1])
        BY <1>3 DEF Pred
      <3>2. At(r) \in Id /\ id2i(At(r)) = r[1] /\ At(r) \in S
        BY <1>4, <3>1, NodeOfSlot
      <3>3. Closer(id, At(r), At(s))
        BY <1>1, <3>1, <3>2, RowsOrdered
      <3> QED BY <3>2, <3>3
    <2>2. Cardinality({At(r) : r \in P}) = Size(Pred(id, s[1]))
      BY <1>3, SlotImage DEF Size
    <2>3. IsFiniteSet(Below)
      BY <1>6, FS_Subset
    <2> HIDE DEF Below, P
    <2>4. Cardinality({At(r) : r \in P}) <= Cardinality(Below) /\ Cardinality(Below) \in Nat
      BY <2>1, <2>3, FS_Subset, FS_CardinalityType
    <2>5. ~ (Size(Pred(id, s[1])) < num)
      BY <1>1, <1>7, <1>8
    <2>6. Rank(id, S, At(s)) = 1 + Cardinality(Below)
      BY DEF Rank, Below
    <2> QED BY <1>5, <2>2, <2>4, <2>5, <2>6
  <1>9. ASSUME s[1] \in LookupRows(id, num), Closer(id, At(t), At(s))
        PROVE  t[1] \in LookupRows(id, num)
    <2>1. CASE t[1] = s[1]
      BY <1>9, <2>1
    <2>2. CASE Before(id, s[1], t[1])
      <3>1. Closer(id, At(s), At(t))
        BY <1>1, <2>2, RowsOrdered
      <3> QED BY <1>1, <1>9, <3>1, CloserTotal
    <2>3. CASE Before(id, t[1], s[1])
      <3>1. Pred(id, t[1]) \subseteq Pred(id, s[1])
        BY <1>1, <2>3, BeforeOrder DEF Pred
      <3>2. Size(Pred(id, t[1])) <= Size(Pred(id, s[1]))
        BY <1>2, <3>1, SizeOf
      <3>3. Size(Pred(id, s[1])) < num
        BY <1>1, <1>7, <1>9
      <3>4. Size(Pred(id, t[1])) < num
        BY <1>5, <3>2, <3>3
      <3> QED BY <1>1, <1>7, <3>4
    <2> QED BY <1>1, <2>1, <2>2, <2>3, BeforeOrder
  <1> QED BY <1>8, <1>9

\* The places found are enough for num of the nodes of S: a rank among their nodes is a rank
\* in S, and every rank up to num is that of one of them.
Enough(id, num, S, found) ==
    /\ S \in SUBSET Id /\ IsFiniteSet(S)
    /\ \A s \in found : At(s) \in S /\ Cardinality(Upto(id, found, s)) = Rank(id, S, At(s))
    /\ \A k \in 1..Cardinality(S) : k <= num => \E s \in found : Rank(id, S, At(s)) = k
    /\ Min({num, Cardinality(found)}) = IF num <= Cardinality(S) THEN num ELSE Cardinality(S)

\* lookup() looks at enough places.
LEMMA LookupRanks ==
    ASSUME TableInv, ~ raced, NEW id \in Id, NEW num \in Nat, NEW S, S = m_nodes \cup {m_id},
           NEW found, found = Slots(LookupRows(id, num))
    PROVE  Enough(id, num, S, found)
  <1>1. S \in SUBSET Id /\ IsFiniteSet(S) /\ Cardinality(S) \in Nat
    <2>1. S \in SUBSET Id
      BY TableFacts, IdAssumption
    <2> QED BY <2>1, IdFinite, FS_CardinalityType
  <1>2. S = {At(s) : s \in Slots(AllRows)}
    BY NodeOfSlot
  <1>3. LookupRows(id, num) \in SUBSET AllRows
    BY LookupRowsAre
  <1>4. /\ found \in SUBSET Slots(AllRows)
        /\ \A s \in Slots(AllRows) : s \in found <=> s[1] \in LookupRows(id, num)
    <2>1. \A s \in found : s[1] \in LookupRows(id, num)
      BY <1>3, SlotsFinite
    <2>2. AllRows \in SUBSET AllRows
      OBVIOUS
    <2>3. \A s \in Slots(AllRows) : s[2] \in DOMAIN Row(s[1]) /\ s = <<s[1], s[2]>>
      BY <2>2, SlotsFinite
    <2>4. ASSUME NEW s \in Slots(AllRows), s[1] \in LookupRows(id, num) PROVE s \in found
      <3>1. <<s[1], s[2]>> \in Slots(LookupRows(id, num))
        BY <1>3, <2>3, <2>4, SlotsFinite
      <3> QED BY <2>3, <3>1
    <2>5. found \in SUBSET Slots(AllRows)
      BY <1>3 DEF Slots
    <2> QED BY <2>1, <2>4, <2>5
  <1>5. \A s \in found : At(s) \in S /\ At(s) \in Id
    BY <1>1, <1>2, <1>4
  <1>6. ASSUME NEW s \in found
        PROVE  Cardinality(Upto(id, found, s)) = Rank(id, S, At(s))
    <2> DEFINE U == Upto(id, found, s)
               Below == {b \in S : Closer(id, b, At(s))}
    <2>1. s[2] <= s[2] /\ \A t \in found : At(t) = At(s) => t = s
      <3>1. AllRows \in SUBSET AllRows /\ s \in Slots(AllRows)
        BY <1>4
      <3>2. s[2] \in 1..MaxEntry
        BY <3>1, SlotsFinite
      <3>3. s[2] <= s[2]
        BY <3>2
      <3> QED BY <1>4, <3>3, NodeOfSlot
    <2>2. {At(t) : t \in U} = Below \cup {At(s)}
      <3>1. ASSUME NEW t \in U PROVE At(t) \in Below \cup {At(s)}
        BY <1>5 DEF Upto
      <3>2. ASSUME NEW b \in Below PROVE \E t \in U : At(t) = b
        <4>1. PICK t \in Slots(AllRows) : At(t) = b
          BY <1>2
        <4>2. t[1] \in LookupRows(id, num)
          BY <1>4, <4>1, LookupCut
        <4> QED BY <1>4, <4>1, <4>2 DEF Upto
      <3>3. s \in U
        BY <2>1 DEF Upto
      <3> HIDE DEF U, Below
      <3> QED BY <3>1, <3>2, <3>3
    <2>3. U \in SUBSET Slots(AllRows)
      BY <1>4 DEF Upto
    <2>4. IsFiniteSet(Below) /\ At(s) \notin Below
      <3>1. Below \in SUBSET S
        OBVIOUS
      <3>2. At(s) \notin Below
        BY <1>5, CloserTotal
      <3> HIDE DEF Below
      <3> QED BY <1>1, <3>1, <3>2, FS_Subset
    <2>5. Rank(id, S, At(s)) = 1 + Cardinality(Below)
      BY DEF Rank
    <2> HIDE DEF U, Below
    <2>6. Cardinality(U) = Cardinality(Below \cup {At(s)})
      BY <2>2, <2>3, SlotImage
    <2>7. Cardinality(Below \cup {At(s)}) = Cardinality(Below) + 1 /\ Cardinality(Below) \in Nat
      BY <2>4, FS_AddElement, FS_CardinalityType
    <2>8. Cardinality(U) = Rank(id, S, At(s))
      BY <2>5, <2>6, <2>7
    <2> QED BY <2>8 DEF U
  <1>7. ASSUME NEW k \in 1..Cardinality(S), k <= num
        PROVE  \E s \in found : Rank(id, S, At(s)) = k
    <2>1. PICK a \in S : Rank(id, S, a) = k
      BY <1>1, RankOnto
    <2>2. PICK s \in Slots(AllRows) : At(s) = a
      BY <1>2
    <2>3. ~ (num < Rank(id, S, At(s)))
      BY <1>7, <2>1, <2>2, <1>1
    <2>4. s[1] \in LookupRows(id, num)
      BY <2>3, LookupCut
    <2> QED BY <1>4, <2>1, <2>2, <2>4
  <1>8. Min({num, Cardinality(found)}) = IF num <= Cardinality(S) THEN num ELSE Cardinality(S)
    <2> DEFINE F == {At(s) : s \in found}
               n == IF num <= Cardinality(S) THEN num ELSE Cardinality(S)
               f == [a \in F |-> Rank(id, S, a)]
    <2>1. IsFiniteSet(F) /\ Cardinality(F) = Cardinality(found)
      BY <1>4, SlotImage
    <2>2. F \in SUBSET S
      BY <1>5
    <2>3. n \in Nat /\ n <= Cardinality(S) /\ n <= num
      BY <1>1
    <2>4. \A k \in 1..n : \E a \in F : f[a] = k
      <3> SUFFICES ASSUME NEW k \in 1..n PROVE \E a \in F : f[a] = k
        OBVIOUS
      <3>1. k \in 1..Cardinality(S) /\ k <= num
        BY <1>1, <2>3
      <3>2. PICK s \in found : Rank(id, S, At(s)) = k
        BY <1>7, <3>1
      <3> QED BY <3>2
    <2>5. DOMAIN f = F /\ \A x, y \in F : f[x] = f[y] => x = y
      BY <1>1, <2>2, RankOrder
    <2> HIDE DEF F, f, n
    <2>6. IsFiniteSet({f[a] : a \in F}) /\ Cardinality({f[a] : a \in F}) = Cardinality(F)
      BY <2>1, <2>5, ImageSize
    <2>7. IsFiniteSet(1..n) /\ Cardinality(1..n) = n
      <3>1. IsFiniteSet(1..n) /\ Cardinality(1..n) = IF 1 > n THEN 0 ELSE n - 1 + 1
        BY <2>3, FS_Interval
      <3> QED BY <2>3, <3>1
    <2> DEFINE R == {f[a] : a \in F}
    <2>8. 1..n \in SUBSET R
      BY <2>4
    <2>9. n <= Cardinality(F)
      <3> HIDE DEF R
      <3>1. IsFiniteSet(R) /\ Cardinality(R) = Cardinality(F)
        BY <2>6 DEF R
      <3>2. Cardinality(1..n) <= Cardinality(R)
        BY <2>8, <3>1, FS_Subset
      <3> QED BY <2>7, <3>1, <3>2
    <2>10. Cardinality(F) <= Cardinality(S) /\ Cardinality(F) \in Nat
      BY <1>1, <2>1, <2>2, FS_Subset, FS_CardinalityType
    <2>11. Min({num, Cardinality(found)})
             = IF num <= Cardinality(found) THEN num ELSE Cardinality(found)
      BY <2>1, <2>10, MinOfTwo
    <2>12. n = IF num <= Cardinality(S) THEN num ELSE Cardinality(S)
      BY DEF n
    <2> QED BY <1>1, <2>1, <2>9, <2>10, <2>11, <2>12
  <1> QED BY <1>1, <1>5, <1>6, <1>7, <1>8 DEF Enough

\* lookup() in a table that is in order.
LEMMA LookupIsExact ==
    ASSUME TableInv, ~ raced, NEW id \in Id, NEW num \in Nat
    PROVE  rttable_lookup(id, num) = Closest(id, m_nodes \cup {m_id}, num)
  <1> DEFINE S == m_nodes \cup {m_id}
             found == Slots(LookupRows(id, num))
             rank == [s \in found |-> Cardinality(Upto(id, found, s))]
             n == IF num <= Cardinality(S) THEN num ELSE Cardinality(S)
             c == Closest(id, S, num)
             l == rttable_lookup(id, num)
  <1>1. l = [k \in 1..Min({num, Cardinality(found)}) |-> At(CHOOSE s \in found : rank[s] = k)]
    BY DEF rttable_lookup, Upto
  <1>0. S = m_nodes \cup {m_id} /\ found = Slots(LookupRows(id, num))
    OBVIOUS
  <1> HIDE DEF S, found, l
  <1>2. /\ S \in SUBSET Id /\ IsFiniteSet(S)
        /\ \A s \in found : Cardinality(Upto(id, found, s)) = Rank(id, S, At(s)) /\ At(s) \in S
        /\ \A k \in 1..Cardinality(S) : k <= num => \E s \in found : Rank(id, S, At(s)) = k
        /\ Min({num, Cardinality(found)}) = n
    <2>1. Enough(id, num, S, found)
      BY <1>0, LookupRanks
    <2> QED BY <2>1 DEF Enough
  <1>3. \A s \in found : rank[s] = Rank(id, S, At(s))
    BY <1>2
  <1>4. n \in Nat /\ \A k \in 1..n : k \in 1..Cardinality(S) /\ k <= num
    <2>1. Cardinality(S) \in Nat
      BY <1>2, FS_CardinalityType
    <2> QED BY <2>1
  <1>5. /\ DOMAIN c = 1..n
        /\ \A k \in DOMAIN c : c[k] \in S /\ Rank(id, S, c[k]) = k
        /\ c = [k \in DOMAIN c |-> c[k]]
    <2>1. DOMAIN c = 1..n
      BY <1>2, ClosestRank
    <2>2. \A k \in DOMAIN c : c[k] \in S /\ Rank(id, S, c[k]) = k
      BY <1>2, ClosestRank
    <2>3. c = [k \in DOMAIN c |-> c[k]]
      BY <1>2, ClosestRank
    <2> HIDE DEF c, n
    <2> QED BY <2>1, <2>2, <2>3
  <1> HIDE DEF rank, n, c
  <1>6. ASSUME NEW k \in 1..n PROVE At(CHOOSE s \in found : rank[s] = k) = c[k]
    <2> DEFINE s == CHOOSE s \in found : rank[s] = k
    <2>1. \E r \in found : rank[r] = k
      BY <1>2, <1>3, <1>4
    <2>2. s \in found /\ rank[s] = k
      BY <2>1
    <2> HIDE DEF s
    <2>3. At(s) \in S /\ Rank(id, S, At(s)) = k
      BY <1>2, <1>3, <2>2
    <2>4. c[k] \in S /\ Rank(id, S, c[k]) = k
      BY <1>5
    <2>5. At(s) = c[k]
      BY <1>2, <2>3, <2>4, RankOrder
    <2> QED BY <2>5 DEF s
  <1>7. l = [k \in 1..n |-> At(CHOOSE s \in found : rank[s] = k)]
    BY <1>1, <1>2
  <1>8. l = [k \in 1..n |-> c[k]]
    BY <1>6, <1>7
  <1>9. l = c
    BY <1>5, <1>8
  <1> QED BY <1>9 DEF l, c, S

\* lookup() finds the nodes of the table, and this one, that are closest to any identifier,
\* although it stops at the first rows that have enough of them (id2i4lookup, id2i4lookupR):
\* as long as no node was removed from a row with a ping under way.
THEOREM LookupExactness == RtSpec => []LookupExact
  <1>1. TableInv => LookupExact
    <2> SUFFICES ASSUME TableInv, ~ raced, NEW id \in Id, NEW num \in 1..MaxNum
                 PROVE  rttable_lookup(id, num) = Closest(id, m_nodes \cup {m_id}, num)
      BY DEF LookupExact
    <2>1. num \in Nat
      BY RtAssumption
    <2> QED BY <2>1, LookupIsExact
  <1> QED BY <1>1, TableInvariance, PTL
-----------------------------------------------------------------------------
(* The lookups of the tunnel network (DtunQuery), by a node with the same  *)
(* peers.                                                                  *)

DtQuery == [active: BOOLEAN, kind: {"none", "boot", "node", "value"}, dst: Id, nodes: Seq(Node),
            sent: SUBSET Id, timers: SUBSET Id, num_query: Nat, told: SUBSET Node,
            expired: BOOLEAN, late: BOOLEAN, calls: Nat, found: BOOLEAN]

\* The list of a query is sorted and not too long.
Listed(q) == Nearest(q.dst, ToSet(q.nodes), NumFindNode, q.nodes)

\* What holds of an open query before and after send_find().
DtOpen(q) ==
    /\ q \in DtQuery /\ q.active /\ q.kind # "none" /\ q.calls = 0 /\ ~ q.found
    /\ Listed(q) /\ Best(q)
    /\ q.timers \subseteq q.sent \cup {Zero} /\ m_id \in q.sent
    /\ q.num_query <= Cardinality(q.timers) /\ q.num_query <= MaxQuery
    /\ ~ q.late => q.num_query = Cardinality(q.timers)
    /\ q.kind = "value" /\ ~ q.late /\ ~ q.expired => q.sent \cap Holders \subseteq q.timers

\* What a query ends with.
DtDone(q) ==
    /\ q \in DtQuery /\ ~ q.active /\ q.kind # "none" /\ q.calls = 1 /\ Listed(q)
    /\ ~ q.expired /\ ~ q.late /\ ~ q.found =>
         q.timers = {} /\ ToSet(q.nodes) \subseteq q.sent /\ Best(q)
    /\ q.kind = "value" /\ ~ q.expired /\ ~ q.late /\ ~ q.found => q.sent \cap Holders = {}

DtQueryOK(q) == q = NoDtunQuery \/ (DtOpen(q) /\ q.num_query > 0) \/ DtDone(q)

\* The types of an open query, and how many of its timers run.
LEMMA DtOpenTypes ==
    ASSUME NEW q, DtOpen(q)
    PROVE  /\ q \in DtQuery /\ q.dst \in Id /\ q.nodes \in Seq(Node) /\ q.told \in SUBSET Node
           /\ q.sent \in SUBSET Id /\ q.timers \in SUBSET Id /\ q.num_query \in Nat
           /\ Sorted(q.dst, q.nodes) /\ Len(q.nodes) <= NumFindNode
           /\ IsFiniteSet(q.timers) /\ Cardinality(q.timers) \in Nat
           /\ MaxQuery \in Nat /\ NumFindNode \in Nat
  <1>1. q \in DtQuery /\ MaxQuery \in Nat /\ NumFindNode \in Nat
    BY LookupAssumption, IdAssumption, DhtQueryAssumption DEF DtOpen
  <1>2. /\ q.dst \in Id /\ q.nodes \in Seq(Node) /\ q.told \in SUBSET Node
        /\ q.sent \in SUBSET Id /\ q.timers \in SUBSET Id /\ q.num_query \in Nat
    BY <1>1 DEF DtQuery
  <1>3. IsFiniteSet(q.timers) /\ Cardinality(q.timers) \in Nat
    BY <1>2, IdFinite, FS_CardinalityType
  <1>4. Sorted(q.dst, q.nodes)
    BY DEF DtOpen, Listed, Nearest
  <1>5. Len(q.nodes) <= NumFindNode
    <2>1. q.nodes \in Seq(Id)
      BY <1>2, NodesAreIds
    <2>2. Len(q.nodes) = Cardinality(ToSet(q.nodes)) /\ Len(q.nodes) \in Nat
      BY <1>2, <1>4, <2>1, SortedSize
    <2>3. Len(q.nodes) = IF NumFindNode <= Cardinality(ToSet(q.nodes))
                         THEN NumFindNode ELSE Cardinality(ToSet(q.nodes))
      BY DEF DtOpen, Listed, Nearest
    <2> QED BY <1>1, <2>2, <2>3
  <1> QED BY <1>1, <1>2, <1>3, <1>4, <1>5

\* A sorted list that is not too long is the one of its nodes.
LEMMA ListedIf ==
    ASSUME NEW id \in Id, NEW s \in Seq(Node), Sorted(id, s), Len(s) <= NumFindNode
    PROVE  Nearest(id, ToSet(s), NumFindNode, s)
  <1>1. s \in Seq(Id) /\ Len(s) \in Nat /\ DOMAIN s = 1..Len(s) /\ NumFindNode \in Nat
    BY NodesAreIds, LookupAssumption, IdAssumption, DhtQueryAssumption
  <1>2. Cardinality(ToSet(s)) = Len(s)
    BY <1>1, SortedSize
  <1>3. s \in Seq(ToSet(s))
    <2>1. \A k \in 1..Len(s) : s[k] \in ToSet(s)
      BY <1>1 DEF ToSet
    <2> QED BY <1>1, <2>1
  <1>4. Len(s) = IF NumFindNode <= Cardinality(ToSet(s)) THEN NumFindNode
                 ELSE Cardinality(ToSet(s))
    <2> DEFINE n == Len(s)
               c == Cardinality(ToSet(s))
    <2>1. n \in Nat /\ n <= NumFindNode /\ c = n /\ NumFindNode \in Nat
      BY <1>1, <1>2
    <2> HIDE DEF n, c
    <2>2. n = IF NumFindNode <= c THEN NumFindNode ELSE c
      BY <2>1
    <2> QED BY <2>2 DEF n, c
  <1> QED BY <1>3, <1>4 DEF Nearest

\* The query after send_find().
DtAsked(q) ==
    LET ask == ToAsk(q)
        r == [q EXCEPT !.timers = @ \cup ask, !.sent = @ \cup ask,
                       !.num_query = @ + Cardinality(ask)]
    IN  IF r.num_query = 0 THEN Finish(r, FALSE) ELSE r

LEMMA DtAskedOK ==
    ASSUME NEW q, DtOpen(q)
    PROVE  /\ DtQueryOK(DtAsked(q)) /\ Kept(q, DtAsked(q))
           /\ ToAsk(q) \subseteq Peers
  <1> DEFINE ask == ToAsk(q)
             r == [q EXCEPT !.timers = q.timers \cup ask, !.sent = q.sent \cup ask,
                            !.num_query = q.num_query + Cardinality(ask)]
  <1>1. /\ q \in DtQuery /\ q.dst \in Id /\ q.nodes \in Seq(Node)
        /\ q.sent \in SUBSET Id /\ q.timers \in SUBSET Id /\ q.num_query \in Nat
        /\ Sorted(q.dst, q.nodes) /\ MaxQuery \in Nat
        /\ IsFiniteSet(q.timers) /\ Cardinality(q.timers) \in Nat
    BY DtOpenTypes
  <1>2. DtAsked(q) = IF r.num_query = 0 THEN Finish(r, FALSE) ELSE r
    BY DEF DtAsked
  <1>3. /\ ask \subseteq Peers
        /\ ask \cap q.sent = {} /\ ask \cap q.timers = {}
        /\ IsFiniteSet(ask) /\ Cardinality(ask) \in Nat
        /\ Cardinality(ask) <= MaxQuery - q.num_query
        /\ q.num_query = 0 /\ ask = {} => ToSet(q.nodes) \subseteq q.sent
    <2>1. q.timers \subseteq q.sent \cup {Zero} /\ m_id \in q.sent /\ q.num_query <= MaxQuery
      BY DEF DtOpen
    <2> HIDE DEF ask
    <2> QED BY <1>1, <2>1, ToAskFacts DEF ask
  <1> HIDE DEF ask
  <1>4. /\ r.timers = q.timers \cup ask /\ r.sent = q.sent \cup ask
        /\ r.num_query = q.num_query + Cardinality(ask)
        /\ r.active = q.active /\ r.kind = q.kind /\ r.dst = q.dst /\ r.nodes = q.nodes
        /\ r.told = q.told /\ r.expired = q.expired /\ r.late = q.late
        /\ r.calls = q.calls /\ r.found = q.found
    BY <1>1 DEF DtQuery
  <1>5. r \in DtQuery
    <2>1. /\ q.timers \cup ask \in SUBSET Id /\ q.sent \cup ask \in SUBSET Id
          /\ q.num_query + Cardinality(ask) \in Nat
      BY <1>1, <1>3, NodesAreIds
    <2> QED BY <1>1, <2>1 DEF DtQuery
  <1> HIDE DEF r
  <1>6. Cardinality(r.timers) = Cardinality(q.timers) + Cardinality(ask)
    <2>1. Cardinality(q.timers \cap ask) = 0
      BY <1>3, FS_EmptySet
    <2>2. Cardinality(q.timers \cup ask) =
             Cardinality(q.timers) + Cardinality(ask) - Cardinality(q.timers \cap ask)
      BY <1>1, <1>3, FS_Union
    <2> QED BY <1>1, <1>3, <1>4, <2>1, <2>2
  <1>7. DtOpen(r)
    <2>1. /\ r.num_query <= Cardinality(r.timers) /\ r.num_query <= MaxQuery
          /\ ~ r.late => r.num_query = Cardinality(r.timers)
      BY <1>1, <1>3, <1>4, <1>6 DEF DtOpen
    <2>2. /\ r.timers \subseteq r.sent \cup {Zero} /\ m_id \in r.sent
          /\ r.kind = "value" /\ ~ r.late /\ ~ r.expired => r.sent \cap Holders \subseteq r.timers
      BY <1>4 DEF DtOpen
    <2>3. Listed(r) /\ Best(r)
      BY <1>4 DEF DtOpen, Listed, Best
    <2> QED BY <1>4, <1>5, <2>1, <2>2, <2>3 DEF DtOpen
  <1>8. Kept(q, r)
    BY <1>4 DEF Kept
  <1>9. CASE r.num_query # 0
    <2>1. r.num_query > 0
      BY <1>1, <1>3, <1>4, <1>9
    <2> QED BY <1>2, <1>3, <1>7, <1>8, <1>9, <2>1 DEF DtQueryOK, ask
  <1>10. CASE r.num_query = 0
    <2> DEFINE d == [r EXCEPT !.active = FALSE, !.calls = 1, !.found = FALSE]
    <2>1. DtAsked(q) = d
      BY <1>2, <1>4, <1>10 DEF Finish, DtOpen
    <2>2. /\ d \in DtQuery /\ d.active = FALSE /\ d.calls = 1 /\ d.found = FALSE
          /\ d.timers = r.timers /\ d.sent = r.sent /\ d.kind = r.kind /\ d.dst = r.dst
          /\ d.nodes = r.nodes /\ d.told = r.told /\ d.expired = r.expired /\ d.late = r.late
      <3> DEFINE one == 1
      <3>1. one \in Nat /\ d = [r EXCEPT !.active = FALSE, !.calls = one, !.found = FALSE]
        OBVIOUS
      <3>2. d.active = FALSE /\ d.calls = 1 /\ d.found = FALSE
        BY <1>5 DEF DtQuery
      <3>3. /\ d.timers = r.timers /\ d.sent = r.sent /\ d.kind = r.kind /\ d.dst = r.dst
            /\ d.nodes = r.nodes /\ d.told = r.told /\ d.expired = r.expired /\ d.late = r.late
        BY <1>5 DEF DtQuery
      <3> HIDE DEF one, d
      <3>4. d \in DtQuery
        BY <1>5, <3>1 DEF DtQuery
      <3> QED BY <3>2, <3>3, <3>4
    <2> HIDE DEF d
    <2>3. q.num_query = 0 /\ Cardinality(ask) = 0
      BY <1>1, <1>3, <1>4, <1>10
    <2>4. ask = {} /\ ToSet(d.nodes) \subseteq d.sent
      BY <1>3, <1>4, <2>2, <2>3, FS_EmptySet
    <2>5. ~ d.late => d.timers = {}
      <3>1. ~ r.late => Cardinality(r.timers) = 0 /\ IsFiniteSet(r.timers)
        BY <1>7, <1>10, DtOpenTypes DEF DtOpen
      <3> QED BY <2>2, <3>1, FS_EmptySet
    <2>6. Listed(d) /\ Best(d)
      BY <1>7, <2>2 DEF DtOpen, Listed, Best
    <2>7. d.kind = "value" /\ ~ d.expired /\ ~ d.late => d.sent \cap Holders = {}
      BY <1>7, <2>2, <2>5 DEF DtOpen
    <2>8. DtDone(d)
      BY <1>7, <2>2, <2>4, <2>5, <2>6, <2>7 DEF DtDone, DtOpen
    <2>9. Kept(q, d)
      BY <1>8, <2>2 DEF Kept
    <2> QED BY <1>3, <2>1, <2>8, <2>9 DEF DtQueryOK, ask
  <1> QED BY <1>9, <1>10

\* A query that was not made.
LEMMA DtNoQueryOK == NoDtunQuery \in DtQuery
  <1>1. <<>> \in Seq(Node) /\ Zero \in Id /\ 0 \in Nat /\ Zero = Zero
    BY NodesAreIds
  <1> QED BY <1>1 DEF NoDtunQuery, DtQuery

\* find_node() of an address.
LEMMA DtBootOK ==
    ASSUME NEW r, r = [NoDtunQuery EXCEPT !.active = TRUE, !.kind = "boot", !.dst = m_id,
                                         !.sent = {m_id}, !.timers = {Zero}, !.num_query = 1]
    PROVE  DtQueryOK(r) /\ r.kind = "boot" /\ r.dst = m_id
  <1>1. /\ r.active = TRUE /\ r.kind = "boot" /\ r.dst = m_id /\ r.nodes = <<>> /\ r.sent = {m_id}
        /\ r.timers = {Zero} /\ r.num_query = 1 /\ r.told = {}
        /\ r.expired = FALSE /\ r.late = FALSE /\ r.calls = 0 /\ r.found = FALSE
    BY DEF NoDtunQuery
  <1>2. r \in DtQuery
    <2> DEFINE one == 1
    <2>1. m_id \in Id /\ {m_id} \in SUBSET Id /\ {Zero} \in SUBSET Id
      BY NodesAreIds
    <2>2. one \in Nat /\ r = [NoDtunQuery EXCEPT !.active = TRUE, !.kind = "boot", !.dst = m_id,
                               !.sent = {m_id}, !.timers = {Zero}, !.num_query = one]
      OBVIOUS
    <2> HIDE DEF one
    <2> QED BY <2>1, <2>2, DtNoQueryOK, ZenonT(60) DEF DtQuery
  <1>3. Cardinality({Zero}) = 1
    BY FS_Singleton
  <1>4. Listed(r) /\ Best(r)
    BY <1>1, EmptyNearest DEF Listed, Best
  <1>5. r.num_query <= Cardinality(r.timers) /\ r.num_query <= MaxQuery
        /\ r.num_query = Cardinality(r.timers) /\ r.num_query > 0
    BY <1>1, <1>3, LookupAssumption, IdAssumption, DhtQueryAssumption
  <1> QED BY <1>1, <1>2, <1>4, <1>5 DEF DtQueryOK, DtOpen

\* find_nv(): before send_find(), or at its end if no other node is known.
LEMMA DtFindOK ==
    ASSUME Holders \subseteq Peers,
           NEW S \in SUBSET Peers, NEW kind \in {"node", "value"}, NEW r,
           r = [NoDtunQuery EXCEPT !.active = TRUE, !.kind = kind, !.dst = Dst, !.sent = {m_id},
                                  !.nodes = lookup(Dst, S \cup {m_id})]
    PROVE  DtOpen(r) /\ (Len(r.nodes) = 1 => DtDone(Finish(r, FALSE)))
  <1> DEFINE nodes == lookup(Dst, S \cup {m_id})
  <1>1. /\ nodes \in Seq(Node) /\ Sorted(Dst, nodes)
        /\ Nearest(Dst, ToSet(nodes), NumFindNode, nodes)
    <2>1. S \cup {m_id} \in SUBSET Node
      BY DEF Node
    <2> QED BY <2>1, LookupOK, NodesAreIds
  <1>2. ASSUME Len(nodes) = 1 PROVE ToSet(nodes) \subseteq {m_id}
    <2> DEFINE T == S \cup {m_id}
               c == Cardinality(T)
    <2>1. T \in SUBSET Id /\ IsFiniteSet(T) /\ NumFindNode \in Nat \ {0, 1}
      BY NodesAreIds, IdFinite, LookupAssumption, IdAssumption, DhtQueryAssumption
    <2>2. Nearest(Dst, T, NumFindNode, nodes)
      <3> HIDE DEF T
      <3> QED BY <2>1, NodesAreIds, ClosestNearest DEF lookup, T
    <2>3. c \in Nat /\ Len(nodes) = IF NumFindNode <= c THEN NumFindNode ELSE c
      BY <2>1, <2>2, FS_CardinalityType DEF Nearest
    <2> HIDE DEF c
    <2>4. c = 1
      BY <1>2, <2>1, <2>3
    <2>5. T \ {m_id} = {}
      <3>1. Cardinality(T \ {m_id}) = c - 1 /\ IsFiniteSet(T \ {m_id})
        BY <2>1, FS_RemoveElement DEF c
      <3> QED BY <2>4, <3>1, FS_EmptySet
    <2>6. nodes \in Seq(T)
      BY <2>2 DEF Nearest
    <2> HIDE DEF T, nodes
    <2> QED BY <2>5, <2>6, ToSetOf
  <1> HIDE DEF nodes
  <1>3. r = [NoDtunQuery EXCEPT !.active = TRUE, !.kind = kind, !.dst = Dst, !.sent = {m_id},
                               !.nodes = nodes]
    BY DEF nodes
  <1>4. /\ r.active = TRUE /\ r.kind = kind /\ r.dst = Dst /\ r.nodes = nodes /\ r.sent = {m_id}
        /\ r.timers = {} /\ r.num_query = 0 /\ r.told = {}
        /\ r.expired = FALSE /\ r.late = FALSE /\ r.calls = 0 /\ r.found = FALSE
    BY <1>3 DEF NoDtunQuery
  <1>5. r \in DtQuery
    <2>1. Dst \in Id /\ {m_id} \in SUBSET Id
      BY NodesAreIds
    <2> QED BY <1>1, <1>3, <2>1, DtNoQueryOK, ZenonT(60) DEF DtQuery
  <1>6. Listed(r) /\ Best(r)
    <2>1. ToSet(r.nodes) \cup r.told = ToSet(nodes)
      BY <1>4
    <2> QED BY <1>1, <1>4, <2>1 DEF Listed, Best
  <1>7. r.sent \cap Holders = {} /\ m_id \in r.sent
    BY <1>4, NodesAreIds
  <1>8. DtOpen(r)
    <2>1. Cardinality({}) = 0 /\ MaxQuery \in Nat
      BY FS_EmptySet, LookupAssumption, IdAssumption, DhtQueryAssumption
    <2>2. /\ r.num_query <= Cardinality(r.timers) /\ r.num_query <= MaxQuery
          /\ r.num_query = Cardinality(r.timers)
      BY <1>4, <2>1
    <2> QED BY <1>4, <1>5, <1>6, <1>7, <2>2 DEF DtOpen
  <1>9. ASSUME Len(r.nodes) = 1 PROVE DtDone(Finish(r, FALSE))
    <2> DEFINE d == [r EXCEPT !.active = FALSE, !.calls = 1, !.found = FALSE]
    <2>1. Finish(r, FALSE) = d
      <3>1. r.calls + 1 = 1
        BY <1>4
      <3> QED BY <3>1, Zenon DEF Finish
    <2>2. /\ d.active = FALSE /\ d.calls = 1 /\ d.found = FALSE
          /\ d.timers = r.timers /\ d.sent = r.sent /\ d.kind = r.kind /\ d.dst = r.dst
          /\ d.nodes = r.nodes /\ d.told = r.told /\ d.expired = r.expired /\ d.late = r.late
      BY <1>5 DEF DtQuery
    <2>3. d \in DtQuery
      <3> DEFINE one == 1
      <3>1. one \in Nat /\ d = [r EXCEPT !.active = FALSE, !.calls = one, !.found = FALSE]
        OBVIOUS
      <3> HIDE DEF one, d
      <3> QED BY <1>5, <3>1, ZenonT(60) DEF DtQuery
    <2> HIDE DEF d
    <2>4. Listed(d) /\ Best(d)
      BY <1>6, <2>2 DEF Listed, Best
    <2>5. ToSet(d.nodes) \subseteq d.sent
      BY <1>2, <1>4, <1>9, <2>2
    <2> QED BY <1>4, <1>7, <2>1, <2>2, <2>3, <2>4, <2>5, ZenonT(60) DEF DtDone
  <1> QED BY <1>8, <1>9

\* timer_query, before send_find().
LEMMA DtTimerOK ==
    ASSUME NEW q, DtOpen(q), q.num_query > 0, NEW id \in q.timers, NEW r,
           r = [q EXCEPT !.sent = @ \cup {id}, !.num_query = @ - 1,
                         !.timers = @ \ {id}, !.expired = TRUE,
                         !.nodes = IF id = Zero THEN @ ELSE RemoveFirst(@, id)]
    PROVE  DtOpen(r) /\ Kept(q, r)
  <1> DEFINE nodes == IF id = Zero THEN q.nodes ELSE RemoveFirst(q.nodes, id)
  <1>1. /\ q \in DtQuery /\ q.dst \in Id /\ q.nodes \in Seq(Node) /\ q.num_query \in Nat
        /\ q.sent \in SUBSET Id /\ q.timers \in SUBSET Id
        /\ Sorted(q.dst, q.nodes) /\ Len(q.nodes) <= NumFindNode
        /\ IsFiniteSet(q.timers) /\ Cardinality(q.timers) \in Nat
        /\ MaxQuery \in Nat /\ NumFindNode \in Nat
    BY DtOpenTypes
  <1>2. nodes \in Seq(Node) /\ Sorted(q.dst, nodes) /\ Nearest(q.dst, ToSet(nodes), NumFindNode, nodes)
    <2>1. CASE id = Zero
      BY <1>1, <2>1, ListedIf
    <2>2. CASE id # Zero
      <3> DEFINE t == RemoveFirst(q.nodes, id)
      <3>1. t \in Seq(Node) /\ Sorted(q.dst, t) /\ Len(t) <= Len(q.nodes)
        BY <1>1, RemoveFirstFacts
      <3> HIDE DEF t
      <3>2. Len(t) \in Nat /\ Len(q.nodes) \in Nat
        BY <1>1, <3>1
      <3>3. Len(t) <= NumFindNode
        BY <1>1, <3>1, <3>2
      <3>4. Nearest(q.dst, ToSet(t), NumFindNode, t)
        BY <1>1, <3>1, <3>3, ListedIf
      <3> QED BY <2>2, <3>1, <3>4 DEF t
    <2> QED BY <2>1, <2>2
  <1>3. r = [q EXCEPT !.sent = q.sent \cup {id}, !.num_query = q.num_query - 1,
                      !.timers = q.timers \ {id}, !.expired = TRUE, !.nodes = nodes]
    OBVIOUS
  <1> HIDE DEF nodes
  <1>4. r \in DtQuery
    <2>1. q.sent \cup {id} \in SUBSET Id /\ q.num_query - 1 \in Nat /\ q.timers \ {id} \in SUBSET Id
      BY <1>1
    <2> QED BY <1>1, <1>2, <1>3, <2>1, ZenonT(60) DEF DtQuery
  <1>5. /\ r.sent = q.sent \cup {id} /\ r.num_query = q.num_query - 1
        /\ r.timers = q.timers \ {id} /\ r.expired = TRUE /\ r.nodes = nodes
        /\ r.active = q.active /\ r.kind = q.kind /\ r.dst = q.dst
        /\ r.late = q.late /\ r.calls = q.calls /\ r.found = q.found
    BY <1>1, <1>3 DEF DtQuery
  <1>6. /\ r.num_query <= Cardinality(r.timers) /\ r.num_query <= MaxQuery
        /\ ~ r.late => r.num_query = Cardinality(r.timers)
    <2>1. Cardinality(r.timers) = Cardinality(q.timers) - 1
      BY <1>1, <1>5, FS_RemoveElement, ZenonT(60)
    <2> QED BY <1>1, <1>5, <2>1 DEF DtOpen
  <1>7. r.timers \subseteq r.sent \cup {Zero} /\ m_id \in r.sent
    BY <1>5 DEF DtOpen
  <1>8. Listed(r) /\ Best(r)
    BY <1>2, <1>5 DEF Listed, Best
  <1> QED BY <1>4, <1>5, <1>6, <1>7, <1>8 DEF DtOpen, Kept

\* One of the counted questions is closed.
LEMMA OneClosed ==
    ASSUME NEW T, IsFiniteSet(T), NEW x, NEW k \in Nat, k > 0, k <= Cardinality(T)
    PROVE  /\ k - 1 <= Cardinality(T \ {x})
           /\ x \in T /\ k = Cardinality(T) => k - 1 = Cardinality(T \ {x})
  <1>1. Cardinality(T) \in Nat
    BY FS_CardinalityType
  <1>2. CASE x \in T
    <2>1. Cardinality(T \ {x}) = Cardinality(T) - 1
      BY <1>2, FS_RemoveElement
    <2> QED BY <1>1, <2>1
  <1>3. CASE x \notin T
    <2>1. T \ {x} = T
      BY <1>3
    <2> QED BY <1>1, <1>3, <2>1
  <1> QED BY <1>2, <1>3

\* A reply with nodes, before send_find().
LEMMA DtReplyOK ==
    ASSUME NEW q, DtOpen(q), q.num_query > 0,
           NEW m, m.nodes \in Seq(Node), Sorted(q.dst, m.nodes), m.peer \in Peers,
           NEW timer, q.kind = "value" => timer = m.peer /\ m.peer \notin Holders,
           timer \in {m.peer, Zero},
           NEW late \in BOOLEAN, late <=> (q.late \/ timer \notin q.timers), NEW r,
           r = [q EXCEPT !.timers = q.timers \ {timer}, !.sent = q.sent \cup {m.peer},
                         !.num_query = q.num_query - 1, !.late = late,
                         !.told = q.told \cup ToSet(m.nodes), !.nodes = Merge(q, m)]
    PROVE  DtOpen(r) /\ Kept(q, r)
  <1> DEFINE nodes == Merge(q, m)
             told == q.told \cup ToSet(m.nodes)
  <1>1. /\ q \in DtQuery /\ q.dst \in Id /\ q.nodes \in Seq(Node) /\ q.num_query \in Nat
        /\ q.sent \in SUBSET Id /\ q.timers \in SUBSET Id /\ q.told \in SUBSET Node
        /\ Sorted(q.dst, q.nodes) /\ Best(q)
        /\ IsFiniteSet(q.timers) /\ Cardinality(q.timers) \in Nat
        /\ MaxQuery \in Nat
    BY DtOpenTypes DEF DtOpen
  <1>2. /\ nodes \in Seq(Node)
        /\ Nearest(q.dst, ToSet(nodes), NumFindNode, nodes)
        /\ ~ q.expired => Nearest(q.dst, ToSet(nodes) \cup told, NumFindNode, nodes)
    BY <1>1, MergeOK
  <1>3. told \in SUBSET Node
    BY <1>1, ToSetOf
  <1> HIDE DEF nodes, told
  <1>4. r = [q EXCEPT !.timers = q.timers \ {timer}, !.sent = q.sent \cup {m.peer},
                      !.num_query = q.num_query - 1, !.late = late, !.told = told,
                      !.nodes = nodes]
    BY DEF nodes, told
  <1>5. r \in DtQuery
    <2>1. /\ q.sent \cup {m.peer} \in SUBSET Id /\ q.num_query - 1 \in Nat
          /\ q.timers \ {timer} \in SUBSET Id
      BY <1>1, NodesAreIds
    <2> QED BY <1>1, <1>2, <1>3, <1>4, <2>1, ZenonT(60) DEF DtQuery
  <1>6. /\ r.sent = q.sent \cup {m.peer} /\ r.num_query = q.num_query - 1
        /\ r.timers = q.timers \ {timer} /\ r.told = told /\ r.nodes = nodes
        /\ r.late = late
        /\ r.active = q.active /\ r.kind = q.kind /\ r.dst = q.dst
        /\ r.calls = q.calls /\ r.found = q.found /\ r.expired = q.expired
    BY <1>1, <1>4 DEF DtQuery
  <1>7. q.late => late
    OBVIOUS
  <1>8. /\ r.num_query <= Cardinality(r.timers) /\ r.num_query <= MaxQuery
        /\ ~ r.late => r.num_query = Cardinality(r.timers)
    <2>1. /\ q.num_query <= Cardinality(q.timers) /\ q.num_query <= MaxQuery
          /\ ~ q.late => q.num_query = Cardinality(q.timers)
      BY DEF DtOpen
    <2>2. /\ q.num_query - 1 <= Cardinality(q.timers \ {timer})
          /\ timer \in q.timers /\ q.num_query = Cardinality(q.timers) =>
               q.num_query - 1 = Cardinality(q.timers \ {timer})
      BY <1>1, <2>1, OneClosed
    <2>3. ~ late => ~ q.late /\ timer \in q.timers
      OBVIOUS
    <2>4. r.num_query <= MaxQuery
      <3>1. q.num_query - 1 <= MaxQuery
        BY <1>1, <2>1
      <3> QED BY <1>6, <3>1
    <2> QED BY <1>6, <2>1, <2>2, <2>3, <2>4
  <1>9. r.timers \subseteq r.sent \cup {Zero} /\ m_id \in r.sent
    BY <1>6 DEF DtOpen
  <1>10. Listed(r) /\ Best(r)
    BY <1>2, <1>6 DEF Listed, Best
  <1>11. r.kind = "value" /\ ~ r.late /\ ~ r.expired => r.sent \cap Holders \subseteq r.timers
    BY <1>6, <1>7 DEF DtOpen
  <1> QED BY <1>5, <1>6, <1>8, <1>9, <1>10, <1>11 DEF DtOpen, Kept

\* A reply with the value.
LEMMA DtFoundOK ==
    ASSUME NEW q, DtOpen(q), q.num_query > 0, NEW p \in Peers, NEW late \in BOOLEAN, NEW r,
           r = [q EXCEPT !.timers = q.timers \ {p}, !.sent = q.sent \cup {p},
                         !.num_query = q.num_query - 1, !.late = late]
    PROVE  DtDone(Finish(r, TRUE)) /\ Kept(q, Finish(r, TRUE))
  <1> DEFINE d == [r EXCEPT !.active = FALSE, !.calls = 1, !.found = TRUE]
  <1>1. /\ q \in DtQuery /\ q.num_query \in Nat /\ q.sent \in SUBSET Id /\ q.timers \in SUBSET Id
    BY DtOpenTypes
  <1>2. r \in DtQuery
    <2>1. /\ q.sent \cup {p} \in SUBSET Id /\ q.num_query - 1 \in Nat
          /\ q.timers \ {p} \in SUBSET Id
      BY <1>1, NodesAreIds
    <2> QED BY <1>1, <2>1 DEF DtQuery
  <1>3. /\ r.sent = q.sent \cup {p} /\ r.kind = q.kind /\ r.dst = q.dst /\ r.nodes = q.nodes
        /\ r.calls = q.calls
    BY <1>1 DEF DtQuery
  <1>4. Finish(r, TRUE) = d
    <2>1. r.calls + 1 = 1
      BY <1>3 DEF DtOpen
    <2> QED BY <2>1, Zenon DEF Finish
  <1>5. /\ d.active = FALSE /\ d.calls = 1 /\ d.found = TRUE
        /\ d.sent = r.sent /\ d.kind = r.kind /\ d.dst = r.dst /\ d.nodes = r.nodes
    BY <1>2 DEF DtQuery
  <1>6. d \in DtQuery
    <2> DEFINE one == 1
    <2>1. one \in Nat /\ d = [r EXCEPT !.active = FALSE, !.calls = one, !.found = TRUE]
      OBVIOUS
    <2> HIDE DEF one, d
    <2> QED BY <1>2, <2>1, ZenonT(60) DEF DtQuery
  <1> HIDE DEF d
  <1>7. Listed(d)
    BY <1>3, <1>5 DEF DtOpen, Listed
  <1> QED BY <1>3, <1>4, <1>5, <1>6, <1>7 DEF DtOpen, DtDone, Kept
-----------------------------------------------------------------------------
\* A datagram belongs to a query that was made; a reply has a sorted list or, from a holder,
\* the value.
DtMessage(m, q) ==
    /\ m.nonce \in Nonces /\ m.peer \in Peers
    /\ m.kind = q.kind /\ q.kind # "none" /\ m.dst = q.dst
    /\ m.type = "reply" =>
         /\ ~ m.flag => m.nodes \in Seq(Node) /\ Sorted(m.dst, m.nodes)
         /\ m.kind = "value" => (m.flag <=> m.peer \in Holders)
         /\ m.kind # "value" => ~ m.flag

DtInv ==
    /\ dtun_query \in [Nonces -> DtQuery] /\ dtun_table \in SUBSET Peers
    /\ tables \in [Peers -> SUBSET Node]
    /\ \A n \in Nonces : DtQueryOK(dtun_query[n])
    /\ \A m \in dtun_net : DtMessage(m, dtun_query[m.nonce])

\* A step of one query keeps the invariant.
LEMMA DtOneQuery ==
    ASSUME DtInv, NEW n \in Nonces, NEW q, DtQueryOK(q),
           dtun_query[n] = NoDtunQuery \/ Kept(dtun_query[n], q),
           dtun_query' = [dtun_query EXCEPT ![n] = q],
           dtun_table' \in SUBSET Peers, tables' = tables,
           \A m \in dtun_net' \ dtun_net : m.nonce = n /\ DtMessage(m, q)
    PROVE  DtInv'
  <1>1. q \in DtQuery
    BY DtNoQueryOK DEF DtQueryOK, DtOpen, DtDone
  <1>2. /\ dtun_query' \in [Nonces -> DtQuery] /\ dtun_query'[n] = q
        /\ \A o \in Nonces \ {n} : dtun_query'[o] = dtun_query[o]
    BY <1>1 DEF DtInv
  <1>3. ASSUME NEW o \in Nonces PROVE DtQueryOK(dtun_query'[o])
    BY <1>2 DEF DtInv
  <1>4. ASSUME NEW m \in dtun_net' PROVE DtMessage(m, dtun_query'[m.nonce])
    <2>1. CASE m \in dtun_net
      <3>1. DtMessage(m, dtun_query[m.nonce])
        BY <2>1 DEF DtInv
      <3>2. CASE m.nonce = n
        <4>1. Kept(dtun_query[n], q)
          BY <3>1, <3>2 DEF DtMessage, NoDtunQuery
        <4> QED BY <1>2, <3>1, <3>2, <4>1 DEF DtMessage, Kept
      <3>3. CASE m.nonce # n
        BY <1>2, <3>1, <3>3 DEF DtMessage
      <3> QED BY <3>2, <3>3
    <2>2. CASE m \notin dtun_net
      BY <1>2, <2>2
    <2> QED BY <2>1, <2>2
  <1> QED BY <1>2, <1>3, <1>4 DEF DtInv, DtQueryOK, DtMessage, DtOpen, DtDone

\* The questions of a query.
LEMMA DtQuestionOK ==
    ASSUME NEW n \in Nonces, NEW q, NEW p \in Peers, NEW r, r.kind = q.kind, r.dst = q.dst,
           q.kind # "none"
    PROVE  Question(n, q, p).nonce = n /\ DtMessage(Question(n, q, p), r)
  <1>1. /\ Question(n, q, p).nonce = n /\ Question(n, q, p).peer = p
        /\ Question(n, q, p).kind = q.kind /\ Question(n, q, p).dst = q.dst
        /\ Question(n, q, p).type = "find"
    BY DEF Question
  <1>2. "find" # "reply"
    OBVIOUS
  <1> HIDE DEF Question
  <1> QED BY <1>1, <1>2 DEF DtMessage

\* send_find() at the end of a step of an open query, or of a new one.
LEMMA DtSendFindStep ==
    ASSUME DtInv, NEW n \in Nonces, NEW q, DtOpen(q),
           dtun_query[n] = NoDtunQuery \/ Kept(dtun_query[n], q),
           NEW before, before \subseteq dtun_net, dtun_send_find(n, q, before),
           dtun_table' \in SUBSET Peers, tables' = tables
    PROVE  DtInv'
  <1> DEFINE r == DtAsked(q)
  <1>1. DtQueryOK(r) /\ Kept(q, r) /\ ToAsk(q) \subseteq Peers
    BY DtAskedOK
  <1>2. /\ dtun_query' = [dtun_query EXCEPT ![n] = r]
        /\ dtun_net' = before \cup {Question(n, q, p) : p \in ToAsk(q)}
    BY DEF dtun_send_find, DtAsked
  <1> HIDE DEF r
  <1>3. dtun_query[n] = NoDtunQuery \/ Kept(dtun_query[n], r)
    BY <1>1 DEF Kept
  <1>4. ASSUME NEW m \in dtun_net' \ dtun_net
        PROVE  m.nonce = n /\ DtMessage(m, r)
    <2>1. PICK p \in ToAsk(q) : m = Question(n, q, p)
      BY <1>2
    <2>2. q.kind # "none" /\ r.kind = q.kind /\ r.dst = q.dst
      BY <1>1 DEF DtOpen, Kept
    <2> QED BY <1>1, <2>1, <2>2, DtQuestionOK
  <1> QED BY <1>1, <1>2, <1>3, <1>4, DtOneQuery

\* A query that runs.
LEMMA DtIsOpen ==
    ASSUME DtInv, NEW n \in Nonces, dtun_query[n].active
    PROVE  DtOpen(dtun_query[n]) /\ dtun_query[n].num_query > 0
  BY DEF DtInv, DtQueryOK, DtDone, NoDtunQuery

\* find_node() and find_value() keep the invariant.
LEMMA DtFindStep ==
    ASSUME DtInv, NEW n \in Nonces, DtunFind(n)
    PROVE  DtInv'
  <1>1. dtun_query[n] = NoDtunQuery
    BY DEF DtunFind
  <1>2. ASSUME NEW p \in Peers, dtun_find_node_boot(n, p) PROVE DtInv'
    <2> DEFINE q == [NoDtunQuery EXCEPT !.active = TRUE, !.kind = "boot", !.dst = m_id,
                                       !.sent = {m_id}, !.timers = {Zero}, !.num_query = 1]
    <2>1. /\ dtun_query' = [dtun_query EXCEPT ![n] = q]
          /\ dtun_net' = dtun_net \cup {Question(n, q, p)}
          /\ dtun_table' = dtun_table /\ tables' = tables
      BY <1>2 DEF dtun_find_node_boot
    <2>2. DtQueryOK(q) /\ q.kind = "boot"
      BY DtBootOK
    <2> HIDE DEF q
    <2>3. \A m \in dtun_net' \ dtun_net : m.nonce = n /\ DtMessage(m, q)
      BY <2>1, <2>2, DtQuestionOK
    <2>4. dtun_table' \in SUBSET Peers
      BY <2>1 DEF DtInv
    <2> QED BY <1>1, <2>1, <2>2, <2>3, <2>4, DtOneQuery
  <1>3. ASSUME NEW kind \in {"node", "value"}, dtun_find_nv(n, kind) PROVE DtInv'
    <2> DEFINE q == [NoDtunQuery EXCEPT !.active = TRUE, !.kind = kind, !.dst = Dst,
                                       !.sent = {m_id},
                                       !.nodes = lookup(Dst, dtun_table \cup {m_id})]
    <2>1. /\ dtun_table' = dtun_table /\ tables' = tables
          /\ \/ /\ Len(q.nodes) = 1
                /\ dtun_query' = [dtun_query EXCEPT ![n] = Finish(q, FALSE)]
                /\ dtun_net' = dtun_net
             \/ dtun_send_find(n, q, dtun_net)
      BY <1>3 DEF dtun_find_nv
    <2>2. dtun_table \in SUBSET Peers /\ dtun_table' \in SUBSET Peers
      BY <2>1 DEF DtInv
    <2>3. DtOpen(q) /\ (Len(q.nodes) = 1 => DtDone(Finish(q, FALSE)))
      BY <2>2, DtunAssumption, DtFindOK
    <2> HIDE DEF q
    <2>4. CASE Len(q.nodes) = 1 /\ dtun_query' = [dtun_query EXCEPT ![n] = Finish(q, FALSE)]
               /\ dtun_net' = dtun_net
      <3>1. DtQueryOK(Finish(q, FALSE)) /\ dtun_net' \ dtun_net = {}
        BY <2>3, <2>4 DEF DtQueryOK
      <3> QED BY <1>1, <2>1, <2>2, <2>4, <3>1, DtOneQuery
    <2>5. CASE dtun_send_find(n, q, dtun_net)
      <3>1. dtun_net \subseteq dtun_net
        OBVIOUS
      <3> QED BY <1>1, <2>1, <2>2, <2>3, <2>5, <3>1, DtSendFindStep
    <2> QED BY <2>1, <2>4, <2>5
  <1>4. Kinds \ {"boot"} \subseteq {"node", "value"}
    BY LookupAssumption, IdAssumption, DhtQueryAssumption
  <1> QED BY <1>2, <1>3, <1>4 DEF DtunFind

\* timer_query keeps the invariant.
LEMMA DtTimerStep ==
    ASSUME DtInv, NEW n \in Nonces, NEW id, dtun_timer_query(n, id)
    PROVE  DtInv'
  <1> DEFINE q == dtun_query[n]
             r == [q EXCEPT !.sent = @ \cup {id}, !.num_query = @ - 1,
                            !.timers = @ \ {id}, !.expired = TRUE,
                            !.nodes = IF id = Zero THEN @ ELSE RemoveFirst(@, id)]
  <1>1. /\ q.active /\ id \in q.timers /\ dtun_send_find(n, r, dtun_net)
        /\ dtun_table' = dtun_table \ {id} /\ tables' = tables
    BY DEF dtun_timer_query
  <1>2. DtOpen(q) /\ q.num_query > 0
    BY <1>1, DtIsOpen
  <1>3. DtOpen(r) /\ Kept(q, r)
    <2> HIDE DEF q
    <2> QED BY <1>1, <1>2, DtTimerOK
  <1> HIDE DEF r
  <1>4. dtun_table' \in SUBSET Peers /\ dtun_net \subseteq dtun_net
    BY <1>1 DEF DtInv
  <1> QED BY <1>1, <1>3, <1>4, DtSendFindStep

\* A datagram that is delivered may stay, to be delivered again.
LEMMA DtLeft == ASSUME NEW m PROVE Left(m) \subseteq dtun_net
  BY DEF Left

\* recv_find_node_reply() keeps the invariant.
LEMMA DtNodeReplyStep ==
    ASSUME DtInv, NEW m \in dtun_net, m.type = "reply", dtun_recv_find_node_reply(m.nonce, m),
           tables' = tables
    PROVE  DtInv'
  <1> DEFINE n == m.nonce
             q == dtun_query[n]
             timer == TimerOf(q, m.peer)
             r == [q EXCEPT !.timers = @ \ {timer}, !.sent = @ \cup {m.peer},
                            !.num_query = @ - 1, !.told = @ \cup ToSet(m.nodes),
                            !.nodes = Merge(q, m)]
  <1>1. /\ q.active /\ q.kind # "value" /\ timer \in q.timers
        /\ dtun_table' = dtun_table \cup {m.peer} /\ dtun_send_find(n, r, Left(m))
    BY DEF dtun_recv_find_node_reply
  <1>2. DtMessage(m, q)
    BY DEF DtInv
  <1>3. n \in Nonces /\ m.peer \in Peers /\ m.nodes \in Seq(Node) /\ Sorted(q.dst, m.nodes)
    BY <1>1, <1>2 DEF DtMessage
  <1> HIDE DEF n
  <1>4. DtOpen(q) /\ q.num_query > 0
    BY <1>1, <1>3, DtIsOpen
  <1>5. timer \in {m.peer, Zero}
    BY DEF TimerOf
  <1>6. DtOpen(r) /\ Kept(q, r)
    <2> DEFINE late == q.late
    <2>1. q \in DtQuery
      BY <1>4, DtOpenTypes
    <2>2. late \in BOOLEAN /\ (late <=> (q.late \/ timer \notin q.timers))
      BY <1>1, <2>1 DEF DtQuery
    <2> HIDE DEF q, timer, late
    <2>3. r = [q EXCEPT !.timers = q.timers \ {timer}, !.sent = q.sent \cup {m.peer},
                        !.num_query = q.num_query - 1, !.late = late,
                        !.told = q.told \cup ToSet(m.nodes), !.nodes = Merge(q, m)]
      BY <2>1 DEF DtQuery, late
    <2> HIDE DEF r
    <2> QED BY <1>1, <1>3, <1>4, <1>5, <2>2, <2>3, DtReplyOK
  <1> HIDE DEF r
  <1>7. dtun_table' \in SUBSET Peers /\ Left(m) \subseteq dtun_net
    BY <1>1, <1>3, DtLeft DEF DtInv
  <1> QED BY <1>1, <1>3, <1>6, <1>7, DtSendFindStep

\* recv_find_value_reply() keeps the invariant, with the value and with nodes.
LEMMA DtValueReplyStep ==
    ASSUME DtInv, NEW m \in dtun_net, m.type = "reply", dtun_recv_find_value_reply(m.nonce, m),
           tables' = tables
    PROVE  DtInv'
  <1> DEFINE n == m.nonce
             q == dtun_query[n]
             r == [q EXCEPT !.timers = @ \ {m.peer}, !.sent = @ \cup {m.peer},
                            !.num_query = @ - 1, !.late = @ \/ m.peer \notin q.timers]
             s == [r EXCEPT !.told = @ \cup ToSet(m.nodes), !.nodes = Merge(q, m)]
  <1>1. /\ q.active /\ q.kind = "value" /\ dtun_table' = dtun_table \cup {m.peer}
        /\ IF m.flag THEN /\ dtun_query' = [dtun_query EXCEPT ![n] = Finish(r, TRUE)]
                          /\ dtun_net' = Left(m)
           ELSE dtun_send_find(n, s, Left(m))
    BY DEF dtun_recv_find_value_reply
  <1>2. DtMessage(m, q)
    BY DEF DtInv
  <1>3. /\ n \in Nonces /\ m.peer \in Peers
        /\ ~ m.flag => m.nodes \in Seq(Node) /\ Sorted(q.dst, m.nodes) /\ m.peer \notin Holders
    BY <1>1, <1>2 DEF DtMessage
  <1> HIDE DEF n
  <1>4. DtOpen(q) /\ q.num_query > 0
    BY <1>1, <1>3, DtIsOpen
  <1>5. dtun_table' \in SUBSET Peers /\ Left(m) \subseteq dtun_net
    BY <1>1, <1>3, DtLeft DEF DtInv
  <1> DEFINE late == (q.late \/ m.peer \notin q.timers)
  <1>6. late \in BOOLEAN /\ q \in DtQuery
    BY <1>4, DtOpenTypes DEF DtQuery
  <1>7. r = [q EXCEPT !.timers = q.timers \ {m.peer}, !.sent = q.sent \cup {m.peer},
                      !.num_query = q.num_query - 1, !.late = late]
    OBVIOUS
  <1>8. late <=> (q.late \/ m.peer \notin q.timers)
    OBVIOUS
  <1> HIDE DEF late, q, r
  <1>9. CASE m.flag
    <2>1. DtDone(Finish(r, TRUE)) /\ Kept(q, Finish(r, TRUE))
      BY <1>3, <1>4, <1>6, <1>7, DtFoundOK
    <2>2. DtQueryOK(Finish(r, TRUE)) /\ dtun_net' \ dtun_net = {}
      BY <1>1, <1>5, <1>9, <2>1 DEF DtQueryOK
    <2> QED BY <1>1, <1>3, <1>5, <1>9, <2>1, <2>2, DtOneQuery DEF q
  <1>10. CASE ~ m.flag
    <2>1. s = [q EXCEPT !.timers = q.timers \ {m.peer}, !.sent = q.sent \cup {m.peer},
                        !.num_query = q.num_query - 1, !.late = late,
                        !.told = q.told \cup ToSet(m.nodes), !.nodes = Merge(q, m)]
      <3>1. r.told = q.told
        BY <1>6, <1>7 DEF DtQuery
      <3> QED BY <1>6, <1>7, <3>1 DEF DtQuery
    <2> DEFINE timer == m.peer
    <2>2. timer = m.peer /\ timer \in {m.peer, Zero}
      OBVIOUS
    <2> HIDE DEF s
    <2>3. DtOpen(s) /\ Kept(q, s)
      BY <1>3, <1>4, <1>6, <1>8, <1>10, <2>1, <2>2, DtReplyOK
    <2> QED BY <1>1, <1>3, <1>5, <1>10, <2>3, DtSendFindStep DEF q
  <1> QED BY <1>9, <1>10

\* A peer answers: from its table, or with the value.
LEMMA DtRecvFindStep ==
    ASSUME DtInv, DtunRecvFind
    PROVE  DtInv'
  <1>1. dtun_query' = dtun_query /\ dtun_table' = dtun_table
    BY DEF DtunRecvFind
  <1>2. PICK m \in dtun_net : /\ m.type = "find"
                            /\ \/ m.kind # "value" /\ recv_find_node(m)
                               \/ m.kind = "value" /\ recv_find_value(m)
    BY DEF DtunRecvFind
  <1> DEFINE q == dtun_query[m.nonce]
             nodes == lookup(m.dst, tables[m.peer] \cup {m.peer})
  <1>3. DtMessage(m, q)
    BY DEF DtInv
  <1>4. m.nonce \in Nonces /\ m.peer \in Peers /\ m.dst \in Id
    <2>1. m.nonce \in Nonces /\ m.peer \in Peers /\ m.dst = q.dst
      BY <1>3 DEF DtMessage
    <2>2. q \in DtQuery
      BY <2>1 DEF DtInv
    <2> QED BY <2>1, <2>2 DEF DtQuery
  <1>5. nodes \in Seq(Node) /\ Sorted(m.dst, nodes)
    <2>1. tables[m.peer] \cup {m.peer} \in SUBSET Node
      BY <1>4 DEF DtInv, Node
    <2> QED BY <1>4, <2>1, LookupOK
  <1> HIDE DEF q, nodes
  <1>6. tables' \in [Peers -> SUBSET Node]
    <2>1. \/ tables' = tables
          \/ tables' = [tables EXCEPT ![m.peer] = tables[m.peer] \cup {m_id}]
      BY <1>2 DEF recv_find_node, recv_find_value
    <2>2. tables \in [Peers -> SUBSET Node] /\ m_id \in Node
      BY DEF DtInv, Node
    <2>3. tables[m.peer] \cup {m_id} \in SUBSET Node
      BY <1>4, <2>2
    <2> QED BY <2>1, <2>2, <2>3
  <1>7. PICK list, flag :
          /\ dtun_net' = Left(m) \cup {Answer(m, list, flag)}
          /\ ~ flag => list = nodes
          /\ m.kind # "value" => ~ flag
          /\ m.kind = "value" => (flag <=> m.peer \in Holders)
    <2>1. CASE m.kind # "value"
      <3>1. dtun_net' = Left(m) \cup {Answer(m, nodes, FALSE)}
        BY <1>2, <2>1 DEF recv_find_node, nodes
      <3> QED BY <2>1, <3>1
    <2>2. CASE m.kind = "value" /\ m.peer \in Holders
      <3>1. dtun_net' = Left(m) \cup {Answer(m, <<Dst>>, TRUE)}
        BY <1>2, <2>2 DEF recv_find_value
      <3> QED BY <2>2, <3>1
    <2>3. CASE m.kind = "value" /\ m.peer \notin Holders
      <3>1. dtun_net' = Left(m) \cup {Answer(m, nodes, FALSE)}
        BY <1>2, <2>3 DEF recv_find_value, nodes
      <3> QED BY <2>3, <3>1
    <2> QED BY <2>1, <2>2, <2>3
  <1> DEFINE a == Answer(m, list, flag)
  <1>8. /\ a.type = "reply" /\ a.nonce = m.nonce /\ a.kind = m.kind /\ a.dst = m.dst
        /\ a.peer = m.peer /\ a.nodes = list /\ a.flag = flag
    BY DEF Answer
  <1> HIDE DEF a
  <1>9. DtMessage(a, q)
    <2>1. a.nonce \in Nonces /\ a.peer \in Peers /\ a.kind = q.kind /\ q.kind # "none" /\ a.dst = q.dst
      BY <1>3, <1>8 DEF DtMessage
    <2>2. ~ a.flag => a.nodes \in Seq(Node) /\ Sorted(a.dst, a.nodes)
      BY <1>5, <1>7, <1>8
    <2>3. /\ a.kind = "value" => (a.flag <=> a.peer \in Holders)
          /\ a.kind # "value" => ~ a.flag
      BY <1>7, <1>8
    <2> QED BY <2>1, <2>2, <2>3 DEF DtMessage
  <1>10. ASSUME NEW o \in dtun_net' PROVE DtMessage(o, dtun_query[o.nonce])
    <2>1. o \in dtun_net \/ o = a
      BY <1>7, DtLeft DEF a
    <2>2. CASE o \in dtun_net
      BY <2>2 DEF DtInv
    <2>3. CASE o = a
      BY <1>8, <1>9, <2>3 DEF q
    <2> QED BY <2>1, <2>2, <2>3
  <1> QED BY <1>1, <1>6, <1>10 DEF DtInv, DtQueryOK, DtMessage, DtOpen, DtDone

\* Every step of the lookups keeps the invariant.
LEMMA DtStep ==
    ASSUME DtInv, [DtunNext]_dtunvars
    PROVE  DtInv'
  <1>1. ASSUME NEW n \in Nonces, DtunFind(n) PROVE DtInv'
    BY <1>1, DtFindStep
  <1>2. ASSUME DtunTimers PROVE DtInv'
    BY <1>2, DtTimerStep DEF DtunTimers
  <1>3. ASSUME DtunRecvReply PROVE DtInv'
    BY <1>3, DtNodeReplyStep, DtValueReplyStep DEF DtunRecvReply
  <1>4. ASSUME DtunRecvFind PROVE DtInv'
    BY <1>4, DtRecvFindStep
  <1>5. CASE UNCHANGED dtunvars
    BY <1>5 DEF dtunvars, DtInv, DtQueryOK, DtMessage, DtOpen, DtDone
  <1> QED BY <1>1, <1>2, <1>3, <1>4, <1>5 DEF DtunNext

LEMMA DtStart ==
    ASSUME DtunInit
    PROVE  DtInv
  <1>1. /\ dtun_query = [n \in Nonces |-> NoDtunQuery] /\ dtun_table \in MyTables /\ tables = PeerTable
        /\ dtun_net = {}
    BY DEF DtunInit
  <1>2. dtun_table \in SUBSET Peers /\ tables \in [Peers -> SUBSET Node]
    BY <1>1, LookupAssumption, IdAssumption, DhtQueryAssumption DEF Node
  <1> QED BY <1>1, <1>2, DtNoQueryOK DEF DtInv, DtQueryOK

\* What the invariant says of the bookkeeping of the queries and of what they end with.
LEMMA DtImplies ==
    ASSUME DtInv
    PROVE  DtunQueryInv /\ ResultExact
  <1>1. ASSUME NEW n \in Nonces
        PROVE  /\ dtun_query[n] \in DtQuery /\ Listed(dtun_query[n])
               /\ dtun_query[n].active => DtOpen(dtun_query[n]) /\ dtun_query[n].num_query > 0
               /\ ~ dtun_query[n].active => dtun_query[n] = NoDtunQuery \/ DtDone(dtun_query[n])
    <2>1. Listed(NoDtunQuery)
      <3>1. NoDtunQuery.nodes = <<>> /\ NoDtunQuery.dst = Zero
        BY DEF NoDtunQuery
      <3>2. ToSet(<<>>) = {} /\ Nearest(Zero, {}, NumFindNode, <<>>)
        BY EmptyNearest
      <3>3. Nearest(NoDtunQuery.dst, ToSet(NoDtunQuery.nodes), NumFindNode, NoDtunQuery.nodes)
        BY <3>1, <3>2
      <3> QED BY <3>3 DEF Listed
    <2>2. NoDtunQuery \in DtQuery /\ ~ NoDtunQuery.active
      BY DtNoQueryOK DEF NoDtunQuery
    <2>3. DtQueryOK(dtun_query[n])
      BY DEF DtInv
    <2> QED BY <2>1, <2>2, <2>3 DEF DtQueryOK, DtOpen, DtDone
  <1>2. ASSUME NEW id \in Id, NEW S \in SUBSET Id, NEW s, Nearest(id, S, NumFindNode, s)
        PROVE  s = lookup(id, S)
    <2>1. IsFiniteSet(S) /\ NumFindNode \in Nat
      BY IdFinite, LookupAssumption, IdAssumption, DhtQueryAssumption
    <2>2. s = Closest(id, S, NumFindNode)
      BY <1>2, <2>1, NearestClosest
    <2> QED BY <2>2 DEF lookup
  <1>3. ASSUME NEW q \in DtQuery
        PROVE  /\ q.dst \in Id /\ ToSet(q.nodes) = ToSet(q.nodes) /\ ToSet(q.nodes) \in SUBSET Id
               /\ ToSet(q.nodes) \cup q.told \in SUBSET Id /\ q \in DtunQueries
    <2>1. q.dst \in Id /\ q.nodes \in Seq(Node) /\ q.told \in SUBSET Node /\ q.told \in SUBSET Id
      BY NodesAreIds DEF DtQuery
    <2>2. ToSet(q.nodes) \in SUBSET Id /\ q.nodes \in Seq(Id)
      BY <2>1, ToSetOf, NodesAreIds
    <2>3. q \in DtunQueries
      BY <2>1, <2>2 DEF DtQuery, DtunQueries
    <2> QED BY <2>1, <2>2, <2>3
  <1>4. DtunTypeOK
    <2>1. dtun_query \in [Nonces -> DtunQueries]
      BY <1>3 DEF DtInv
    <2>2. ASSUME NEW n \in Nonces
          PROVE  dtun_query[n].nodes = lookup(dtun_query[n].dst, ToSet(dtun_query[n].nodes))
      BY <1>1, <1>2, <1>3 DEF Listed
    <2>3. dtun_table \subseteq Peers /\ tables \in [Peers -> SUBSET Id]
      BY NodesAreIds DEF DtInv
    <2> QED BY <2>1, <2>2, <2>3 DEF DtunTypeOK
  <1>5. NumQueryExact
    <2> SUFFICES ASSUME NEW n \in Nonces, dtun_query[n].active
                 PROVE  /\ dtun_query[n].num_query \in 1..Cardinality(dtun_query[n].timers)
                        /\ ~ dtun_query[n].late =>
                             /\ dtun_query[n].num_query = Cardinality(dtun_query[n].timers)
                             /\ dtun_query[n].num_query <= MaxQuery
      BY DEF NumQueryExact
    <2> DEFINE q == dtun_query[n]
    <2>1. DtOpen(q) /\ q.num_query > 0
      BY <1>1
    <2> HIDE DEF q
    <2>2. q.num_query \in Nat /\ Cardinality(q.timers) \in Nat
      BY <2>1, DtOpenTypes
    <2>3. q.num_query \in 1..Cardinality(q.timers)
      BY <2>1, <2>2 DEF DtOpen
    <2> QED BY <2>1, <2>3 DEF DtOpen, q
  <1>6. DtunCalledOnce
    <2> SUFFICES ASSUME NEW n \in Nonces
                 PROVE  dtun_query[n].calls =
                          (IF dtun_query[n].active \/ dtun_query[n].kind = "none" THEN 0 ELSE 1)
      BY DEF DtunCalledOnce
    <2>1. CASE dtun_query[n].active
      BY <1>1, <2>1 DEF DtOpen
    <2>2. CASE dtun_query[n] = NoDtunQuery
      BY <2>2 DEF NoDtunQuery
    <2>3. CASE DtDone(dtun_query[n])
      BY <2>3 DEF DtDone
    <2> QED BY <1>1, <2>1, <2>2, <2>3
  <1>7. ASSUME NEW n \in Nonces, dtun_query[n].kind # "none", ~ dtun_query[n].active
        PROVE  DtDone(dtun_query[n])
    BY <1>1, <1>7 DEF NoDtunQuery
  <1>8. DtunConverged
    <2> SUFFICES ASSUME NEW n \in Nonces, dtun_query[n].kind # "none", ~ dtun_query[n].active,
                        ~ dtun_query[n].expired, ~ dtun_query[n].late, ~ dtun_query[n].found
                 PROVE  /\ dtun_query[n].timers = {}
                        /\ ToSet(dtun_query[n].nodes) \subseteq dtun_query[n].sent
                        /\ dtun_query[n].nodes =
                             lookup(dtun_query[n].dst,
                                       ToSet(dtun_query[n].nodes) \cup dtun_query[n].told)
      BY DEF DtunConverged
    <2> DEFINE q == dtun_query[n]
    <2>1. DtDone(q) /\ q \in DtQuery
      BY <1>1, <1>7
    <2>2. ~ q.expired /\ ~ q.late /\ ~ q.found
      OBVIOUS
    <2> HIDE DEF q
    <2>3. q.timers = {} /\ ToSet(q.nodes) \subseteq q.sent
      BY <2>1, <2>2 DEF DtDone
    <2>4. Nearest(q.dst, ToSet(q.nodes) \cup q.told, NumFindNode, q.nodes)
      BY <2>1, <2>2 DEF DtDone, Best
    <2>5. q.nodes = lookup(q.dst, ToSet(q.nodes) \cup q.told)
      BY <1>2, <1>3, <2>1, <2>4
    <2> QED BY <1>3, <2>1, <2>3, <2>5 DEF q
  <1>9. FoundIfAsked
    BY <1>7 DEF FoundIfAsked, DtDone
  <1> QED BY <1>4, <1>5, <1>6, <1>8, <1>9 DEF DtunQueryInv, ResultExact

\* A lookup of the tunnel network keeps count of its open questions, waits for one as long as
\* it is open, and calls func once, for any peers and tables.  It says too few only after
\* find_value() has got a reply that no timer waited for.
THEOREM TunnelLookups == DtunSpec => []DtunQueryInv
  <1>1. DtunInit => DtInv
    BY DtStart
  <1>2. DtInv /\ [DtunNext]_dtunvars => DtInv'
    BY DtStep
  <1>3. DtInv => DtunQueryInv
    BY DtImplies
  <1> QED BY <1>1, <1>2, <1>3, PTL DEF DtunSpec

\* What it gives its caller is what it should have found: the nearest of all the nodes it was
\* told, all of them asked, and the value if a node that has it was asked; unless a question
\* was given up or such a reply came.
THEOREM TunnelResults == DtunSpec => []ResultExact
  <1>1. DtunInit => DtInv
    BY DtStart
  <1>2. DtInv /\ [DtunNext]_dtunvars => DtInv'
    BY DtStep
  <1>3. DtInv => ResultExact
    BY DtImplies
  <1> QED BY <1>1, <1>2, <1>3, PTL DEF DtunSpec
=============================================================================
