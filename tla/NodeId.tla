------------------------------- MODULE NodeId -------------------------------
(***************************************************************************)
(* Identifiers of nodes and their distances (libcage/bn.hpp, rttable.cpp). *)
(* An identifier is the set of its one bits, so that ^ is the symmetric    *)
(* difference; the code has 160 bits, a model a few.                       *)
(***************************************************************************)
EXTENDS Integers, Sequences, FiniteSetsExt

CONSTANTS
    Bits,       \* the length of an identifier
    m_id        \* the identifier of this node

ASSUME BitsAssumption == Bits \in Nat \ {0}

Id == SUBSET (0..(Bits - 1))

ASSUME IdAssumption == m_id \in Id

Xor(a, b) == (a \ b) \cup (b \ a)

\* (a ^ id) < (b ^ id): the highest bit in which a and b differ decides.
Closer(id, a, b) == a # b /\ Max(Xor(a, b)) \in Xor(b, id)

\* The num identifiers of S that are closest to id, in this order.
Closest(id, S, num) ==
    LET ranked == [a \in S |-> 1 + Cardinality({b \in S : Closer(id, b, a)})]
    IN  [k \in 1..Min({num, Cardinality(S)}) |-> CHOOSE a \in S : ranked[a] = k]
-----------------------------------------------------------------------------
(* merge_nodes(): one round of its loop, and the loop. *)

MergeRound(id, v1, v2, s) ==
    LET more1 == s.it1 <= Len(v1)
        more2 == s.it2 <= Len(v2)
        same == more1 /\ more2 /\ v1[s.it1] = v2[s.it2]
        first == more1 /\ (more2 => same \/ Closer(id, v1[s.it1], v2[s.it2]))
        second == more2 /\ (same \/ ~ first)
        x == IF first THEN v1[s.it1] ELSE v2[s.it2]
    IN  IF ~ more1 /\ ~ more2 THEN s
        ELSE [it1 |-> IF first THEN s.it1 + 1 ELSE s.it1,
              it2 |-> IF second THEN s.it2 + 1 ELSE s.it2,
              dst |-> IF \E k \in DOMAIN s.dst : s.dst[k] = x THEN s.dst
                      ELSE Append(s.dst, x)]

merge_nodes(id, v1, v2, max) ==
    LET round[n \in 0..max] ==
            IF n = 0 THEN [it1 |-> 1, it2 |-> 1, dst |-> <<>>]
            ELSE MergeRound(id, v1, v2, round[n - 1])
    IN  round[max].dst
=============================================================================
