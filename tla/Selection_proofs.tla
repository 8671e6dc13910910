--------------------------- MODULE Selection_proofs ---------------------------
(***************************************************************************)
(* What the provers need to know of selections, and of the least number    *)
(* with a property: the form in which the other proofs reason by           *)
(* induction.                                                              *)
(***************************************************************************)
EXTENDS Selection, FiniteSetTheorems, WellFoundedInduction, TLAPS

\* A set of positions is finite, and so is each part of it.
LEMMA PositionsFinite ==
    ASSUME NEW n \in Nat, NEW P \in SUBSET (1..n)
    PROVE  IsFiniteSet(P) /\ Cardinality(P) \in Nat /\ Cardinality(P) =< n
  <1>1. IsFiniteSet(1..n) /\ Cardinality(1..n) = n
    BY FS_Interval
  <1> QED BY <1>1, FS_Subset, FS_CardinalityType

\* Ranks are below the number of positions, and increase.
LEMMA RankIncreases ==
    ASSUME NEW n \in Nat, NEW P \in SUBSET (1..n)
    PROVE  /\ \A i \in P : Rank(P, i) \in 0..(Cardinality(P) - 1)
           /\ \A i, j \in P : i < j => Rank(P, i) < Rank(P, j)
  <1>1. IsFiniteSet(P)
    BY PositionsFinite
  <1>2. P \subseteq Int
    OBVIOUS
  <1>3. ASSUME NEW i \in P PROVE Rank(P, i) \in 0..(Cardinality(P) - 1)
    <2> DEFINE before == {j \in P : j < i}
    <2>1. before \subseteq P /\ before # P
      BY <1>2, <1>3
    <2>2. Cardinality(before) \in Nat /\ Cardinality(before) < Cardinality(P) /\ Cardinality(P) \in Nat
      BY <1>1, <2>1, FS_Subset, FS_CardinalityType
    <2> QED BY <2>2 DEF Rank
  <1>4. ASSUME NEW i \in P, NEW j \in P, i < j PROVE Rank(P, i) < Rank(P, j)
    <2> DEFINE before == {l \in P : l < i}
               beforeJ == {l \in P : l < j}
    <2>1. before \subseteq beforeJ
      <3>1. ASSUME NEW l \in P, l < i PROVE l < j
        <4>1. l \in Int /\ i \in Int /\ j \in Int
          BY <1>2
        <4> QED BY <1>4, <3>1, <4>1
      <3> QED BY <3>1
    <2>2. i \in beforeJ /\ i \notin before
      BY <1>2, <1>4
    <2>3. beforeJ \subseteq P
      OBVIOUS
    <2>4. IsFiniteSet(beforeJ)
      BY <1>1, <2>3, FS_Subset
    <2> HIDE DEF before, beforeJ
    <2>5. before # beforeJ
      BY <2>2
    <2>6. Cardinality(before) < Cardinality(beforeJ)
      <3>1. before \in SUBSET beforeJ
        BY <2>1
      <3>2. IsFiniteSet(before) /\ Cardinality(before) =< Cardinality(beforeJ)
            /\ Cardinality(before) # Cardinality(beforeJ)
        BY <2>4, <2>5, <3>1, FS_Subset
      <3>3. Cardinality(before) \in Nat /\ Cardinality(beforeJ) \in Nat
        BY <2>4, <3>2, FS_CardinalityType
      <3> QED BY <3>2, <3>3
    <2> QED BY <2>6 DEF Rank, before, beforeJ
  <1> QED BY <1>3, <1>4

\* Every rank is that of a position.
LEMMA RankOnto ==
    ASSUME NEW n \in Nat, NEW P \in SUBSET (1..n), NEW k \in 0..(Cardinality(P) - 1)
    PROVE  \E i \in P : Rank(P, i) = k
  <1> DEFINE R == 0..(Cardinality(P) - 1)
             f == [i \in P |-> Rank(P, i)]
  <1>1. IsFiniteSet(P) /\ Cardinality(P) \in Nat
    BY PositionsFinite
  <1>2. f \in [P -> R]
    BY RankIncreases
  <1>3. ASSUME NEW i \in P, NEW j \in P, f[i] = f[j] PROVE i = j
    <2>1. Rank(P, i) = Rank(P, j) /\ Rank(P, i) \in R
      BY <1>2, <1>3
    <2>2. ~(Rank(P, i) < Rank(P, j)) /\ ~(Rank(P, j) < Rank(P, i))
      BY <1>1, <2>1
    <2>3. ~(i < j) /\ ~(j < i)
      BY <2>2, RankIncreases
    <2>4. i \in Int /\ j \in Int
      OBVIOUS
    <2> QED BY <2>3, <2>4
  <1>4. IsFiniteSet(R) /\ Cardinality(R) = Cardinality(P)
    BY <1>1, FS_Interval
  <1>5. f \in Injection(P, R)
    BY <1>2, <1>3 DEF Injection, IsInjective
  <1>6. f \in Surjection(P, R)
    BY <1>1, <1>4, <1>5, FS_Injection
  <1> QED BY <1>6 DEF Surjection

\* The positions are listed once each, in order.
LEMMA OrderedProperties ==
    ASSUME NEW n \in Nat, NEW P \in SUBSET (1..n)
    PROVE  /\ Cardinality(P) \in 0..n
           /\ Ordered(P) \in [1..Cardinality(P) -> P]
           /\ \A k, l \in 1..Cardinality(P) : k < l => Ordered(P)[k] < Ordered(P)[l]
           /\ \A i \in P : \E k \in 1..Cardinality(P) : Ordered(P)[k] = i
           /\ \A k \in 1..Cardinality(P) : Rank(P, Ordered(P)[k]) = k - 1
  <1> DEFINE c == Cardinality(P)
  <1>1. c \in 0..n
    BY PositionsFinite
  <1>2. ASSUME NEW k \in 1..c
        PROVE  Ordered(P)[k] \in P /\ Rank(P, Ordered(P)[k]) = k - 1
    <2>1. \E i \in P : Rank(P, i) = k - 1
      BY <1>1, RankOnto
    <2>2. Ordered(P)[k] = CHOOSE i \in P : Rank(P, i) = k - 1
      BY DEF Ordered
    <2> QED BY <2>1, <2>2
  <1>3. Ordered(P) \in [1..c -> P]
    <2>1. Ordered(P) = [k \in 1..c |-> Ordered(P)[k]]
      BY DEF Ordered
    <2> QED BY <1>2, <2>1
  <1>4. P \subseteq Int
    OBVIOUS
  <1>5. \A i, j \in P : i < j => Rank(P, i) < Rank(P, j)
    BY RankIncreases
  <1>6. ASSUME NEW k \in 1..c, NEW l \in 1..c, k < l
        PROVE  Ordered(P)[k] < Ordered(P)[l]
    <2>1. /\ Ordered(P)[k] \in P /\ Ordered(P)[l] \in P
          /\ Rank(P, Ordered(P)[k]) = k - 1 /\ Rank(P, Ordered(P)[l]) = l - 1
      BY <1>2
    <2>2. k - 1 < l - 1 /\ ~(l - 1 < k - 1) /\ k - 1 # l - 1
      BY <1>1, <1>6
    <2>3. ~(Ordered(P)[l] < Ordered(P)[k]) /\ Ordered(P)[l] # Ordered(P)[k]
      BY <1>5, <2>1, <2>2
    <2>4. \A i, j \in Int : i < j \/ j < i \/ j = i
      OBVIOUS
    <2> QED BY <1>4, <2>1, <2>3, <2>4
  <1>7. ASSUME NEW i \in P
        PROVE  \E k \in 1..c : Ordered(P)[k] = i
    <2>1. Rank(P, i) \in 0..(c - 1)
      BY RankIncreases
    <2>2. Rank(P, i) + 1 \in 1..c /\ (Rank(P, i) + 1) - 1 = Rank(P, i)
      BY <1>1, <2>1
    <2>3. PICK k \in 1..c : k - 1 = Rank(P, i)
      BY <2>2
    <2>4. Ordered(P)[k] \in P /\ Rank(P, Ordered(P)[k]) = Rank(P, i)
      BY <1>2, <2>3
    <2>5. ~(Rank(P, i) < Rank(P, i))
      BY <2>1
    <2>6. ~(Ordered(P)[k] < i) /\ ~(i < Ordered(P)[k])
      BY <1>5, <2>4, <2>5
    <2>7. \A a, b \in Int : a < b \/ b < a \/ a = b
      OBVIOUS
    <2>8. Ordered(P)[k] = i
      BY <1>4, <2>4, <2>6, <2>7
    <2> QED BY <2>8
  <1> QED BY <1>1, <1>2, <1>3, <1>6, <1>7

\* A position that is left out, but none before it, is where it would be put
\* back: the places before it are those of the positions before it.
LEMMA PlacesBefore ==
    ASSUME NEW n \in Nat, NEW P \in SUBSET (1..n), NEW i \in 1..n, i \notin P,
           \A j \in 1..n : j < i => j \in P
    PROVE  /\ i =< Cardinality(P) + 1
           /\ \A k \in 1..Cardinality(P) : Ordered(P)[k] < i <=> k < i
  <1> DEFINE before == {j \in P : j < i}
  <1>1. IsFiniteSet(P) /\ Cardinality(P) \in Nat
    BY PositionsFinite
  <1>2. before = 1..(i - 1) /\ before \in SUBSET P
    <2>1. ASSUME NEW j \in before PROVE j \in 1..(i - 1)
      OBVIOUS
    <2>2. ASSUME NEW j \in 1..(i - 1) PROVE j \in before
      <3>1. j \in 1..n /\ j < i
        OBVIOUS
      <3> QED BY <3>1
    <2> HIDE DEF before
    <2>3. before = 1..(i - 1)
      BY <2>1, <2>2
    <2> QED BY <2>3 DEF before
  <1>3. Cardinality(before) = i - 1 /\ i - 1 =< Cardinality(P)
    <2>1. i - 1 \in Nat
      OBVIOUS
    <2>2. Cardinality(1..(i - 1)) = i - 1
      BY <2>1, FS_Interval
    <2> HIDE DEF before
    <2> QED BY <1>1, <1>2, <2>2, FS_Subset
  <1>4. ASSUME NEW k \in 1..Cardinality(P)
        PROVE  Ordered(P)[k] < i <=> k < i
    <2> DEFINE j == Ordered(P)[k]
    <2>1. j \in P /\ Rank(P, j) = k - 1 /\ j \in Int /\ j # i
      <3>1. j \in P /\ Rank(P, j) = k - 1
        BY OrderedProperties
      <3> HIDE DEF j
      <3> QED BY <3>1
    <2> HIDE DEF j
    <2> DEFINE beforeJ == {l \in P : l < j}
    <2>2. beforeJ \in SUBSET P /\ Cardinality(beforeJ) = k - 1 /\ IsFiniteSet(beforeJ)
      BY <1>1, <2>1, FS_Subset DEF Rank
    <2>3. P \subseteq Int
      OBVIOUS
    <2>4. CASE j < i
      <3>1. beforeJ \in SUBSET before
        <4>1. \A l \in Int : l < j => l < i
          BY <2>1, <2>4
        <4> QED BY <2>3, <4>1
      <3>2. j \in before /\ j \notin beforeJ
        BY <2>1, <2>4
      <3>3. beforeJ # before
        BY <3>2
      <3>4. IsFiniteSet(before)
        BY <1>1, <1>2, FS_Subset
      <3> HIDE DEF before, beforeJ
      <3>5. Cardinality(beforeJ) =< Cardinality(before) /\ Cardinality(beforeJ) # Cardinality(before)
        BY <3>1, <3>3, <3>4, FS_Subset
      <3> QED BY <1>1, <1>3, <2>2, <2>4, <3>5 DEF j
    <2>5. CASE i < j
      <3>1. before \in SUBSET beforeJ
        <4>1. \A l \in Int : l < i => l < j
          BY <2>1, <2>5
        <4> QED BY <2>3, <4>1
      <3> HIDE DEF before, beforeJ
      <3>2. Cardinality(before) =< Cardinality(beforeJ)
        BY <2>2, <3>1, FS_Subset
      <3>3. ~(k < i) /\ ~(j < i)
        BY <1>1, <1>3, <2>1, <2>2, <2>5, <3>2
      <3> QED BY <3>3 DEF j
    <2>6. j < i \/ i < j
      BY <2>1
    <2> QED BY <2>4, <2>5, <2>6
  <1> QED BY <1>1, <1>3, <1>4

\* A selection holds the elements of these positions, in their order.
LEMMA SelectedProperties ==
    ASSUME NEW S, NEW s \in Seq(S), NEW P \in SUBSET DOMAIN s
    PROVE  /\ Selected(s, P) \in Seq(S)
           /\ Len(Selected(s, P)) = Cardinality(P)
           /\ Len(Selected(s, P)) \in Nat /\ Len(Selected(s, P)) =< Len(s)
           /\ DOMAIN Selected(s, P) = 1..Cardinality(P)
           /\ Ordered(P) \in [DOMAIN Selected(s, P) -> P]
           /\ \A k \in DOMAIN Selected(s, P) : Selected(s, P)[k] = s[Ordered(P)[k]]
           /\ \A k, l \in DOMAIN Selected(s, P) : k < l => Ordered(P)[k] < Ordered(P)[l]
           /\ \A i \in P : \E k \in DOMAIN Selected(s, P) : Ordered(P)[k] = i
  <1>1. DOMAIN s = 1..Len(s) /\ Len(s) \in Nat
    OBVIOUS
  <1>2. /\ Cardinality(P) \in 0..Len(s)
        /\ Ordered(P) \in [1..Cardinality(P) -> P]
        /\ \A k, l \in 1..Cardinality(P) : k < l => Ordered(P)[k] < Ordered(P)[l]
        /\ \A i \in P : \E k \in 1..Cardinality(P) : Ordered(P)[k] = i
    BY <1>1, OrderedProperties
  <1>3. DOMAIN Selected(s, P) = 1..Cardinality(P)
    BY DEF Selected
  <1>4. \A k \in 1..Cardinality(P) : Selected(s, P)[k] = s[Ordered(P)[k]]
    BY DEF Selected
  <1>5. \A k \in 1..Cardinality(P) : s[Ordered(P)[k]] \in S
    BY <1>1, <1>2
  <1>6. Selected(s, P) \in [1..Cardinality(P) -> S]
    BY <1>5 DEF Selected
  <1>7. Selected(s, P) \in Seq(S) /\ Len(Selected(s, P)) = Cardinality(P)
    BY <1>2, <1>6
  <1>8. Len(Selected(s, P)) \in Nat /\ Len(Selected(s, P)) =< Len(s)
    BY <1>1, <1>2, <1>7
  <1> HIDE DEF Selected
  <1> QED BY <1>2, <1>3, <1>4, <1>7, <1>8

\* Every nonempty set of natural numbers has a least element: induction, for
\* what is stated of the elements of a set.
LEMMA LeastNumber ==
    ASSUME NEW T \in SUBSET Nat, T # {}
    PROVE  \E n \in T : \A m \in T : n =< m
  <1> DEFINE Less == {ss \in Nat \X Nat : ss[1] < ss[2]}
  <1>1. IsWellFoundedOn(Less, Nat)
    BY NatLessThanWellFounded, Zenon DEF OpToRel
  <1> HIDE DEF Less
  <1>2. PICK n \in T : \A m \in T : <<m, n>> \notin Less
    BY <1>1, WFMin, Zenon
  <1>3. ASSUME NEW m \in T PROVE n =< m
    <2>1. m \in Nat /\ n \in Nat /\ <<m, n>> \notin Less
      BY <1>2
    <2>2. ~(m < n)
      BY <2>1 DEF Less
    <2> QED BY <2>1, <2>2
  <1> QED BY <1>3

\* The element that CHOOSE takes for the least one.
LEMMA LeastChosen ==
    ASSUME NEW T \in SUBSET Nat, T # {}
    PROVE  /\ (CHOOSE x \in T : \A y \in T : x =< y) \in T
           /\ \A y \in T : (CHOOSE x \in T : \A z \in T : x =< z) =< y
  <1>1. \E x \in T : \A y \in T : x =< y
    BY LeastNumber
  <1> QED BY <1>1
=============================================================================
