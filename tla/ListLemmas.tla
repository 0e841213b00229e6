----------------------------- MODULE ListLemmas -----------------------------
(***************************************************************************)
(* What the other proofs need of numbers and lists: the least element of a *)
(* set and induction, the elements of a set as a list, and the positions   *)
(* and the elements a filter keeps.                                        *)
(***************************************************************************)
EXTENDS Integers, SequencesExt, Sublists, FiniteSetTheorems, SequenceTheorems,
        WellFoundedInduction, TLAPS

(* A set of numbers that is not empty has a least element.                 *)
LEMMA SmallestIs ==
    ASSUME NEW S \in SUBSET Nat, S # {}
    PROVE  Min(S) \in S /\ \A x \in S : Min(S) <= x
<1>1. \E x \in S : \A y \in S : <<y, x>> \notin OpToRel(<, Nat)
  BY NatLessThanWellFounded, WFMin
<1>2. \A x, y \in Nat : <<y, x>> \in OpToRel(<, Nat) <=> y < x
  BY DEF OpToRel
<1>3. \A x, y \in Nat : ~(y < x) => x <= y
  OBVIOUS
<1>4. \E x \in S : \A y \in S : x <= y
  BY <1>1, <1>2, <1>3
<1> QED
  BY <1>4 DEF Min

(* A set of numbers that has 0 and, with n, n + 1 has them all.            *)
LEMMA Induction ==
    ASSUME NEW S, 0 \in S, \A n \in Nat : n \in S => n + 1 \in S
    PROVE  Nat \subseteq S
<1> SUFFICES ASSUME Nat \ S # {} PROVE FALSE
  OBVIOUS
<1>1. PICK n \in Nat \ S : \A m \in Nat \ S : n <= m
  BY SmallestIs
<1>2. n # 0 /\ n - 1 \in Nat /\ n - 1 \in S
  BY <1>1
<1> QED
  BY <1>1, <1>2

(* The elements of a finite set, each once.                                *)
LEMMA SetToSeqOnce ==
    ASSUME NEW S, IsFiniteSet(S)
    PROVE  /\ SetToSeq(S) \in [1..Cardinality(S) -> S]
           /\ \A a, b \in 1..Cardinality(S) : SetToSeq(S)[a] = SetToSeq(S)[b] => a = b
           /\ \A x \in S : \E a \in 1..Cardinality(S) : SetToSeq(S)[a] = x
           /\ Cardinality(S) \in Nat
<1> DEFINE n == Cardinality(S)
           q == SetToSeq(S)
<1>1. n \in Nat /\ ExistsBijection(1..n, S)
  BY FS_CardinalityType
<1>2. \E f \in [1..n -> S] : IsInjective(f)
  BY <1>1 DEF ExistsBijection, Bijection, Injection, IsInjective
<1>3. q \in [1..n -> S] /\ IsInjective(q)
  BY <1>2 DEF SetToSeq
<1>4. q \in Injection(1..n, S)
  BY <1>3 DEF Injection, IsInjective
<1>5. Cardinality(1..n) = n
  BY <1>1, FS_Interval
<1>6. q \in Surjection(1..n, S)
  BY <1>4, <1>5, FS_Injection
<1> QED
  BY <1>1, <1>3, <1>6 DEF IsInjective, Surjection

-----------------------------------------------------------------------------
(* Lists that are filtered.                                                *)

UpTo(at, i) == {j \in at : j <= i}

LEMMA UpToGrows ==
    ASSUME NEW n \in Nat, NEW at \in SUBSET (1..n), NEW i \in at, NEW j \in at, i < j
    PROVE  Cardinality(UpTo(at, i)) < Cardinality(UpTo(at, j))
<1>1. IsFiniteSet(UpTo(at, j))
  <2>1. IsFiniteSet(1..n)
    BY FS_Interval
  <2>2. UpTo(at, j) \subseteq 1..n
    BY DEF UpTo
  <2> QED
    BY <2>1, <2>2, FS_Subset
<1>2. UpTo(at, i) \subseteq UpTo(at, j)
  <2>1. \A k \in at : k <= i => k <= j
    OBVIOUS
  <2> QED
    BY <2>1 DEF UpTo
<1>3. j \in UpTo(at, j) /\ j \notin UpTo(at, i)
  BY DEF UpTo
<1> QED
  BY <1>1, <1>2, <1>3, FS_Subset, FS_CardinalityType

LEMMA NthIs ==
    ASSUME NEW n \in Nat, NEW at \in SUBSET (1..n)
    PROVE  /\ IsFiniteSet(at) /\ Cardinality(at) \in 0..n
           /\ \A k \in 1..Cardinality(at) :
                 Nth(at, k) \in at /\ Cardinality(UpTo(at, Nth(at, k))) = k
           /\ \A i \in at : \E k \in 1..Cardinality(at) : Nth(at, k) = i
           /\ \A k, l \in 1..Cardinality(at) : k < l => Nth(at, k) < Nth(at, l)
<1> DEFINE m == Cardinality(at)
           rank == [i \in at |-> Cardinality(UpTo(at, i))]
<1>1. IsFiniteSet(at) /\ m \in 0..n
  <2>1. IsFiniteSet(1..n) /\ Cardinality(1..n) = n
    BY FS_Interval
  <2>2. IsFiniteSet(at) /\ m <= n
    BY <2>1, FS_Subset
  <2>3. m \in Nat
    BY <2>2, FS_CardinalityType
  <2> QED
    BY <2>2, <2>3
<1>2. rank \in [at -> 1..m]
  <2> SUFFICES ASSUME NEW i \in at PROVE Cardinality(UpTo(at, i)) \in 1..m
    OBVIOUS
  <2>1. UpTo(at, i) \subseteq at /\ i \in UpTo(at, i)
    BY DEF UpTo
  <2>2. IsFiniteSet(UpTo(at, i)) /\ Cardinality(UpTo(at, i)) <= m
    BY <1>1, <2>1, FS_Subset
  <2>3. Cardinality(UpTo(at, i)) # 0
    BY <2>1, <2>2, FS_EmptySet
  <2> QED
    BY <1>1, <2>2, <2>3, FS_CardinalityType
<1>3. \A i, j \in at : i < j => rank[i] < rank[j]
  BY UpToGrows
<1>4. rank \in Injection(at, 1..m)
  <2>1. \A i, j \in at : i # j => i < j \/ j < i
    OBVIOUS
  <2>2. \A i \in at : rank[i] \in Nat
    BY <1>2
  <2> HIDE DEF rank
  <2>3. \A i, j \in at : rank[i] = rank[j] => i = j
    BY <1>3, <2>1, <2>2
  <2> QED
    BY <1>2, <2>3 DEF Injection, IsInjective
<1>5. rank \in Surjection(at, 1..m)
  <2>1. IsFiniteSet(1..m) /\ Cardinality(1..m) = m
    BY <1>1, FS_Interval
  <2> QED
    BY <1>1, <1>4, <2>1, FS_Injection
<1>6. \A k \in 1..m : Nth(at, k) \in at /\ rank[Nth(at, k)] = k
  <2> SUFFICES ASSUME NEW k \in 1..m PROVE Nth(at, k) \in at /\ rank[Nth(at, k)] = k
    OBVIOUS
  <2>1. \E i \in at : rank[i] = k
    BY <1>5 DEF Surjection
  <2>2. \E i \in at : Cardinality({j \in at : j <= i}) = k
    BY <2>1 DEF UpTo
  <2> QED
    BY <2>2 DEF Nth, UpTo
<1>9. \A k \in 1..m : Cardinality(UpTo(at, Nth(at, k))) = k
  BY <1>6
<1> HIDE DEF m, rank
<1>7. \A i \in at : rank[i] \in 1..m /\ Nth(at, rank[i]) = i
  BY <1>2, <1>4, <1>6 DEF Injection, IsInjective
<1>8. \A k, l \in 1..m : k < l => Nth(at, k) < Nth(at, l)
  <2> SUFFICES ASSUME NEW k \in 1..m, NEW l \in 1..m, k < l PROVE Nth(at, k) < Nth(at, l)
    OBVIOUS
  <2>1. /\ Nth(at, k) \in 1..n /\ Nth(at, l) \in 1..n
        /\ Nth(at, k) # Nth(at, l) /\ ~(Nth(at, l) < Nth(at, k))
    <3>1. /\ Nth(at, k) \in at /\ Nth(at, l) \in at
          /\ rank[Nth(at, k)] = k /\ rank[Nth(at, l)] = l
      BY <1>6
    <3>2. ~(l < k) /\ k # l
      BY <1>1
    <3> QED
      BY <1>3, <3>1, <3>2
  <2> QED
    BY <2>1
<1> QED
  BY <1>1, <1>6, <1>7, <1>8, <1>9 DEF m

(* When a greater number joins a set, the others keep their places in it.  *)
LEMMA NthGrows ==
    ASSUME NEW n \in Nat, NEW at \in SUBSET (1..n), NEW more, more = at \cup {n + 1}
    PROVE  /\ Cardinality(at) \in Nat /\ Cardinality(more) = Cardinality(at) + 1
           /\ \A k \in 1..Cardinality(at) : Nth(at, k) \in at /\ Nth(more, k) = Nth(at, k)
           /\ Nth(more, Cardinality(at) + 1) = n + 1
<1> DEFINE m == Cardinality(at)
<1>1. /\ IsFiniteSet(at) /\ m \in Nat /\ n + 1 \notin at
      /\ more \in SUBSET (1..(n + 1)) /\ n + 1 \in Nat
  <2>1. IsFiniteSet(at) /\ Cardinality(at) \in 0..n
    BY NthIs
  <2> QED
    BY <2>1
<1>2. IsFiniteSet(more) /\ Cardinality(more) = m + 1
  BY <1>1, FS_AddElement
<1>3. \A k \in 1..m : Nth(at, k) \in at /\ Cardinality(UpTo(at, Nth(at, k))) = k
  BY NthIs
<1>4. \A k \in 1..(m + 1) : Nth(more, k) \in more /\ Cardinality(UpTo(more, Nth(more, k))) = k
  BY <1>1, <1>2, NthIs
<1>5. ASSUME NEW i \in more, NEW j \in more, Cardinality(UpTo(more, i)) = Cardinality(UpTo(more, j))
      PROVE  i = j
  <2>1. i \in 1..(n + 1) /\ j \in 1..(n + 1)
    BY <1>1
  <2>2. ASSUME NEW a \in more, NEW b \in more, a < b
        PROVE  Cardinality(UpTo(more, a)) # Cardinality(UpTo(more, b))
    <3>1. UpTo(more, a) \subseteq more /\ UpTo(more, b) \subseteq more
      BY DEF UpTo
    <3>2. Cardinality(UpTo(more, a)) \in Nat /\ Cardinality(UpTo(more, b)) \in Nat
      BY <1>2, <3>1, FS_Subset, FS_CardinalityType
    <3>3. Cardinality(UpTo(more, a)) < Cardinality(UpTo(more, b))
      BY <1>1, <2>2, UpToGrows
    <3> QED
      BY <3>2, <3>3
  <2>3. ~(i < j) /\ ~(j < i)
    BY <1>5, <2>2
  <2> QED
    BY <2>1, <2>3
<1>6. \A i \in at : UpTo(more, i) = UpTo(at, i) /\ i \in more
  BY DEF UpTo
<1>7. UpTo(more, n + 1) = more /\ n + 1 \in more
  <2>1. \A i \in more : i <= n + 1
    BY <1>1
  <2> QED
    BY <2>1 DEF UpTo
<1>8. m \in 0..n /\ \A k \in 1..m : k \in 1..(m + 1)
  BY <1>1, NthIs
<1>9. m + 1 \in 1..(m + 1)
  BY <1>1
<1> HIDE DEF m
<1>10. ASSUME NEW k \in 1..m PROVE Nth(more, k) = Nth(at, k)
  <2>1. /\ Nth(more, k) \in more /\ Cardinality(UpTo(more, Nth(more, k))) = k
        /\ Nth(at, k) \in more /\ Cardinality(UpTo(more, Nth(at, k))) = k
    BY <1>3, <1>4, <1>6, <1>8
  <2> QED
    BY <1>5, <2>1
<1>11. Nth(more, m + 1) = n + 1
  <2>1. /\ Nth(more, m + 1) \in more /\ Cardinality(UpTo(more, Nth(more, m + 1))) = m + 1
        /\ n + 1 \in more /\ Cardinality(UpTo(more, n + 1)) = m + 1
    BY <1>2, <1>4, <1>7, <1>9
  <2> QED
    BY <1>5, <2>1
<1> QED
  BY <1>1, <1>2, <1>3, <1>10, <1>11 DEF m

(* What is kept of a list: as many elements as positions, the elements at  *)
(* the positions, and no others.                                           *)
LEMMA PickIs ==
    ASSUME NEW S, NEW s \in Seq(S), NEW at \in SUBSET (DOMAIN s)
    PROVE  /\ Pick(s, at) \in Seq(S) /\ Len(Pick(s, at)) = Cardinality(at)
           /\ DOMAIN Pick(s, at) = 1..Cardinality(at) /\ Cardinality(at) \in 0..Len(s)
           /\ \A k \in 1..Cardinality(at) : Nth(at, k) \in at /\ Pick(s, at)[k] = s[Nth(at, k)]
           /\ \A i \in at : \E k \in 1..Cardinality(at) : Nth(at, k) = i /\ Pick(s, at)[k] = s[i]
           /\ \A k, l \in 1..Cardinality(at) : k < l => Nth(at, k) < Nth(at, l)
<1>1. Len(s) \in Nat /\ DOMAIN s = 1..Len(s)
  BY LenProperties
<1> DEFINE m == Cardinality(at)
           p == Pick(s, at)
<1>2. /\ m \in 0..Len(s)
      /\ \A k \in 1..m : Nth(at, k) \in at
      /\ \A i \in at : \E k \in 1..m : Nth(at, k) = i
      /\ \A k, l \in 1..m : k < l => Nth(at, k) < Nth(at, l)
  BY <1>1, NthIs
<1>3. p = [k \in 1..m |-> s[Nth(at, k)]]
  BY DEF Pick
<1>4. \A i \in at : s[i] \in S
  BY <1>1, ElementOfSeq
<1> HIDE DEF m, p
<1>5. p \in [1..m -> S]
  BY <1>2, <1>3, <1>4
<1>6. m \in Nat
  BY <1>1, <1>2
<1>7. p \in Seq(S)
  BY <1>5, <1>6, IsASeq
<1>8. DOMAIN p = 1..m /\ Len(p) = m
  BY <1>5, <1>6, <1>7, LenProperties
<1> QED
  BY <1>2, <1>3, <1>7, <1>8 DEF m, p
=============================================================================
