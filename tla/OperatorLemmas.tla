---------------------------- MODULE OperatorLemmas ----------------------------
(***************************************************************************)
(* Facts about operators of the libraries that the proofs of several       *)
(* modules need: the least element of a set, and functions that are        *)
(* extended or restricted.                                                 *)
(***************************************************************************)
EXTENDS Integers, Sequences, SequencesExt, FiniteSets, FiniteSetsExt, Functions,
        TLC, TLAPS, FiniteSetTheorems, FunctionTheorems, SequenceTheorems, WellFoundedInduction

\* A set of natural numbers that is not empty has a least element.
LEMMA LeastNat ==
  ASSUME NEW S, S \subseteq Nat, S # {}
  PROVE  Min(S) \in S /\ \A y \in S : Min(S) <= y
  <1> DEFINE Less == {ss \in Nat \X Nat : ss[1] < ss[2]}
  <1>1. IsWellFoundedOn(Less, Nat)
    BY NatLessThanWellFounded DEF OpToRel
  <1>2. PICK x \in S : \A y \in S : ~(<<y, x>> \in Less)
    <2> HIDE DEF Less
    <2> QED
      BY <1>1, WFMin
  <1>3. ASSUME NEW y \in S PROVE x <= y
    <2>1. x \in Nat /\ y \in Nat
      OBVIOUS
    <2>2. ~(<<y, x>> \in Less)
      BY <1>2
    <2>3. ~(y < x)
      BY <2>1, <2>2
    <2> QED
      BY <2>1, <2>3
  <1> QED
    BY <1>3 DEF Min

\* A set of natural numbers up to n that is not empty has a greatest element.
LEMMA GreatestNat ==
  ASSUME NEW n \in Nat, NEW S, S \subseteq 0 .. n, S # {}
  PROVE  Max(S) \in S /\ \A y \in S : y <= Max(S)
<1> DEFINE T == {k \in 0 .. n : n - k \in S}
<1>1. T \subseteq Nat /\ T # {}
  <2>1. PICK x \in S : x \in 0 .. n  OBVIOUS
  <2>2. n - x \in 0 .. n /\ n - (n - x) = x  BY <2>1
  <2>3. PICK y \in 0 .. n : n - y = x  BY <2>2
  <2>4. y \in T  BY <2>1, <2>3
  <2>5. T \subseteq Nat  OBVIOUS
  <2> QED  BY <2>4, <2>5
<1>2. PICK t \in T : \A y \in T : t <= y  BY <1>1, LeastNat
<1>3. n - t \in S /\ t \in 0 .. n  BY <1>2
<1>4. ASSUME NEW y \in S PROVE n - t >= y
  <2>1. y \in 0 .. n /\ n - y \in 0 .. n /\ n - (n - y) = y  OBVIOUS
  <2>2. n - y \in T  BY <2>1
  <2>3. t <= n - y  BY <1>2, <2>2
  <2> QED  BY <1>3, <2>1, <2>3
<1>5. Max(S) \in S /\ \A y \in S : Max(S) >= y  BY <1>3, <1>4 DEF Max
<1>6. \A y \in S : y \in Int  OBVIOUS
<1> QED  BY <1>5, <1>6

\* The smaller of two numbers.
LEMMA MinOfTwo ==
  ASSUME NEW a \in Int, NEW b \in Int
  PROVE  Min({a, b}) = IF a <= b THEN a ELSE b
  BY DEF Min

\* A restriction agrees with the function on its domain.
LEMMA Restricted ==
  ASSUME NEW f, NEW S
  PROVE  DOMAIN Restrict(f, S) = S /\ \A x \in S : Restrict(f, S)[x] = f[x]
  BY DEF Restrict

\* A function has at most as many values as arguments: when its values are
\* among n + 1 numbers and its arguments among n, one of them is free.
LEMMA FreeValue ==
  ASSUME NEW n \in Nat, NEW f, DOMAIN f \subseteq 0 .. n - 1
  PROVE  (0 .. n) \ Range(f) # {}
  <1> SUFFICES ASSUME 0 .. n \subseteq Range(f) PROVE FALSE
    OBVIOUS
  <1> DEFINE D == {x \in DOMAIN f : f[x] \in 0 .. n}
             g == [x \in D |-> f[x]]
  <1>1. IsFiniteSet(D) /\ Cardinality(D) <= n
    <2>1. IsFiniteSet(0 .. n - 1) /\ Cardinality(0 .. n - 1) = n
      BY FS_Interval
    <2>2. D \in SUBSET (0 .. n - 1)
      OBVIOUS
    <2> QED
      BY <2>1, <2>2, FS_Subset, Z3
  <1>2. g \in Surjection(D, 0 .. n)
    <2>1. \A y \in 0 .. n : \E x \in D : g[x] = y
      BY DEF Range
    <2> QED
      BY <2>1, Fun_IsSurj
  <1>3. Cardinality(0 .. n) <= Cardinality(D)
    BY <1>1, <1>2, FS_Surjection
  <1>4. Cardinality(0 .. n) = n + 1
    BY FS_Interval
  <1>5. Cardinality(D) \in Nat
    BY <1>1, FS_CardinalityType
  <1> QED
    BY <1>1, <1>3, <1>4, <1>5

\* A set of n elements or more has n different ones.
LEMMA DifferentElements ==
  ASSUME NEW S, IsFiniteSet(S), NEW n \in Nat, n <= Cardinality(S)
  PROVE  \E f \in [1 .. n -> S] : \A j, k \in 1 .. n : f[j] = f[k] => j = k
  <1>1. Cardinality(S) \in Nat /\ ExistsBijection(1 .. Cardinality(S), S)
    BY FS_CardinalityType
  <1>2. PICK g \in Bijection(1 .. Cardinality(S), S) : TRUE
    BY <1>1 DEF ExistsBijection
  <1>3. g \in [1 .. Cardinality(S) -> S] /\ (\A a, b \in 1 .. Cardinality(S) : g[a] = g[b] => a = b)
    BY <1>2 DEF Bijection, Injection, IsInjective
  <1>4. \A j \in 1 .. n : j \in 1 .. Cardinality(S)
    BY <1>1
  <1>5. [j \in 1 .. n |-> g[j]] \in [1 .. n -> S]
    BY <1>3, <1>4
  <1>6. \A j, k \in 1 .. n : [l \in 1 .. n |-> g[l]][j] = [l \in 1 .. n |-> g[l]][k] => j = k
    BY <1>3, <1>4
  <1> QED
    BY <1>5, <1>6

\* A function on 1 .. n is a sequence of n elements.
LEMMA FunctionIsSeq ==
  ASSUME NEW S, NEW n \in Nat, NEW p \in [1 .. n -> S]
  PROVE  p \in Seq(S) /\ Len(p) = n
  <1>1. p \in Seq(S)
    BY SeqDef
  <1> QED
    BY <1>1, LenProperties

\* The elements of a sequence with another one behind it.
LEMMA Joined ==
  ASSUME NEW S, NEW s \in Seq(S), NEW p \in Seq(S)
  PROVE  /\ s \o p \in Seq(S) /\ Len(s \o p) = Len(s) + Len(p)
         /\ \A i \in 1 .. Len(s) : (s \o p)[i] = s[i]
         /\ \A i \in Len(s) + 1 .. Len(s) + Len(p) : i - Len(s) \in 1 .. Len(p) /\ (s \o p)[i] = p[i - Len(s)]
  <1>1. Len(s) \in Nat /\ Len(p) \in Nat
    BY LenProperties
  <1>2. s \o p \in Seq(S) /\ Len(s \o p) = Len(s) + Len(p)
        /\ \A i \in 1 .. Len(s) + Len(p) : (s \o p)[i] = IF i <= Len(s) THEN s[i] ELSE p[i - Len(s)]
    BY ConcatProperties
  <1>3. \A i \in 1 .. Len(s) : (s \o p)[i] = s[i]
    <2>1. \A i \in 1 .. Len(s) : i \in 1 .. Len(s) + Len(p) /\ i <= Len(s)
      BY <1>1
    <2> QED
      BY <2>1, <1>2
  <1>4. \A i \in Len(s) + 1 .. Len(s) + Len(p) : i - Len(s) \in 1 .. Len(p) /\ (s \o p)[i] = p[i - Len(s)]
    <2>1. \A i \in Len(s) + 1 .. Len(s) + Len(p) :
            i \in 1 .. Len(s) + Len(p) /\ ~(i <= Len(s)) /\ i - Len(s) \in 1 .. Len(p)
      BY <1>1
    <2> QED
      BY <2>1, <1>2
  <1> QED
    BY <1>2, <1>3, <1>4

===============================================================================
