--------------------------- MODULE HashTable_proofs ---------------------------
(***************************************************************************)
(* Theorems about module HashTable, for all keys, texts and hash functions *)
(* and for all programs.                                                   *)
(***************************************************************************)
EXTENDS HashTableRefinement, OperatorLemmas

-----------------------------------------------------------------------------
(***************************************************************************)
(* Lists of entries.  From(e)[n] are those of the list that starts at n.   *)
(***************************************************************************)
IsFrom(f, e) == f = [n \in 0 .. Len(e) |-> IF n = nil THEN {} ELSE {n} \cup f[e[n].cdr]]
From(e) == CHOOSE f : IsFrom(f, e)

Falls(e) == Len(e) \in Nat /\ \A n \in 1 .. Len(e) : e[n].cdr \in 0 .. n - 1

\* There is such a function.
LEMMA FromExists ==
  ASSUME NEW e, Falls(e)
  PROVE  \E f : IsFrom(f, e)
<1> DEFINE G(f, n) == IF n = 0 THEN {} ELSE {n} \cup f[e[n].cdr]
           Works(f, m) == f = [n \in 0 .. m |-> G(f, n)]
           Bad == {m \in 0 .. Len(e) : ~ \E f : Works(f, m)}
<1>1. Len(e) \in Nat /\ \A n \in 1 .. Len(e) : e[n].cdr \in 0 .. n - 1  BY DEF Falls
<1>2. Bad = {}
  <2>1. SUFFICES ASSUME Bad # {} PROVE FALSE  OBVIOUS
  <2>2. Bad \subseteq Nat  BY <1>1
  <2>3. PICK m \in Bad : \A y \in Bad : m <= y  BY <2>1, <2>2, LeastNat
  <2>4. m \in 0 .. Len(e) /\ ~ \E f : Works(f, m)  BY <2>3
  <2>5. CASE m = 0
    <3> DEFINE g == [n \in 0 .. 0 |-> {}]
    <3>1. Works(g, 0)
      <4>1. \A n \in 0 .. 0 : n = 0  OBVIOUS
      <4> QED  BY <4>1
    <3> QED  BY <3>1, <2>4, <2>5
  <2>6. CASE m # 0
    <3>1. m - 1 \in 0 .. Len(e) /\ m \in 1 .. Len(e) /\ m - 1 \notin Bad
      <4>1. m \in Nat /\ m - 1 \in 0 .. Len(e) /\ m \in 1 .. Len(e) /\ ~(m <= m - 1)  BY <1>1, <2>4, <2>6
      <4> HIDE DEF Bad
      <4> QED  BY <4>1, <2>3
    <3>2. PICK f : Works(f, m - 1)  BY <3>1
    <3>3. f = [n \in 0 .. m - 1 |-> G(f, n)]  BY <3>2
    <3> DEFINE g == [n \in 0 .. m |-> G(f, n)]
    <3>4. \A n \in 0 .. m - 1 : g[n] = f[n]
      <4>1. \A n \in 0 .. m - 1 : n \in 0 .. m  BY <1>1, <2>4
      <4>2. \A n \in 0 .. m - 1 : g[n] = G(f, n)  BY <4>1
      <4>3. \A n \in 0 .. m - 1 : f[n] = G(f, n)
        <5> HIDE DEF G, Works, g
        <5> QED  BY <3>3
      <4> QED  BY <4>2, <4>3
    <3>5. \A n \in 0 .. m : G(g, n) = G(f, n)
      <4>1. \A n \in 0 .. m : n = 0 \/ e[n].cdr \in 0 .. m - 1  BY <1>1, <2>4
      <4> HIDE DEF g
      <4> QED  BY <3>4, <4>1
    <3>6. Works(g, m)  
      <4> HIDE DEF G
      <4> QED  BY <3>5
    <3> QED  BY <3>6, <2>4
  <2> QED  BY <2>5, <2>6
<1>3. \E f : Works(f, Len(e))
  <2> HIDE DEF Works
  <2> QED  BY <1>1, <1>2
<1> QED  BY <1>3 DEF IsFrom, nil

\* How a list goes on.
LEMMA FromNext ==
  ASSUME NEW e, Falls(e)
  PROVE  From(e)[0] = {} /\ \A n \in 1 .. Len(e) : From(e)[n] = {n} \cup From(e)[e[n].cdr]
<1> DEFINE f == From(e)
<1>1. f = [n \in 0 .. Len(e) |-> IF n = 0 THEN {} ELSE {n} \cup f[e[n].cdr]]
  <2>1. IsFrom(From(e), e)  BY FromExists DEF From
  <2> QED  BY <2>1 DEF IsFrom, nil
<1>2. Len(e) \in Nat  BY DEF Falls
<1> HIDE DEF f
<1>3. f[0] = {}  BY <1>1, <1>2
<1>4. \A n \in 1 .. Len(e) : n \in 0 .. Len(e) /\ n # 0  BY <1>2
<1>5. \A n \in 1 .. Len(e) : f[n] = {n} \cup f[e[n].cdr]  BY <1>1, <1>4
<1> QED  BY <1>3, <1>5 DEF f

\* What holds of n when it holds of all numbers below holds of 0 .. Len(e): here of
\* the set of those for which it does.
LEMMA Descent ==
  ASSUME NEW N \in Nat, NEW S, \A n \in 0 .. N : (\A m \in 0 .. n - 1 : m \in S) => n \in S
  PROVE  0 .. N \subseteq S
<1> DEFINE Bad == (0 .. N) \ S
<1>1. SUFFICES ASSUME Bad # {} PROVE FALSE  OBVIOUS
<1>2. Bad \subseteq Nat  OBVIOUS
<1>3. PICK n \in Bad : \A y \in Bad : n <= y  BY <1>1, <1>2, LeastNat
<1>4. \A m \in 0 .. n - 1 : m \in 0 .. N /\ ~(n <= m)  BY <1>3
<1>5. \A m \in 0 .. n - 1 : m \in S  BY <1>3, <1>4
<1> QED  BY <1>3, <1>5

\* A list holds numbers up to its first.
LEMMA FromBelow ==
  ASSUME NEW e, Falls(e), NEW n \in 0 .. Len(e)
  PROVE  From(e)[n] \subseteq 1 .. n
<1> DEFINE f == From(e)
           S == {k \in 0 .. Len(e) : f[k] \subseteq 1 .. k}
<1>1. Len(e) \in Nat /\ \A k \in 1 .. Len(e) : e[k].cdr \in 0 .. k - 1  BY DEF Falls
<1>2. f[0] = {} /\ \A k \in 1 .. Len(e) : f[k] = {k} \cup f[e[k].cdr]  BY FromNext
<1> HIDE DEF f
<1>3. ASSUME NEW k \in 0 .. Len(e), \A m \in 0 .. k - 1 : m \in S PROVE k \in S
  <2>1. CASE k = 0  BY <2>1, <1>2
  <2>2. CASE k # 0
    <3>1. k \in 1 .. Len(e) /\ e[k].cdr \in 0 .. k - 1  BY <1>1, <2>2
    <3>2. f[e[k].cdr] \subseteq 1 .. e[k].cdr  BY <1>3, <3>1
    <3>3. 1 .. e[k].cdr \subseteq 1 .. k /\ k \in 1 .. k  BY <3>1
    <3> QED  BY <1>2, <3>1, <3>2, <3>3
  <2> QED  BY <2>1, <2>2
<1>4. 0 .. Len(e) \subseteq S
  <2> HIDE DEF S
  <2> QED  BY <1>1, <1>3, Descent
<1> QED  BY <1>4 DEF f

\* A list from one of its entries on is what it holds from there.
LEMMA FromTail ==
  ASSUME NEW e, Falls(e), NEW n \in 0 .. Len(e), NEW k \in From(e)[n]
  PROVE  k \in 1 .. Len(e) /\ From(e)[k] = {m \in From(e)[n] : m <= k}
<1> DEFINE f == From(e)
           S == {i \in 0 .. Len(e) : \A j \in f[i] : f[j] = {m \in f[i] : m <= j}}
<1>1. Len(e) \in Nat /\ \A i \in 1 .. Len(e) : e[i].cdr \in 0 .. i - 1  BY DEF Falls
<1>2. f[0] = {} /\ \A i \in 1 .. Len(e) : f[i] = {i} \cup f[e[i].cdr]  BY FromNext
<1>3. \A i \in 0 .. Len(e) : f[i] \subseteq 1 .. i  BY FromBelow
<1> HIDE DEF f
<1>4. ASSUME NEW i \in 0 .. Len(e), \A m \in 0 .. i - 1 : m \in S PROVE i \in S
  <2>1. CASE i = 0  BY <2>1, <1>2
  <2>2. CASE i # 0
    <3>1. i \in 1 .. Len(e) /\ e[i].cdr \in 0 .. i - 1 /\ e[i].cdr \in 0 .. Len(e) /\ i \in Int  BY <1>1, <2>2
    <3>2. f[i] = {i} \cup f[e[i].cdr] /\ f[e[i].cdr] \subseteq 1 .. e[i].cdr  BY <1>2, <1>3, <3>1
    <3>3. \A j \in f[e[i].cdr] : f[j] = {m \in f[e[i].cdr] : m <= j}  BY <1>4, <3>1
    <3>4. \A j \in f[e[i].cdr] : j \in Int /\ ~(i <= j)  BY <3>1, <3>2
    <3>5. ASSUME NEW j \in f[i] PROVE f[j] = {m \in f[i] : m <= j}
      <4>1. CASE j = i
        <5>1. \A m \in f[i] : m <= i  BY <1>3, <3>1
        <5> QED  BY <4>1, <5>1
      <4>2. CASE j # i
        <5>1. j \in f[e[i].cdr]  BY <3>2, <4>2
        <5> QED  BY <3>2, <3>3, <3>4, <5>1
      <4> QED  BY <4>1, <4>2
    <3> QED  BY <3>5
  <2> QED  BY <2>1, <2>2
<1>5. 0 .. Len(e) \subseteq S
  <2> HIDE DEF S
  <2> QED  BY <1>1, <1>4, Descent
<1>6. k \in 1 .. n  BY <1>3 DEF f
<1> QED  BY <1>1, <1>5, <1>6 DEF f

\* A list does not change when what its entries lead to does not.
LEMMA FromSame ==
  ASSUME NEW e, Falls(e), NEW e2, Falls(e2),
         NEW n \in 0 .. Len(e), n \in 0 .. Len(e2), \A k \in 1 .. n : e2[k].cdr = e[k].cdr
  PROVE  From(e2)[n] = From(e)[n]
<1> DEFINE f == From(e)
           g == From(e2)
           S == {k \in 0 .. n : g[k] = f[k]}
<1>1. Len(e) \in Nat /\ Len(e2) \in Nat /\ \A k \in 1 .. Len(e) : e[k].cdr \in 0 .. k - 1  BY DEF Falls
<1>2. f[0] = {} /\ \A k \in 1 .. Len(e) : f[k] = {k} \cup f[e[k].cdr]  BY FromNext
<1>3. g[0] = {} /\ \A k \in 1 .. Len(e2) : g[k] = {k} \cup g[e2[k].cdr]  BY FromNext
<1> HIDE DEF f, g
<1>4. ASSUME NEW k \in 0 .. n, \A m \in 0 .. k - 1 : m \in S PROVE k \in S
  <2>1. CASE k = 0  BY <2>1, <1>2, <1>3
  <2>2. CASE k # 0
    <3>1. k \in 1 .. Len(e) /\ k \in 1 .. Len(e2) /\ k \in 1 .. n  BY <1>1, <2>2
    <3>2. e[k].cdr \in 0 .. k - 1 /\ e2[k].cdr = e[k].cdr  BY <1>1, <3>1
    <3>3. g[e[k].cdr] = f[e[k].cdr]  BY <1>4, <3>2
    <3>4. g[k] = {k} \cup g[e2[k].cdr] /\ f[k] = {k} \cup f[e[k].cdr]  BY <1>2, <1>3, <3>1
    <3>5. g[k] = f[k]  BY <3>2, <3>3, <3>4
    <3> QED  BY <3>5
  <2> QED  BY <2>1, <2>2
<1>5. 0 .. n \subseteq S
  <2>1. n \in Nat  BY <1>1
  <2> HIDE DEF S
  <2> QED  BY <2>1, <1>4, Descent
<1> QED  BY <1>5 DEF f, g

\* The lists of module HashTable.
LEMMA ListIsFrom == \A p : List(p) = IF p = unused THEN {} ELSE From(entry)[p]
BY DEF List, From, IsFrom

\* The same after a step.
LEMMA ListIsFromNext == \A p : List(p)' = IF p' = unused THEN {} ELSE From(entry')[p']
BY DEF List, From, IsFrom

-----------------------------------------------------------------------------
(***************************************************************************)
(* The inductive invariant.                                                *)
(***************************************************************************)
Entries == [key : Keys, value : Values, cdr : Nat]
ListOf(e, p) == IF p = unused THEN {} ELSE From(e)[p]

\* Entries e are made in order, and a list has entries of one bucket.  A value
\* is not older than its entry.
EntriesOK(e) ==
  /\ e \in Seq(Entries) /\ Falls(e)
  /\ \A n \in 1 .. Len(e) :
       /\ e[n].key \in KeysOf[interface] /\ e[n].value \in 0 .. n
       /\ e[n].cdr # nil => hash(e[e[n].cdr].key) = hash(e[n].key)

\* Vectors vs hold lists of entries e of the right buckets.
HeadsOK(e, vs) ==
  /\ vs \in Seq([Hashes -> {unused} \cup Nat])
  /\ \A v \in 1 .. Len(vs), h \in Hashes :
       /\ vs[v][h] \in {unused} \cup 0 .. Len(e)
       /\ vs[v][h] > 0 => hash(e[vs[v][h]].key) = h

\* No entry is both in the table and in a vector of buckets that was cleared.
Apart(e, vs, b) ==
  \A v \in 1 .. Len(vs), h, g \in Hashes :
    v # b => ListOf(e, vs[v][h]) \cap ListOf(e, vs[b][g]) = {}

Results == Values \cup {cell_f, unspecified, Crash}
Walks(e, vs) ==
  [vector : 1 .. Len(vs), h : -1 .. Size, next : 0 .. Len(e), seen : SUBSET Nat, entries : 0 .. Len(e)]

\* Walk w has seen what it should have.
Seen(e, vs, w) ==
  \A h \in 0 .. w.h : \A n \in ListOf(e, vs[w.vector][h]) :
    n <= w.entries => n \in w.seen \/ (h = w.h /\ n \in ListOf(e, w.next))

\* All this of entries e, vectors vs of which the table has b, and walk w.
Tables(e, vs, b, w) ==
  /\ EntriesOK(e) /\ HeadsOK(e, vs)
  /\ b = Len(vs) /\ b \in Nat \ {0}
  /\ Apart(e, vs, b)
  /\ w \in Walks(e, vs) /\ w.h \in 0 .. Size
  /\ w.h < Size => Seen(e, vs, w)

\* The entries of a bucket of the table.
Chain(h) == ListOf(entry, vectors[buckets][h])

IInv ==
  /\ interface \in {"hashq", "hash", "symbols"}
  /\ Tables(entry, vectors, buckets, walk)
  /\ handle \in 0 .. Len(entry)
  /\ result \in Results

-----------------------------------------------------------------------------
(***************************************************************************)
(* Buckets and lists.                                                      *)
(***************************************************************************)
\* A key has a bucket.
LEMMA HashOfKey ==
  ASSUME interface \in {"hashq", "hash", "symbols"}, NEW k \in KeysOf[interface]
  PROVE  k \in Keys /\ hash(k) \in Hashes
<1>1. k \in Keys /\ Size \in Nat \ {0}  BY KeyAssumption
<1>2. type[k] \notin WordTypes => hash_cstring[text[k]] \in Hashes  BY <1>1, KeyAssumption DEF Hashes
<1>3. CASE interface = "hashq"
  <2>1. type[k] \in NameTypes  BY <1>3, InterfaceAssumption
  <2> QED  BY <1>1, <1>2, <1>3, <2>1 DEF NameTypes, WordTypes, hash
<1>4. CASE interface # "hashq"
  <2>1. 0 \in Hashes  BY <1>1 DEF Hashes
  <2> QED  BY <1>1, <1>2, <1>4, <2>1 DEF WordTypes, hash, hash_
<1> QED  BY <1>1, <1>3, <1>4

\* The entries of a list are those up to its first that have its hash.
LEMMA ListFacts ==
  ASSUME NEW e, EntriesOK(e), NEW p \in {unused} \cup 0 .. Len(e)
  PROVE  /\ Len(e) \in Nat
         /\ ListOf(e, p) \subseteq 1 .. Len(e)
         /\ \A n \in ListOf(e, p) : n <= p /\ hash(e[n].key) = hash(e[p].key)
         /\ p \in 1 .. Len(e) => ListOf(e, p) = {p} \cup ListOf(e, e[p].cdr)
         /\ p \in {unused, nil} => ListOf(e, p) = {}
<1> DEFINE N == Len(e)
           f == From(e)
           S == {k \in 0 .. N : \A n \in f[k] : hash(e[n].key) = hash(e[k].key)}
<1>1. N \in Nat /\ Falls(e) /\ \A k \in 1 .. N : e[k].cdr \in 0 .. k - 1  BY DEF EntriesOK, Falls
<1>2. f[0] = {} /\ \A k \in 1 .. N : f[k] = {k} \cup f[e[k].cdr]  BY <1>1, FromNext
<1>3. \A k \in 0 .. N : f[k] \subseteq 1 .. k  BY <1>1, FromBelow
<1> HIDE DEF f
<1>4. ASSUME NEW k \in 0 .. N, \A m \in 0 .. k - 1 : m \in S PROVE k \in S
  <2>1. CASE k = 0  BY <2>1, <1>2
  <2>2. CASE k # 0
    <3>1. k \in 1 .. N /\ e[k].cdr \in 0 .. k - 1 /\ e[k].cdr \in S  BY <1>1, <1>4, <2>2
    <3>2. CASE e[k].cdr = 0  BY <1>2, <3>1, <3>2
    <3>3. CASE e[k].cdr # 0
      <4>1. hash(e[e[k].cdr].key) = hash(e[k].key)  BY <3>1, <3>3 DEF EntriesOK, nil
      <4>2. \A n \in f[e[k].cdr] : hash(e[n].key) = hash(e[k].key)  BY <3>1, <4>1
      <4> QED  BY <4>2, <1>2, <3>1
    <3> QED  BY <3>2, <3>3
  <2> QED  BY <2>1, <2>2
<1>5. 0 .. N \subseteq S
  <2> HIDE DEF S
  <2> QED  BY <1>1, <1>4, Descent
<1>6. CASE p = unused  BY <1>1, <1>6 DEF ListOf, unused
<1>7. CASE p \in 0 .. N
  <2>1. p # unused /\ ListOf(e, p) = f[p]  BY <1>7, <1>1 DEF ListOf, unused, f
  <2>2. f[p] \subseteq 1 .. p /\ 1 .. p \subseteq 1 .. N /\ \A n \in 1 .. p : n <= p  BY <1>1, <1>3, <1>7
  <2>3. \A n \in f[p] : hash(e[n].key) = hash(e[p].key)  BY <1>5, <1>7
  <2>4. p \in 1 .. N => ListOf(e, p) = {p} \cup ListOf(e, e[p].cdr)
    <3>1. SUFFICES ASSUME p \in 1 .. N PROVE ListOf(e, p) = {p} \cup ListOf(e, e[p].cdr)
      OBVIOUS
    <3>2. e[p].cdr \in 0 .. p - 1 /\ p \in Nat  BY <1>1, <3>1
    <3>3. e[p].cdr # unused  BY <3>2 DEF unused
    <3>4. ListOf(e, e[p].cdr) = f[e[p].cdr]  BY <3>3 DEF ListOf, f
    <3> QED  BY <2>1, <3>1, <3>4, <1>2
  <2> QED  BY <1>1, <1>2, <2>1, <2>2, <2>3, <2>4 DEF nil
<1> QED  BY <1>6, <1>7

\* A list stays what it is when its entries lead where they did.
LEMMA ListStays ==
  ASSUME NEW e, EntriesOK(e), NEW e2, Falls(e2), Len(e) <= Len(e2),
         NEW p \in {unused} \cup 0 .. Len(e), \A n \in 1 .. Len(e) : e2[n].cdr = e[n].cdr
  PROVE  ListOf(e2, p) = ListOf(e, p)
<1>1. Falls(e) /\ Len(e) \in Nat /\ Len(e2) \in Nat  BY DEF EntriesOK, Falls
<1>2. CASE p = unused  BY <1>2 DEF ListOf
<1>3. CASE p \in 0 .. Len(e)
  <2>1. p \in 0 .. Len(e2) /\ \A n \in 1 .. p : n \in 1 .. Len(e)  BY <1>1, <1>3
  <2>2. From(e2)[p] = From(e)[p]  BY <1>1, <1>3, <2>1, FromSame
  <2> QED  BY <2>2 DEF ListOf
<1> QED  BY <1>2, <1>3

\* The first of the entries found.
LEMMA FirstFacts ==
  ASSUME NEW n \in Nat, NEW S, S \subseteq 1 .. n
  PROVE  /\ First(S) \in 0 .. n
         /\ S # {} => First(S) \in S
         /\ S = {} => First(S) = nil
         /\ \A m \in S : m <= First(S)
<1>1. S \cup {nil} \subseteq 0 .. n /\ S \cup {nil} # {} /\ \A m \in S : m > nil  BY DEF nil
<1>2. First(S) \in S \cup {nil} /\ \A y \in S \cup {nil} : y <= First(S)
  BY <1>1, GreatestNat DEF First
<1>3. First(S) \in 0 .. n  BY <1>1, <1>2
<1>4. S # {} => First(S) \in S
  <2>1. SUFFICES ASSUME NEW m \in S PROVE First(S) \in S  OBVIOUS
  <2>2. m \in Nat /\ m > 0 /\ m <= First(S)  BY <1>1, <1>2, <2>1
  <2> QED  BY <1>2, <1>3, <2>2 DEF nil
<1> QED  BY <1>2, <1>3, <1>4

\* The bucket of a key.
LEMMA BucketFacts ==
  ASSUME IInv, NEW k \in KeysOf[interface]
  PROVE  /\ k \in Keys /\ hash(k) \in Hashes
         /\ bucket(hash(k)) \in {unused} \cup 0 .. Len(entry)
         /\ Bucket(k) = ListOf(entry, bucket(hash(k)))
         /\ Len(entry) \in Nat /\ Bucket(k) \subseteq 1 .. Len(entry)
         /\ \A n \in Bucket(k) : hash(entry[n].key) = hash(k)
         /\ bucket(hash(k)) > 0 => hash(entry[bucket(hash(k))].key) = hash(k)
<1> DEFINE p == bucket(hash(k))
<1>1. k \in Keys /\ hash(k) \in Hashes  BY HashOfKey DEF IInv
<1>2. EntriesOK(entry) /\ HeadsOK(entry, vectors) /\ buckets \in 1 .. Len(vectors)
  BY DEF IInv, Tables
<1>3. p \in {unused} \cup 0 .. Len(entry) /\ (p > 0 => hash(entry[p].key) = hash(k))
  BY <1>1, <1>2 DEF HeadsOK, bucket
<1>4. Bucket(k) = ListOf(entry, p)  BY ListIsFrom DEF Bucket, ListOf
<1> HIDE DEF p
<1>5. /\ Len(entry) \in Nat /\ ListOf(entry, p) \subseteq 1 .. Len(entry)
      /\ \A n \in ListOf(entry, p) : n <= p /\ hash(entry[n].key) = hash(entry[p].key)
      /\ p \in {unused, nil} => ListOf(entry, p) = {}
  BY <1>2, <1>3, ListFacts
<1>6. \A n \in ListOf(entry, p) : hash(entry[n].key) = hash(k)
  <2>1. CASE p \in {unused, nil}  BY <2>1, <1>5
  <2>2. CASE p \notin {unused, nil}
    <3>1. p > 0  BY <2>2, <1>3, <1>5 DEF unused, nil
    <3> QED  BY <3>1, <1>3, <1>5
  <2> QED  BY <2>1, <2>2
<1> QED  BY <1>1, <1>3, <1>4, <1>5, <1>6 DEF p

\* The entries of a list of a vector have the hash of its place.
LEMMA HeadHash ==
  ASSUME NEW e, NEW vs, EntriesOK(e), HeadsOK(e, vs), NEW v \in 1 .. Len(vs), NEW h \in Hashes
  PROVE  \A n \in ListOf(e, vs[v][h]) : hash(e[n].key) = h
<1>1. /\ vs[v][h] \in {unused} \cup 0 .. Len(e)
      /\ vs[v][h] > 0 => hash(e[vs[v][h]].key) = h
  BY DEF HeadsOK
<1>2. CASE vs[v][h] \in {unused, nil}
  <2>1. ListOf(e, vs[v][h]) = {}  BY <1>1, <1>2, ListFacts
  <2> QED  BY <2>1
<1>3. CASE vs[v][h] \notin {unused, nil}
  <2>1. vs[v][h] > 0  BY <1>1, <1>3 DEF unused, nil, EntriesOK, Falls
  <2> QED  BY <1>1, <2>1, ListFacts
<1> QED  BY <1>2, <1>3

\* What a lookup finds.
LEMMA FindFacts ==
  ASSUME IInv, NEW k \in KeysOf[interface]
  PROVE  /\ Find(k) \in 0 .. Len(entry) /\ ValueAt(Find(k)) \in Results
         /\ assq(k, Bucket(k)) \in 0 .. Len(entry) /\ ValueAt(assq(k, Bucket(k))) \in Results
         /\ assoc(k, Bucket(k)) \in 0 .. Len(entry)
<1>1. Len(entry) \in Nat /\ Bucket(k) \subseteq 1 .. Len(entry)  BY BucketFacts
<1>2. \A n \in 1 .. Len(entry) : entry[n].value \in Values
  <2>1. entry \in Seq(Entries)  BY DEF IInv, Tables, EntriesOK
  <2>2. \A n \in 1 .. Len(entry) : entry[n] \in Entries  BY <2>1
  <2>3. \A x \in Entries : x.value \in Values  BY DEF Entries
  <2> QED  BY <2>2, <2>3
<1>3. \A n \in 0 .. Len(entry) : ValueAt(n) \in Results  BY <1>1, <1>2 DEF ValueAt, Results, nil
<1>4. assq(k, Bucket(k)) \in 0 .. Len(entry)
  <2> DEFINE S == {n \in Bucket(k) : assq_p(k, entry[n].key)}
  <2>1. S \subseteq 1 .. Len(entry)  BY <1>1
  <2> HIDE DEF S
  <2>2. First(S) \in 0 .. Len(entry)  BY <1>1, <2>1, FirstFacts
  <2> QED  BY <2>2 DEF S, assq
<1>5. assoc(k, Bucket(k)) \in 0 .. Len(entry)
  <2> DEFINE S == {n \in Bucket(k) : equal2_p(k, entry[n].key)}
  <2>1. S \subseteq 1 .. Len(entry)  BY <1>1
  <2> HIDE DEF S
  <2>2. First(S) \in 0 .. Len(entry)  BY <1>1, <2>1, FirstFacts
  <2> QED  BY <2>2 DEF S, assoc
<1>6. Find(k) \in 0 .. Len(entry)  BY <1>4, <1>5 DEF Find
<1> QED  BY <1>3, <1>4, <1>5, <1>6

-----------------------------------------------------------------------------
(***************************************************************************)
(* The steps.                                                              *)
(***************************************************************************)
LEMMA InitIInv == Init => IInv
<1> SUFFICES ASSUME Init PROVE IInv  OBVIOUS
<1>1. Size \in Nat \ {0} /\ MaxEntries \in Nat  BY KeyAssumption
<1>2. entry = << >> /\ Len(entry) = 0 /\ EntriesOK(entry)
  BY DEF Init, EntriesOK, Falls
<1>3. /\ vectors = <<NoBuckets>> /\ buckets = 1 /\ Len(vectors) = 1
      /\ vectors[1] = NoBuckets
  BY DEF Init
<1>4. NoBuckets \in [Hashes -> {unused} \cup Nat] /\ \A h \in Hashes : NoBuckets[h] = unused
  BY DEF NoBuckets
<1>5. HeadsOK(entry, vectors)
  <2>1. vectors \in Seq([Hashes -> {unused} \cup Nat])  BY <1>3, <1>4
  <2>2. \A v \in 1 .. Len(vectors), h \in Hashes : vectors[v][h] = unused  BY <1>3, <1>4
  <2>3. ~(unused > 0)  BY DEF unused
  <2> QED  BY <2>1, <2>2, <2>3 DEF HeadsOK
<1>6. Apart(entry, vectors, buckets)  BY <1>3 DEF Apart
<1>7. walk = Idle /\ walk.h = Size /\ walk \in Walks(entry, vectors)
  BY <1>1, <1>2, <1>3 DEF Init, Idle, Walks, nil
<1>8. Tables(entry, vectors, buckets, walk)  BY <1>1, <1>2, <1>3, <1>5, <1>6, <1>7 DEF Tables
<1> QED  BY <1>2, <1>8 DEF IInv, Init, Results, nil

\* Each step keeps the invariant if it leaves the tables and the walk as they
\* should be.
LEMMA StepIInv ==
  ASSUME IInv, interface' = interface, Tables(entry', vectors', buckets', walk'),
         handle' \in 0 .. Len(entry'), result' \in Results
  PROVE  IInv'
<1>1. \A k : hash(k)' = hash(k)  BY DEF hash
<1>2. EntriesOK(entry)' <=> EntriesOK(entry')  BY <1>1 DEF EntriesOK
<1>3. HeadsOK(entry, vectors)' <=> HeadsOK(entry', vectors')  BY <1>1 DEF HeadsOK
<1>4. Apart(entry, vectors, buckets)' <=> Apart(entry', vectors', buckets')  BY DEF Apart
<1>5. Seen(entry, vectors, walk)' <=> Seen(entry', vectors', walk')  BY DEF Seen
<1>6. Walks(entry, vectors)' = Walks(entry', vectors')  BY DEF Walks
<1>7. Tables(entry, vectors, buckets, walk)'
  BY <1>2, <1>3, <1>4, <1>5, <1>6 DEF Tables
<1>8. Results' = Results  BY DEF Results
<1> QED  BY <1>7, <1>8 DEF IInv

\* A step that leaves the table and the walk alone.
LEMMA QuietIInv ==
  ASSUME IInv, UNCHANGED <<interface, table, walk>>,
         handle' \in 0 .. Len(entry), result' \in Results
  PROVE  IInv'
<1>1. entry' = entry /\ vectors' = vectors /\ buckets' = buckets /\ walk' = walk /\ interface' = interface
  BY DEF table
<1>2. Tables(entry', vectors', buckets', walk')  BY <1>1 DEF IInv
<1> QED  BY <1>1, <1>2, StepIInv

\* A new entry joins its bucket, the others do not change.
LEMMA InsertTables ==
  ASSUME IInv, NEW k \in KeysOf[interface], Insert(k)
  PROVE  /\ Tables(entry', vectors', buckets', walk') /\ interface' = interface
         /\ Len(entry') = Len(entry) + 1 /\ Len(entry) \in Nat
         /\ NewValue \in Values /\ entry'[Len(entry')].value = NewValue
         /\ entry'[Len(entry')].key = k /\ \A n \in 1 .. Len(entry) : entry'[n] = entry[n]
         /\ \A h \in Hashes : Chain(h)' = IF h = hash(k) THEN {Len(entry')} \cup Chain(h) ELSE Chain(h)
<1> DEFINE N == Len(entry)
           e == entry'
           p == bucket(hash(k))
           q == IF p = unused THEN nil ELSE p
           new == [key |-> k, value |-> NewValue, cdr |-> q]
<1>1. /\ k \in Keys /\ hash(k) \in Hashes /\ N \in Nat
      /\ p \in {unused} \cup 0 .. N
      /\ p > 0 => hash(entry[p].key) = hash(k)
  BY BucketFacts
<1>2. /\ EntriesOK(entry) /\ HeadsOK(entry, vectors) /\ Apart(entry, vectors, buckets)
      /\ buckets = Len(vectors) /\ buckets \in Nat \ {0}
      /\ walk \in Walks(entry, vectors) /\ walk.h \in 0 .. Size
      /\ walk.h < Size => Seen(entry, vectors, walk)
  BY DEF IInv, Tables
<1>3. q \in 0 .. N /\ (q # nil => p = q /\ hash(entry[q].key) = hash(k))
  BY <1>1 DEF unused, nil
<1>4. /\ N < MaxEntries /\ e = Append(entry, new)
      /\ vectors' = [vectors EXCEPT ![buckets][hash(k)] = Len(e)]
      /\ buckets' = buckets /\ walk' = walk /\ interface' = interface
  BY DEF Insert
<1>5. NewValue \in Values /\ new \in Entries
  <2>1. MaxEntries \in Nat  BY KeyAssumption
  <2>2. NewValue \in Values  BY <2>1, <1>1, <1>4 DEF NewValue, Values
  <2> QED  BY <2>2, <1>1, <1>3 DEF Entries
<1>6. entry \in Seq(Entries) /\ \A n \in 1 .. N : entry[n].cdr \in 0 .. n - 1
  BY <1>2 DEF EntriesOK, Falls
<1>7. new.key = k /\ new.value = NewValue /\ new.cdr = q  OBVIOUS
<1> HIDE DEF new, q
<1>8. /\ e \in Seq(Entries) /\ Len(e) = N + 1 /\ e[N + 1] = new
      /\ \A n \in 1 .. N : e[n] = entry[n]
  BY <1>4, <1>5, <1>6
<1>9. \A n \in 1 .. N + 1 : n = N + 1 \/ n \in 1 .. N  BY <1>1
<1>10. Falls(e)
  <2>1. \A n \in 1 .. N + 1 : e[n].cdr \in 0 .. n - 1  BY <1>1, <1>3, <1>6, <1>7, <1>8, <1>9
  <2> QED  BY <2>1, <1>1, <1>8 DEF Falls
<1> HIDE DEF p
<1>11. EntriesOK(e)
  <2>1. ASSUME NEW n \in 1 .. N + 1
        PROVE  /\ e[n].key \in KeysOf[interface] /\ e[n].value \in 0 .. n
               /\ e[n].cdr # nil => hash(e[e[n].cdr].key) = hash(e[n].key)
    <3>1. CASE n = N + 1
      <4>1. q # nil => q \in 1 .. N  BY <1>1, <1>3 DEF nil
      <4>2. q # nil => hash(e[q].key) = hash(k)  BY <4>1, <1>3, <1>8
      <4>3. e[n].value = n /\ n \in 0 .. n  BY <3>1, <1>1, <1>7, <1>8 DEF NewValue
      <4> QED  BY <3>1, <4>2, <4>3, <1>7, <1>8
    <3>2. CASE n \in 1 .. N
      <4>1. e[n] = entry[n] /\ entry[n].cdr \in 0 .. n - 1  BY <3>2, <1>6, <1>8
      <4>2. /\ entry[n].key \in KeysOf[interface] /\ entry[n].value \in 0 .. n
            /\ entry[n].cdr # nil => hash(entry[entry[n].cdr].key) = hash(entry[n].key)
        BY <1>2, <3>2 DEF EntriesOK
      <4>3. entry[n].cdr # nil => entry[n].cdr \in 1 .. N  BY <1>1, <3>2, <4>1 DEF nil
      <4> QED  BY <4>1, <4>2, <4>3, <1>8
    <3> QED  BY <3>1, <3>2, <1>9
  <2> QED  BY <2>1, <1>8, <1>10 DEF EntriesOK
<1>12. \A x \in {unused} \cup 0 .. N : ListOf(e, x) = ListOf(entry, x)
  <2>1. Len(entry) <= Len(e) /\ \A n \in 1 .. Len(entry) : e[n].cdr = entry[n].cdr
    BY <1>1, <1>8
  <2> HIDE DEF e
  <2> QED  BY <2>1, <1>2, <1>10, ListStays
<1>13. ListOf(e, N + 1) = {N + 1} \cup ListOf(entry, p)
  <2>1. N + 1 \in {unused} \cup 0 .. Len(e) /\ N + 1 \in 1 .. Len(e)  BY <1>1, <1>8
  <2>2. ListOf(e, N + 1) = {N + 1} \cup ListOf(e, e[N + 1].cdr)
    <3> HIDE DEF e
    <3> QED  BY <2>1, <1>11, ListFacts
  <2>3. ListOf(e, q) = ListOf(entry, q)  BY <1>3, <1>12
  <2>4. ListOf(entry, q) = ListOf(entry, p)
    <3>1. CASE p = unused
      <4>1. ListOf(entry, nil) = {} /\ ListOf(entry, unused) = {}
        <5>1. nil \in {unused} \cup 0 .. N /\ unused \in {unused} \cup 0 .. N
          BY <1>1 DEF nil
        <5> QED  BY <5>1, <1>2, ListFacts
      <4> QED  BY <3>1, <4>1 DEF q
    <3> QED  BY <3>1 DEF q
  <2> QED  BY <2>2, <2>3, <2>4, <1>7, <1>8
<1>14. /\ vectors \in Seq([Hashes -> {unused} \cup Nat])
       /\ \A v \in 1 .. Len(vectors), h \in Hashes :
            /\ vectors[v][h] \in {unused} \cup 0 .. N
            /\ vectors[v][h] > 0 => hash(entry[vectors[v][h]].key) = h
  BY <1>2 DEF HeadsOK
<1>15. /\ vectors' \in Seq([Hashes -> {unused} \cup Nat]) /\ Len(vectors') = Len(vectors)
       /\ \A v \in 1 .. Len(vectors), h \in Hashes :
            vectors'[v][h] = IF v = buckets /\ h = hash(k) THEN N + 1 ELSE vectors[v][h]
  BY <1>1, <1>2, <1>4, <1>8, <1>14
<1>16. HeadsOK(e, vectors')
  <2>1. ASSUME NEW v \in 1 .. Len(vectors), NEW h \in Hashes
        PROVE  /\ vectors'[v][h] \in {unused} \cup 0 .. N + 1
               /\ vectors'[v][h] > 0 => hash(e[vectors'[v][h]].key) = h
    <3>1. CASE v = buckets /\ h = hash(k)
      BY <3>1, <1>1, <1>7, <1>8, <1>15
    <3>2. CASE ~(v = buckets /\ h = hash(k))
      <4>1. vectors'[v][h] = vectors[v][h]  BY <3>2, <1>15
      <4>2. vectors[v][h] \in {unused} \cup 0 .. N  BY <1>14
      <4>3. vectors[v][h] > 0 => vectors[v][h] \in 1 .. N  BY <4>2, <1>1 DEF unused
      <4>4. vectors[v][h] > 0 => hash(e[vectors[v][h]].key) = h  BY <4>3, <1>8, <1>14
      <4> QED  BY <4>1, <4>2, <4>4, <1>1
    <3> QED  BY <3>1, <3>2
  <2> QED  BY <2>1, <1>8, <1>15 DEF HeadsOK
<1>17. ASSUME NEW v \in 1 .. Len(vectors), NEW h \in Hashes
       PROVE  /\ ListOf(e, vectors'[v][h]) \subseteq ListOf(entry, vectors[v][h]) \cup {N + 1}
              /\ v # buckets => ListOf(e, vectors'[v][h]) = ListOf(entry, vectors[v][h])
  <2>1. vectors[v][h] \in {unused} \cup 0 .. N  BY <1>14
  <2>2. ListOf(e, vectors[v][h]) = ListOf(entry, vectors[v][h])  BY <2>1, <1>12
  <2>3. CASE v = buckets /\ h = hash(k)
    BY <2>3, <1>13, <1>15 DEF p, bucket
  <2>4. CASE ~(v = buckets /\ h = hash(k))
    BY <2>2, <2>4, <1>15
  <2> QED  BY <2>3, <2>4
<1>18. \A v \in 1 .. Len(vectors), h \in Hashes : N + 1 \notin ListOf(entry, vectors[v][h])
  <2>1. TAKE v \in 1 .. Len(vectors), h \in Hashes
  <2>2. ListOf(entry, vectors[v][h]) \subseteq 1 .. N  BY <1>2, <1>14, ListFacts
  <2> QED  BY <2>2, <1>1
<1>19. Apart(e, vectors', buckets)
  <2>1. buckets \in 1 .. Len(vectors)  BY <1>2
  <2>2. SUFFICES ASSUME NEW v \in 1 .. Len(vectors), NEW h \in Hashes, NEW g \in Hashes, v # buckets
                 PROVE  ListOf(e, vectors'[v][h]) \cap ListOf(e, vectors'[buckets][g]) = {}
    BY <1>15 DEF Apart
  <2>3. ListOf(e, vectors'[v][h]) = ListOf(entry, vectors[v][h])  BY <2>2, <1>17
  <2>4. ListOf(e, vectors'[buckets][g]) \subseteq ListOf(entry, vectors[buckets][g]) \cup {N + 1}
    BY <2>1, <1>17
  <2>5. N + 1 \notin ListOf(entry, vectors[v][h])  BY <1>18
  <2>6. ListOf(entry, vectors[v][h]) \cap ListOf(entry, vectors[buckets][g]) = {}
    BY <2>2, <1>2 DEF Apart
  <2> QED  BY <2>3, <2>4, <2>5, <2>6
<1>20. /\ walk.vector \in 1 .. Len(vectors) /\ walk.next \in 0 .. N /\ walk.entries \in 0 .. N
       /\ walk \in Walks(e, vectors')
  BY <1>1, <1>2, <1>8, <1>15 DEF Walks
<1>21. walk.h < Size => Seen(e, vectors', walk)
  <2>1. SUFFICES ASSUME walk.h < Size,
                        NEW h \in 0 .. walk.h, NEW n \in ListOf(e, vectors'[walk.vector][h]),
                        n <= walk.entries
                 PROVE  n \in walk.seen \/ (h = walk.h /\ n \in ListOf(e, walk.next))
    BY DEF Seen
  <2>2. h \in Hashes
    <3>1. Size \in Nat  BY KeyAssumption
    <3> QED  BY <3>1, <2>1, <1>2 DEF Hashes
  <2>3. n # N + 1
    BY <2>1, <1>1, <1>20
  <2>4. n \in ListOf(entry, vectors[walk.vector][h])  BY <2>1, <2>2, <2>3, <1>17, <1>20
  <2>5. n \in walk.seen \/ (h = walk.h /\ n \in ListOf(entry, walk.next))
    BY <2>1, <2>4, <1>2 DEF Seen
  <2>6. ListOf(e, walk.next) = ListOf(entry, walk.next)  BY <1>12, <1>20
  <2> QED  BY <2>5, <2>6
<1>22. Tables(e, vectors', buckets, walk)
  BY <1>2, <1>11, <1>15, <1>16, <1>19, <1>20, <1>21 DEF Tables
<1>23. ASSUME NEW h \in Hashes
       PROVE  Chain(h)' = IF h = hash(k) THEN {N + 1} \cup Chain(h) ELSE Chain(h)
  <2>1. buckets \in 1 .. Len(vectors)  BY <1>2
  <2>2. Chain(h)' = ListOf(e, vectors'[buckets][h])  BY <1>4 DEF Chain, ListOf, e
  <2>3. CASE h = hash(k)  BY <2>1, <2>2, <2>3, <1>13, <1>15 DEF Chain, p, bucket
  <2>4. CASE h # hash(k)  BY <2>1, <2>2, <2>4, <1>12, <1>14, <1>15 DEF Chain
  <2> QED  BY <2>3, <2>4
<1> QED  BY <1>1, <1>4, <1>5, <1>7, <1>8, <1>22, <1>23

\* A handle is written through: no list changes.
LEMMA SetCdrTables ==
  ASSUME IInv, set_cdr_x
  PROVE  /\ Tables(entry', vectors', buckets', walk') /\ Len(entry') = Len(entry)
         /\ \A h \in Hashes : Chain(h)' = Chain(h)
         /\ \A n \in 1 .. Len(entry) :
              /\ entry'[n].key = entry[n].key
              /\ entry'[n].value = IF n = handle THEN 0 ELSE entry[n].value
<1> DEFINE N == Len(entry)
           e == entry'
           new == [entry[handle] EXCEPT !.value = 0]
<1>1. /\ EntriesOK(entry) /\ HeadsOK(entry, vectors) /\ Apart(entry, vectors, buckets)
      /\ walk \in Walks(entry, vectors)
      /\ walk.h < Size => Seen(entry, vectors, walk)
      /\ handle \in 1 .. N /\ N \in Nat
  <2>1. handle \in 0 .. N /\ handle # 0  BY DEF IInv, set_cdr_x, nil
  <2>2. N \in Nat  BY DEF IInv, Tables, EntriesOK, Falls
  <2> QED  BY <2>1, <2>2 DEF IInv, Tables
<1>2. e = [entry EXCEPT ![handle] = new] /\ vectors' = vectors /\ buckets' = buckets /\ walk' = walk
  BY DEF set_cdr_x
<1>3. entry \in Seq(Entries) /\ entry[handle] \in Entries  BY <1>1 DEF EntriesOK
<1>4. new \in Entries /\ new.key = entry[handle].key /\ new.cdr = entry[handle].cdr /\ new.value = 0
  <2>1. MaxEntries \in Nat  BY KeyAssumption
  <2>2. 0 \in Values  BY <2>1 DEF Values
  <2> QED  BY <2>2, <1>3 DEF Entries
<1> HIDE DEF new
<1>5. e \in Seq(Entries) /\ Len(e) = N  BY <1>1, <1>2, <1>3, <1>4
<1>6. \A n \in 1 .. N : /\ e[n].key = entry[n].key /\ e[n].cdr = entry[n].cdr
                        /\ e[n].value = IF n = handle THEN 0 ELSE entry[n].value
  <2>1. \A n \in 1 .. N : e[n] = IF n = handle THEN new ELSE entry[n]  BY <1>2, <1>3
  <2> QED  BY <2>1, <1>4
<1> HIDE DEF e
<1>7. Falls(e)  BY <1>1, <1>5, <1>6 DEF EntriesOK, Falls
<1>8. EntriesOK(e)
  <2>1. \A n \in 1 .. N : entry[n].cdr \in 0 .. n - 1  BY <1>1 DEF EntriesOK, Falls
  <2>2. \A n \in 1 .. N : entry[n].cdr # nil => entry[n].cdr \in 1 .. N  BY <2>1, <1>1 DEF nil
  <2>3. ASSUME NEW n \in 1 .. N
        PROVE  /\ e[n].key \in KeysOf[interface] /\ e[n].value \in 0 .. n
               /\ e[n].cdr # nil => hash(e[e[n].cdr].key) = hash(e[n].key)
    <3>1. /\ entry[n].key \in KeysOf[interface] /\ entry[n].value \in 0 .. n
          /\ entry[n].cdr # nil => hash(entry[entry[n].cdr].key) = hash(entry[n].key)
      BY <1>1 DEF EntriesOK
    <3>2. e[n].value \in 0 .. n  BY <3>1, <1>6
    <3> QED  BY <3>1, <3>2, <2>2, <1>6
  <2> QED  BY <2>3, <1>5, <1>7 DEF EntriesOK
<1>9. \A x \in {unused} \cup 0 .. N : ListOf(e, x) = ListOf(entry, x)
  <2>1. Len(entry) <= Len(e)  BY <1>1, <1>5
  <2> QED  BY <2>1, <1>1, <1>6, <1>7, ListStays
<1>10. /\ vectors \in Seq([Hashes -> {unused} \cup Nat])
       /\ \A v \in 1 .. Len(vectors), h \in Hashes :
            /\ vectors[v][h] \in {unused} \cup 0 .. N
            /\ vectors[v][h] > 0 => hash(entry[vectors[v][h]].key) = h
            /\ vectors[v][h] > 0 => vectors[v][h] \in 1 .. N
  <2>1. \A v \in 1 .. Len(vectors), h \in Hashes : vectors[v][h] \in {unused} \cup 0 .. N
    BY <1>1 DEF HeadsOK
  <2>2. \A v \in 1 .. Len(vectors), h \in Hashes : vectors[v][h] > 0 => vectors[v][h] \in 1 .. N
    BY <2>1, <1>1 DEF unused
  <2> QED  BY <2>1, <2>2, <1>1 DEF HeadsOK
<1>11. HeadsOK(e, vectors)  BY <1>5, <1>6, <1>10 DEF HeadsOK
<1>12. \A v \in 1 .. Len(vectors), h \in Hashes : ListOf(e, vectors[v][h]) = ListOf(entry, vectors[v][h])
  BY <1>9, <1>10
<1>13. Apart(e, vectors, buckets)
  <2>1. buckets \in 1 .. Len(vectors)  BY DEF IInv, Tables
  <2> QED  BY <2>1, <1>1, <1>12 DEF Apart
<1>14. walk.vector \in 1 .. Len(vectors) /\ walk.next \in 0 .. N /\ walk \in Walks(e, vectors)
  BY <1>1, <1>5 DEF Walks
<1>15. walk.h < Size => Seen(e, vectors, walk)
  <2>1. SUFFICES ASSUME walk.h < Size,
                        NEW h \in 0 .. walk.h, NEW n \in ListOf(e, vectors[walk.vector][h]),
                        n <= walk.entries
                 PROVE  n \in walk.seen \/ (h = walk.h /\ n \in ListOf(e, walk.next))
    BY DEF Seen
  <2>2. h \in Hashes
    <3>1. Size \in Nat  BY KeyAssumption
    <3>2. walk.h \in 0 .. Size  BY DEF IInv, Tables
    <3> QED  BY <3>1, <3>2, <2>1 DEF Hashes
  <2>3. n \in ListOf(entry, vectors[walk.vector][h])  BY <2>1, <2>2, <1>12, <1>14
  <2>4. n \in walk.seen \/ (h = walk.h /\ n \in ListOf(entry, walk.next))
    BY <2>1, <2>3, <1>1 DEF Seen
  <2> QED  BY <2>4, <1>9, <1>14
<1>16. Tables(e, vectors', buckets', walk')
  BY <1>2, <1>5, <1>8, <1>11, <1>13, <1>14, <1>15 DEF IInv, Tables
<1>17. ASSUME NEW h \in Hashes PROVE Chain(h)' = Chain(h)
  <2>1. Chain(h)' = ListOf(e, vectors[buckets][h])  BY <1>2 DEF Chain, ListOf, e
  <2>2. buckets \in 1 .. Len(vectors)  BY DEF IInv, Tables
  <2> QED  BY <2>1, <2>2, <1>12 DEF Chain
<1> QED  BY <1>5, <1>6, <1>16, <1>17 DEF e

\* A table cleared has a new vector, the walk goes on in the old one.
LEMMA ClearTables ==
  ASSUME IInv, hash_clear_x
  PROVE  Tables(entry', vectors', buckets', walk') /\ \A h \in Hashes : Chain(h)' = {}
<1> DEFINE N == Len(entry)
           L == Len(vectors)
           vs == vectors'
<1>1. /\ EntriesOK(entry) /\ HeadsOK(entry, vectors)
      /\ walk \in Walks(entry, vectors) /\ walk.h \in 0 .. Size
      /\ walk.h < Size => Seen(entry, vectors, walk)
      /\ L \in Nat \ {0}
  BY DEF IInv, Tables
<1>2. vs = Append(vectors, NoBuckets) /\ buckets' = Len(vs) /\ entry' = entry /\ walk' = walk
  BY DEF hash_clear_x
<1>3. NoBuckets \in [Hashes -> {unused} \cup Nat] /\ \A h \in Hashes : NoBuckets[h] = unused
  BY DEF NoBuckets
<1>4. vectors \in Seq([Hashes -> {unused} \cup Nat])  BY <1>1 DEF HeadsOK
<1>5. /\ vs \in Seq([Hashes -> {unused} \cup Nat]) /\ Len(vs) = L + 1 /\ vs[L + 1] = NoBuckets
      /\ \A v \in 1 .. L : vs[v] = vectors[v]
  <2> HIDE DEF NoBuckets
  <2> QED  BY <1>1, <1>2, <1>3, <1>4
<1>6. \A v \in 1 .. L + 1 : v = L + 1 \/ v \in 1 .. L  BY <1>1
<1> HIDE DEF vs
<1>7. HeadsOK(entry, vs)
  <2>1. ~(unused > 0)  BY DEF unused
  <2>2. ASSUME NEW v \in 1 .. L + 1, NEW h \in Hashes
        PROVE  /\ vs[v][h] \in {unused} \cup 0 .. N
               /\ vs[v][h] > 0 => hash(entry[vs[v][h]].key) = h
    <3>1. CASE v = L + 1  BY <3>1, <2>1, <1>3, <1>5
    <3>2. CASE v \in 1 .. L  BY <3>2, <1>1, <1>5 DEF HeadsOK
    <3> QED  BY <3>1, <3>2, <1>6
  <2> QED  BY <2>2, <1>5 DEF HeadsOK
<1>8. Apart(entry, vs, L + 1)
  <2>1. \A g \in Hashes : ListOf(entry, vs[L + 1][g]) = {}  BY <1>3, <1>5 DEF ListOf
  <2> QED  BY <2>1 DEF Apart
<1>9. walk.vector \in 1 .. L /\ walk \in Walks(entry, vs)  BY <1>1, <1>5 DEF Walks
<1>10. walk.h < Size => Seen(entry, vs, walk)  BY <1>1, <1>5, <1>9 DEF Seen
<1>11. L + 1 \in Nat \ {0}  BY <1>1
<1>12. Tables(entry', vs, buckets', walk')
  BY <1>1, <1>2, <1>5, <1>7, <1>8, <1>9, <1>10, <1>11 DEF Tables
<1>13. ASSUME NEW h \in Hashes PROVE Chain(h)' = {}
  <2>1. Chain(h)' = ListOf(entry', vs[L + 1][h])  BY <1>2, <1>5 DEF Chain, ListOf, vs
  <2> QED  BY <2>1, <1>3, <1>5 DEF ListOf
<1> QED  BY <1>12, <1>13 DEF vs

\* Entries e2 are e but that the entries K of the list from r are linked to each
\* other.
LinksOnly(e, r, K, e2) ==
  /\ r \in {unused} \cup 0 .. Len(e) /\ K \subseteq ListOf(e, r)
  /\ Falls(e2) /\ Len(e2) = Len(e)
  /\ \A n \in K : e2[n].cdr = First({m \in K : m < n})
  /\ \A n \in (1 .. Len(e)) \ K : e2[n].cdr = e[n].cdr

\* A list then loses none but those that were in that list and are not in K; from
\* one in K on it is part of K.
LEMMA Relink ==
  ASSUME NEW e, EntriesOK(e), NEW r, NEW K, NEW e2, LinksOnly(e, r, K, e2)
  PROVE  \A p \in 0 .. Len(e) :
           /\ ListOf(e2, p) \subseteq ListOf(e, p)
           /\ ListOf(e, p) \ (ListOf(e, r) \ K) \subseteq ListOf(e2, p)
           /\ p \in K => ListOf(e2, p) = {m \in K : m <= p}
<1> DEFINE N == Len(e)
           f == From(e)
           g == From(e2)
           B == ListOf(e, r)
           S == {p \in 0 .. N : /\ g[p] \subseteq f[p]
                                /\ f[p] \ (B \ K) \subseteq g[p]
                                /\ p \in K => g[p] = {m \in K : m <= p}}
<1>1. N \in Nat /\ Falls(e) /\ \A n \in 1 .. N : e[n].cdr \in 0 .. n - 1  BY DEF EntriesOK, Falls
<1>2. f[0] = {} /\ \A n \in 1 .. N : f[n] = {n} \cup f[e[n].cdr]  BY <1>1, FromNext
<1>10. /\ r \in {unused} \cup 0 .. N /\ K \subseteq ListOf(e, r)
      /\ Falls(e2) /\ Len(e2) = N
      /\ \A n \in (1 .. N) \ K : e2[n].cdr = e[n].cdr
  BY DEF LinksOnly
<1>11. ASSUME NEW n \in K PROVE e2[n].cdr = First({m \in K : m < n})
  BY Zenon DEF LinksOnly
<1>3. g[0] = {} /\ \A n \in 1 .. N : g[n] = {n} \cup g[e2[n].cdr]  BY <1>10, FromNext
<1>4. \A n \in 1 .. N : e2[n].cdr \in 0 .. n - 1  BY <1>10 DEF Falls
<1>5. B \subseteq 1 .. N /\ K \subseteq 1 .. N /\ K \subseteq B  BY <1>10, ListFacts
<1>6. \A p \in B : f[p] = {m \in B : m <= p}
  <2>1. CASE r = unused  BY <2>1 DEF ListOf
  <2>2. CASE r # unused
    <3>1. r \in 0 .. N /\ B = f[r]  BY <2>2, <1>10 DEF ListOf
    <3> QED  BY <3>1, <1>1, FromTail
  <2> QED  BY <2>1, <2>2
<1> HIDE DEF f, g, B
<1>7. ASSUME NEW p \in 0 .. N, \A m \in 0 .. p - 1 : m \in S PROVE p \in S
  <2>1. CASE p = 0
    <3>1. p \notin K  BY <2>1, <1>5
    <3> QED  BY <2>1, <3>1, <1>2, <1>3
  <2>2. CASE p # 0 /\ p \in K
    <3> DEFINE T == {m \in K : m < p}
               c == First(T)
    <3>1. p \in 1 .. N /\ T \subseteq 1 .. N /\ c = e2[p].cdr
      <4>1. p \in 1 .. N  BY <2>2, <1>1
      <4>2. T \subseteq 1 .. N  BY <1>5
      <4>3. c = e2[p].cdr  BY <2>2, <1>11, Zenon
      <4> QED  BY <4>1, <4>2, <4>3
    <3>2. (T # {} => c \in T) /\ (T = {} => c = nil) /\ \A m \in T : m <= c
      <4> HIDE DEF T
      <4> QED  BY <1>1, <3>1, FirstFacts
    <3>3. c \in 0 .. p - 1 /\ g[p] = {p} \cup g[c]  BY <1>3, <1>4, <3>1
    <3> HIDE DEF c
    <3>4. g[c] = T
      <4>1. CASE T = {}  BY <4>1, <3>2, <1>3 DEF nil
      <4>2. CASE T # {}
        <5>1. c \in K /\ c < p /\ c \in S  BY <4>2, <3>2, <3>3, <1>7
        <5>2. g[c] = {m \in K : m <= c}  BY <5>1
        <5>3. \A m \in K : m \in Int  BY <1>5
        <5>4. p \in Int /\ c \in Int  BY <3>1, <3>3
        <5>5. \A m \in K : m <= c <=> m < p  BY <3>2, <5>1, <5>3, <5>4
        <5> QED  BY <5>2, <5>5
      <4> QED  BY <4>1, <4>2
    <3>5. g[p] = {m \in K : m <= p}
      <4>1. \A m \in K : m <= p <=> m = p \/ m < p  BY <1>5, <3>1
      <4> QED  BY <2>2, <3>3, <3>4, <4>1
    <3>6. f[p] = {m \in B : m <= p}  BY <2>2, <1>5, <1>6
    <3> QED  BY <2>2, <3>5, <3>6, <1>5
  <2>3. CASE p # 0 /\ p \notin K
    <3>1. p \in (1 .. N) \ K /\ p \in 1 .. N  BY <2>3, <1>1
    <3>2. e2[p].cdr = e[p].cdr /\ e[p].cdr \in 0 .. p - 1  BY <3>1, <1>1, <1>10
    <3>3. g[p] = {p} \cup g[e[p].cdr] /\ f[p] = {p} \cup f[e[p].cdr]  BY <3>1, <3>2, <1>2, <1>3
    <3>4. e[p].cdr \in S  BY <1>7, <3>2
    <3> QED  BY <2>3, <3>3, <3>4
  <2> QED  BY <2>1, <2>2, <2>3
<1>8. 0 .. N \subseteq S
  <2> HIDE DEF S
  <2> QED  BY <1>1, <1>7, Descent
<1>9. \A p \in 0 .. N : ListOf(e, p) = f[p] /\ ListOf(e2, p) = g[p]
  BY <1>1 DEF ListOf, unused, f, g
<1> QED  BY <1>8, <1>9 DEF B

\* What hash-remove! removes is gone from its bucket and from nowhere else.
LEMMA RemoveTables ==
  ASSUME IInv, NEW k \in KeysOf[interface], bucket(hash(k)) # unused,
         entry' = Linked(k),
         vectors' = [vectors EXCEPT ![buckets][hash(k)] = First(Kept(k))],
         UNCHANGED <<interface, buckets, walk>>
  PROVE  /\ Tables(entry', vectors', buckets', walk') /\ Len(entry') = Len(entry)
         /\ \A h \in Hashes : Chain(h)' = IF h = hash(k) THEN Kept(k) ELSE Chain(h)
         /\ \A n \in 1 .. Len(entry) : entry'[n].key = entry[n].key /\ entry'[n].value = entry[n].value
<1> DEFINE N == Len(entry)
           e == entry'
           r == bucket(hash(k))
           B == Bucket(k)
           K == Kept(k)
           c(n) == First({m \in K : m < n})
<1>1. /\ k \in Keys /\ hash(k) \in Hashes /\ N \in Nat
      /\ r \in {unused} \cup 0 .. N
      /\ B = ListOf(entry, r) /\ B \subseteq 1 .. N
      /\ \A n \in B : hash(entry[n].key) = hash(k)
  BY BucketFacts
<1>2. /\ EntriesOK(entry) /\ HeadsOK(entry, vectors) /\ Apart(entry, vectors, buckets)
      /\ buckets = Len(vectors) /\ buckets \in 1 .. Len(vectors) /\ buckets \in Nat \ {0}
      /\ walk \in Walks(entry, vectors) /\ walk.h \in 0 .. Size
      /\ walk.h < Size => Seen(entry, vectors, walk)
  BY DEF IInv, Tables
<1>3. K \subseteq B  BY DEF Kept
<1>4. e = [n \in DOMAIN entry |-> IF n \in K THEN [entry[n] EXCEPT !.cdr = c(n)] ELSE entry[n]]
  BY DEF Linked, Link
<1>5. vectors' = [vectors EXCEPT ![buckets][hash(k)] = First(K)]  OBVIOUS
<1> HIDE DEF K, B, e, r
<1>6. ASSUME NEW n \in K PROVE c(n) \in 0 .. n - 1 /\ c(n) \in K \cup {nil}
  <2> DEFINE T == {m \in K : m < n}
  <2>1. T \subseteq 1 .. N /\ n \in 1 .. N  BY <1>1, <1>3
  <2>2. \A m \in T : m \in K /\ m \in 0 .. n - 1  BY <2>1, <1>1
  <2> HIDE DEF T
  <2>3. First(T) \in T \cup {nil}  BY <1>1, <2>1, FirstFacts
  <2>4. nil \in 0 .. n - 1  BY <2>1 DEF nil
  <2> QED  BY <2>2, <2>3, <2>4 DEF T
<1> HIDE DEF c
<1>7. entry \in Seq(Entries) /\ DOMAIN entry = 1 .. N /\ \A n \in 1 .. N : entry[n] \in Entries /\ entry[n].cdr \in 0 .. n - 1
  <2>1. entry \in Seq(Entries)  BY <1>2 DEF EntriesOK
  <2>2. \A n \in 1 .. N : entry[n].cdr \in 0 .. n - 1  BY <1>2 DEF EntriesOK, Falls
  <2> QED  BY <2>1, <2>2
<1>8. \A n \in K : /\ [entry[n] EXCEPT !.cdr = c(n)] \in Entries
                   /\ [entry[n] EXCEPT !.cdr = c(n)].cdr = c(n)
                   /\ [entry[n] EXCEPT !.cdr = c(n)].key = entry[n].key
                   /\ [entry[n] EXCEPT !.cdr = c(n)].value = entry[n].value
  <2>1. \A n \in K : entry[n] \in Entries /\ c(n) \in Nat  BY <1>1, <1>3, <1>6, <1>7
  <2> QED  BY <2>1 DEF Entries
<1>9. \A n \in 1 .. N :
        /\ e[n] \in Entries /\ e[n].key = entry[n].key /\ e[n].value = entry[n].value
        /\ e[n].cdr = IF n \in K THEN c(n) ELSE entry[n].cdr
  BY <1>4, <1>7, <1>8
<1>10. e \in Seq(Entries) /\ Len(e) = N
  <2>1. DOMAIN e = 1 .. N  BY <1>4, <1>7
  <2>2. e = [n \in 1 .. N |-> e[n]]  BY <1>4, <1>7
  <2>3. e \in [1 .. N -> Entries]  BY <2>2, <1>9
  <2> QED  BY <1>1, <2>3
<1>11. Falls(e)
  <2>1. \A n \in 1 .. N : e[n].cdr \in 0 .. n - 1  BY <1>6, <1>7, <1>9
  <2> QED  BY <2>1, <1>1, <1>10 DEF Falls
<1>12. EntriesOK(e)
  <2>1. ASSUME NEW n \in 1 .. N
        PROVE  /\ e[n].key \in KeysOf[interface] /\ e[n].value \in 0 .. n
               /\ e[n].cdr # nil => hash(e[e[n].cdr].key) = hash(e[n].key)
    <3>1. /\ entry[n].key \in KeysOf[interface] /\ entry[n].value \in 0 .. n
          /\ entry[n].cdr # nil => hash(entry[entry[n].cdr].key) = hash(entry[n].key)
      BY <1>2 DEF EntriesOK
    <3>2. e[n].key = entry[n].key /\ e[n].value = entry[n].value  BY <1>9
    <3>3. CASE n \in K
      <4>1. e[n].cdr = c(n) /\ c(n) \in K \cup {nil}  BY <3>3, <1>6, <1>9
      <4>2. c(n) # nil => hash(entry[c(n)].key) = hash(k) /\ e[c(n)].key = entry[c(n)].key
        BY <4>1, <1>1, <1>3, <1>9
      <4>3. hash(entry[n].key) = hash(k)  BY <3>3, <1>1, <1>3
      <4> QED  BY <3>1, <3>2, <4>1, <4>2, <4>3
    <3>4. CASE n \notin K
      <4>1. e[n].cdr = entry[n].cdr /\ entry[n].cdr \in 0 .. n - 1  BY <3>4, <1>7, <1>9
      <4>2. entry[n].cdr # nil => entry[n].cdr \in 1 .. N  BY <4>1, <1>1 DEF nil
      <4>3. entry[n].cdr # nil => e[entry[n].cdr].key = entry[entry[n].cdr].key  BY <4>2, <1>9
      <4> QED  BY <3>1, <3>2, <4>1, <4>3
    <3> QED  BY <3>3, <3>4
  <2> QED  BY <2>1, <1>10, <1>11 DEF EntriesOK
<1>13. \A p \in 0 .. N :
         /\ ListOf(e, p) \subseteq ListOf(entry, p)
         /\ ListOf(entry, p) \ (B \ K) \subseteq ListOf(e, p)
         /\ p \in K => ListOf(e, p) = {m \in K : m <= p}
  <2>1. K \subseteq ListOf(entry, r)  BY <1>1, <1>3
  <2>2. \A n \in K : e[n].cdr = First({m \in K : m < n})  BY <1>1, <1>3, <1>9 DEF c
  <2>3. \A n \in (1 .. N) \ K : e[n].cdr = entry[n].cdr  BY <1>9
  <2>4. \A p \in 0 .. N :
         /\ ListOf(e, p) \subseteq ListOf(entry, p)
         /\ ListOf(entry, p) \ (ListOf(entry, r) \ K) \subseteq ListOf(e, p)
         /\ p \in K => ListOf(e, p) = {m \in K : m <= p}
    <3>1. LinksOnly(entry, r, K, e)
      <4> HIDE DEF First
      <4> QED  BY <2>1, <2>2, <2>3, <1>1, <1>10, <1>11, Zenon DEF LinksOnly
    <3> QED  BY <3>1, <1>2, Relink
  <2> QED  BY <2>4, <1>1
<1>14. First(K) \in 0 .. N /\ First(K) \in K \cup {nil} /\ ListOf(e, First(K)) = K
  <2>1. K \subseteq 1 .. N  BY <1>1, <1>3
  <2>2. /\ First(K) \in 0 .. N /\ (K # {} => First(K) \in K) /\ (K = {} => First(K) = nil)
        /\ \A m \in K : m <= First(K)
    BY <1>1, <2>1, FirstFacts
  <2>3. K # {} => ListOf(e, First(K)) = K  BY <2>2, <1>13
  <2>4. ListOf(e, nil) = {}
    <3>1. nil \in {unused} \cup 0 .. Len(e)  BY <1>1, <1>10 DEF nil
    <3> QED  BY <3>1, <1>12, ListFacts
  <2> QED  BY <2>2, <2>3, <2>4
<1>15. /\ vectors \in Seq([Hashes -> {unused} \cup Nat])
       /\ \A v \in 1 .. Len(vectors), h \in Hashes :
            /\ vectors[v][h] \in {unused} \cup 0 .. N
            /\ vectors[v][h] > 0 => hash(entry[vectors[v][h]].key) = h
  BY <1>2 DEF HeadsOK
<1>16. /\ vectors' \in Seq([Hashes -> {unused} \cup Nat]) /\ Len(vectors') = Len(vectors)
       /\ \A v \in 1 .. Len(vectors), h \in Hashes :
            vectors'[v][h] = IF v = buckets /\ h = hash(k) THEN First(K) ELSE vectors[v][h]
  <2>1. First(K) \in {unused} \cup Nat  BY <1>1, <1>14
  <2> HIDE DEF First
  <2> QED  BY <2>1, <1>1, <1>2, <1>5, <1>15
<1>17. HeadsOK(e, vectors')
  <2>1. ASSUME NEW v \in 1 .. Len(vectors), NEW h \in Hashes
        PROVE  /\ vectors'[v][h] \in {unused} \cup 0 .. N
               /\ vectors'[v][h] > 0 => hash(e[vectors'[v][h]].key) = h
    <3>1. CASE v = buckets /\ h = hash(k)
      <4>1. vectors'[v][h] = First(K)  BY <3>1, <1>16
      <4>2. First(K) > 0 => First(K) \in K  BY <1>14 DEF nil
      <4>3. First(K) > 0 => hash(e[First(K)].key) = h
        BY <4>2, <3>1, <1>1, <1>3, <1>9
      <4> QED  BY <4>1, <4>3, <1>14
    <3>2. CASE ~(v = buckets /\ h = hash(k))
      <4>1. vectors'[v][h] = vectors[v][h]  BY <3>2, <1>16
      <4>2. vectors[v][h] \in {unused} \cup 0 .. N  BY <1>15
      <4>3. vectors[v][h] > 0 => vectors[v][h] \in 1 .. N  BY <4>2, <1>1 DEF unused
      <4>4. vectors[v][h] > 0 => hash(e[vectors[v][h]].key) = h  BY <4>3, <1>9, <1>15
      <4> QED  BY <4>1, <4>2, <4>4, <1>1
    <3> QED  BY <3>1, <3>2
  <2> QED  BY <2>1, <1>10, <1>16 DEF HeadsOK
<1>18. ASSUME NEW v \in 1 .. Len(vectors), NEW h \in Hashes
       PROVE  /\ ListOf(e, vectors'[v][h]) \subseteq ListOf(entry, vectors[v][h])
              /\ ListOf(e, vectors'[v][h]) \cap (B \ K) = {} \/ ~(v = buckets /\ h = hash(k))
  <2>1. CASE v = buckets /\ h = hash(k)
    BY <2>1, <1>1, <1>3, <1>14, <1>16 DEF r, bucket
  <2>2. CASE ~(v = buckets /\ h = hash(k))
    <3>1. vectors'[v][h] = vectors[v][h] /\ vectors[v][h] \in {unused} \cup 0 .. N
      BY <2>2, <1>15, <1>16
    <3>2. CASE vectors[v][h] = unused  BY <3>1, <3>2 DEF ListOf
    <3>3. CASE vectors[v][h] # unused  BY <2>2, <3>1, <3>3, <1>13
    <3> QED  BY <3>2, <3>3
  <2> QED  BY <2>1, <2>2
<1>19. ASSUME NEW v \in 1 .. Len(vectors), NEW h \in Hashes
       PROVE  ListOf(e, vectors'[v][h]) \cap (B \ K) = {}
  <2>1. CASE v = buckets /\ h = hash(k)  BY <2>1, <1>18
  <2>2. CASE v = buckets /\ h # hash(k)
    <3>1. \A n \in ListOf(entry, vectors[v][h]) : hash(entry[n].key) = h  BY <1>2, HeadHash
    <3> QED  BY <2>2, <3>1, <1>1, <1>18
  <2>3. CASE v # buckets
    <3>1. ListOf(entry, vectors[v][h]) \cap ListOf(entry, vectors[buckets][hash(k)]) = {}
      BY <2>3, <1>1, <1>2 DEF Apart
    <3>2. B = ListOf(entry, vectors[buckets][hash(k)])  BY <1>1 DEF r, bucket
    <3> QED  BY <3>1, <3>2, <1>18
  <2> QED  BY <2>1, <2>2, <2>3
<1>20. Apart(e, vectors', buckets)
  <2>1. SUFFICES ASSUME NEW v \in 1 .. Len(vectors), NEW h \in Hashes, NEW g \in Hashes, v # buckets
                 PROVE  ListOf(e, vectors'[v][h]) \cap ListOf(e, vectors'[buckets][g]) = {}
    BY <1>16 DEF Apart
  <2>2. ListOf(e, vectors'[v][h]) \subseteq ListOf(entry, vectors[v][h])  BY <1>18
  <2>3. ListOf(e, vectors'[buckets][g]) \subseteq ListOf(entry, vectors[buckets][g])
    BY <1>2, <1>18
  <2>4. ListOf(entry, vectors[v][h]) \cap ListOf(entry, vectors[buckets][g]) = {}
    BY <2>1, <1>2 DEF Apart
  <2> QED  BY <2>2, <2>3, <2>4
<1>21. /\ walk.vector \in 1 .. Len(vectors) /\ walk.next \in 0 .. N /\ walk.entries \in 0 .. N
       /\ walk \in Walks(e, vectors')
  BY <1>1, <1>2, <1>10, <1>16 DEF Walks
<1>22. walk.h < Size => Seen(e, vectors', walk)
  <2>1. SUFFICES ASSUME walk.h < Size,
                        NEW h \in 0 .. walk.h, NEW n \in ListOf(e, vectors'[walk.vector][h]),
                        n <= walk.entries
                 PROVE  n \in walk.seen \/ (h = walk.h /\ n \in ListOf(e, walk.next))
    BY DEF Seen
  <2>2. h \in Hashes
    <3>1. Size \in Nat  BY KeyAssumption
    <3> QED  BY <3>1, <2>1, <1>2 DEF Hashes
  <2>3. n \in ListOf(entry, vectors[walk.vector][h]) /\ n \notin B \ K
    BY <2>1, <2>2, <1>18, <1>19, <1>21
  <2>4. n \in walk.seen \/ (h = walk.h /\ n \in ListOf(entry, walk.next))
    BY <2>1, <2>3, <1>2 DEF Seen
  <2>5. ListOf(entry, walk.next) \ (B \ K) \subseteq ListOf(e, walk.next)  BY <1>13, <1>21
  <2> QED  BY <2>3, <2>4, <2>5
<1>23. Tables(e, vectors', buckets, walk)
  BY <1>2, <1>12, <1>16, <1>17, <1>20, <1>21, <1>22 DEF Tables
<1>24. ASSUME NEW h \in Hashes PROVE Chain(h)' = IF h = hash(k) THEN K ELSE Chain(h)
  <2>1. Chain(h)' = ListOf(e, vectors'[buckets][h])  BY DEF Chain, ListOf, e
  <2>2. CASE h = hash(k)  BY <2>1, <2>2, <1>1, <1>2, <1>14, <1>16
  <2>3. CASE h # hash(k)
    <3> SUFFICES Chain(h)' = Chain(h)  BY <2>3
    <3>1. vectors'[buckets][h] = vectors[buckets][h] /\ vectors[buckets][h] \in {unused} \cup 0 .. N
      BY <2>3, <1>2, <1>15, <1>16
    <3>2. Chain(h) \cap (B \ K) = {}
      <4>1. \A n \in ListOf(entry, vectors[buckets][h]) : hash(entry[n].key) = h
        BY <1>2, HeadHash
      <4> QED  BY <4>1, <2>3, <1>1 DEF Chain
    <3>3. CASE vectors[buckets][h] = unused  BY <2>1, <3>1, <3>3 DEF Chain, ListOf
    <3>4. CASE vectors[buckets][h] # unused
      <4>1. /\ ListOf(e, vectors[buckets][h]) \subseteq ListOf(entry, vectors[buckets][h])
            /\ ListOf(entry, vectors[buckets][h]) \ (B \ K) \subseteq ListOf(e, vectors[buckets][h])
        BY <3>1, <3>4, <1>13
      <4> QED  BY <2>1, <3>1, <3>2, <4>1 DEF Chain
    <3> QED  BY <3>3, <3>4
  <2> QED  BY <2>2, <2>3
<1> QED  BY <1>9, <1>10, <1>23, <1>24 DEF e, K

\* A walk goes on to an entry, in this list or in the first later one.
LEMMA OnWithCases ==
  ASSUME IInv, NEW w \in Walks(entry, vectors), w.h < Size, w.h = -1 => w.next = nil
  PROVE  \/ OnWith(w) = Idle
         \/ \E h \in Hashes, n \in 1 .. Len(entry) :
              /\ OnWith(w) = [vector |-> w.vector, h |-> h, next |-> entry[n].cdr,
                              seen |-> w.seen \cup {n}, entries |-> w.entries]
              /\ \/ n = w.next /\ h = w.h
                 \/ /\ w.next = nil /\ h > w.h /\ n = vectors[w.vector][h]
                    /\ \A g \in Hashes : w.h < g /\ g < h => ~(vectors[w.vector][g] > nil)
<1> DEFINE Used == {g \in Hashes : g > w.h /\ vectors[w.vector][g] > nil}
           h == CHOOSE g \in Used : \A f \in Used : g <= f
           n == IF w.next # nil THEN w.next ELSE vectors[w.vector][h]
           w2 == [vector |-> w.vector, h |-> IF w.next # nil THEN w.h ELSE h,
                  next |-> entry[n].cdr, seen |-> w.seen \cup {n}, entries |-> w.entries]
<1>1. OnWith(w) = IF w.next = nil /\ Used = {} THEN Idle ELSE w2  BY DEF OnWith
<1>2. /\ Size \in Nat \ {0} /\ Len(entry) \in Nat
      /\ w.vector \in 1 .. Len(vectors) /\ w.h \in -1 .. Size /\ w.next \in 0 .. Len(entry)
  BY KeyAssumption DEF IInv, Tables, EntriesOK, Falls, Walks
<1>4. CASE w.next = nil /\ Used = {}  BY <1>1, <1>4
<1>5. CASE w.next # nil
  <2>1. w.next \in 1 .. Len(entry)  BY <1>2, <1>5 DEF nil
  <2>2. n = w.next /\ OnWith(w) = w2  BY <1>1, <1>5
  <2>3. w.h # -1 => w.h \in Hashes  BY <1>2 DEF Hashes
  <2>4. OnWith(w) = [vector |-> w.vector, h |-> w.h, next |-> entry[w.next].cdr,
                     seen |-> w.seen \cup {w.next}, entries |-> w.entries]
    BY <2>2, <1>5
  <2> QED  BY <2>1, <2>3, <2>4, <1>5
<1>6. CASE w.next = nil /\ Used # {}
  <2>1. Used \subseteq Nat  BY <1>2 DEF Hashes
  <2>2. \E g \in Used : \A f \in Used : g <= f
    <3> HIDE DEF Used
    <3> QED  BY <1>6, <2>1, LeastNat
  <2>3. h \in Used /\ \A f \in Used : h <= f
    <3> HIDE DEF Used
    <3> QED  BY <2>2
  <2>4. h \in Hashes /\ h > w.h /\ vectors[w.vector][h] > nil  BY <2>3
  <2>5. vectors[w.vector][h] \in {unused} \cup 0 .. Len(entry)
    BY <1>2, <2>4 DEF IInv, Tables, HeadsOK
  <2>6. n = vectors[w.vector][h] /\ n \in 1 .. Len(entry)
    BY <1>2, <1>6, <2>4, <2>5 DEF nil, unused
  <2>7. OnWith(w) = w2  BY <1>1, <1>6
  <2>8. ASSUME NEW g \in Hashes, w.h < g, g < h PROVE ~(vectors[w.vector][g] > nil)
    <3>1. g \in Int /\ h \in Int /\ w.h \in Int  BY <1>2, <2>4 DEF Hashes
    <3>2. g \notin Used
      <4> HIDE DEF Used, h
      <4> QED  BY <2>3, <2>8, <3>1
    <3> QED  BY <2>8, <3>1, <3>2
  <2> HIDE DEF Used, h
  <2> QED  BY <1>6, <2>4, <2>6, <2>7, <2>8
<1> QED  BY <1>4, <1>5, <1>6

\* A walk that has seen what it should goes on and has again.
LEMMA OnWithSeen ==
  ASSUME IInv, NEW w \in Walks(entry, vectors), w.h < Size, w.h = -1 => w.next = nil,
         Seen(entry, vectors, w)
  PROVE  /\ OnWith(w) \in Walks(entry, vectors) /\ OnWith(w).h \in 0 .. Size
         /\ OnWith(w).h < Size => Seen(entry, vectors, OnWith(w))
<1>1. /\ Size \in Nat \ {0} /\ Len(entry) \in Nat /\ Len(vectors) \in Nat \ {0}
      /\ w.vector \in 1 .. Len(vectors) /\ w.h \in -1 .. Size /\ w.next \in 0 .. Len(entry)
      /\ w.seen \subseteq Nat /\ w.entries \in 0 .. Len(entry)
  BY KeyAssumption DEF IInv, Tables, EntriesOK, Falls, Walks
<1>2. CASE OnWith(w) = Idle
  <2>1. Idle.h = Size /\ Idle \in Walks(entry, vectors)  BY <1>1 DEF Idle, Walks, nil
  <2> QED  BY <1>1, <1>2, <2>1
<1>3. ASSUME NEW h \in Hashes, NEW n \in 1 .. Len(entry),
             OnWith(w) = [vector |-> w.vector, h |-> h, next |-> entry[n].cdr,
                          seen |-> w.seen \cup {n}, entries |-> w.entries],
             \/ n = w.next /\ h = w.h
             \/ /\ w.next = nil /\ h > w.h /\ n = vectors[w.vector][h]
                /\ \A g \in Hashes : w.h < g /\ g < h => ~(vectors[w.vector][g] > nil)
      PROVE  /\ OnWith(w) \in Walks(entry, vectors) /\ OnWith(w).h \in 0 .. Size
             /\ Seen(entry, vectors, OnWith(w))
  <2> DEFINE w2 == OnWith(w)
  <2>1. /\ w2.vector = w.vector /\ w2.h = h /\ w2.next = entry[n].cdr
        /\ w2.seen = w.seen \cup {n} /\ w2.entries = w.entries
    BY <1>3
  <2>2. entry[n].cdr \in 0 .. Len(entry) /\ n \in Nat
    BY <1>1 DEF IInv, Tables, EntriesOK, Falls
  <2>3. h \in -1 .. Size /\ h \in 0 .. Size  BY <1>1 DEF Hashes
  <2>4. w2 \in Walks(entry, vectors)  BY <1>1, <1>3, <2>2, <2>3 DEF Walks
  <2>5. ListOf(entry, n) = {n} \cup ListOf(entry, entry[n].cdr)
    <3>1. n \in {unused} \cup 0 .. Len(entry)  BY <1>1
    <3> QED  BY <3>1, ListFacts DEF IInv, Tables
  <2> HIDE DEF w2
  <2>6. Seen(entry, vectors, w2)
    <3>1. SUFFICES ASSUME NEW g \in 0 .. h, NEW m \in ListOf(entry, vectors[w.vector][g]), m <= w.entries
                   PROVE  m \in w.seen \cup {n} \/ (g = h /\ m \in ListOf(entry, entry[n].cdr))
      BY <2>1 DEF Seen
    <3>2. g \in Hashes /\ g \in Int /\ h \in Int /\ w.h \in Int  BY <1>1 DEF Hashes
    <3>3. vectors[w.vector][g] \in {unused} \cup 0 .. Len(entry)
      BY <1>1, <3>2 DEF IInv, Tables, HeadsOK
    <3>4. g <= w.h => m \in w.seen \/ (g = w.h /\ m \in ListOf(entry, w.next))
      BY <3>1, <3>2 DEF Seen
    <3>5. CASE n = w.next /\ h = w.h
      <4>1. g <= w.h  BY <3>1, <3>2, <3>5
      <4> QED  BY <3>4, <3>5, <4>1, <2>5
    <3>6. CASE /\ w.next = nil /\ h > w.h /\ n = vectors[w.vector][h]
               /\ \A f \in Hashes : w.h < f /\ f < h => ~(vectors[w.vector][f] > nil)
      <4>1. CASE g = h  BY <4>1, <3>1, <3>6, <2>5
      <4>2. CASE g <= w.h
        <5>1. ListOf(entry, nil) = {}
          <6>1. nil \in {unused} \cup 0 .. Len(entry)  BY <1>1 DEF nil
          <6> QED  BY <6>1, ListFacts DEF IInv, Tables
        <5> QED  BY <3>4, <3>6, <4>2, <5>1
      <4>3. CASE w.h < g /\ g < h
        <5>1. vectors[w.vector][g] \in {unused, nil}
          <6>1. ~(vectors[w.vector][g] > nil)  BY <3>2, <3>6, <4>3
          <6> QED  BY <6>1, <3>3, <1>1 DEF nil
        <5>2. ListOf(entry, vectors[w.vector][g]) = {}
          BY <3>3, <5>1, ListFacts DEF IInv, Tables
        <5> QED  BY <3>1, <5>2
      <4> QED  BY <3>1, <3>2, <4>1, <4>2, <4>3
    <3> QED  BY <1>3, <3>5, <3>6
  <2> QED  BY <2>1, <2>3, <2>4, <2>6 DEF w2
<1> QED  BY <1>2, <1>3, OnWithCases

\* hash-set!, and an entry made by hash-create-handle! or string->symbol.
LEMMA SetIInv ==
  ASSUME IInv, NEW k \in KeysOf[interface], hash_set_x_(k)
  PROVE  IInv'
<1>1. Insert(k) /\ result' = NewValue /\ handle' = handle  BY DEF hash_set_x_
<1>2. /\ Tables(entry', vectors', buckets', walk') /\ interface' = interface
      /\ Len(entry') = Len(entry) + 1 /\ Len(entry) \in Nat /\ NewValue \in Values
  BY <1>1, InsertTables
<1>3. handle' \in 0 .. Len(entry') /\ result' \in Results  BY <1>1, <1>2 DEF IInv, Results
<1> QED  BY <1>2, <1>3, StepIInv

\* hash-create-handle! inserts, unless it finds the key.
LEMMA CreateHandleIInv ==
  ASSUME IInv, NEW k \in KeysOf[interface], create_handle_x(k)
  PROVE  IInv'
<1> DEFINE n == assq(k, Bucket(k))
<1>1. /\ IF n = nil THEN Insert(k) ELSE UNCHANGED <<interface, table, walk>>
      /\ handle' = IF n = nil THEN Len(entry') ELSE n
      /\ result' = entry'[handle'].value
  BY DEF create_handle_x
<1>2. n \in 0 .. Len(entry) /\ ValueAt(n) \in Results  BY FindFacts
<1> HIDE DEF n
<1>3. CASE n = nil
  <2>1. Insert(k) /\ handle' = Len(entry')  BY <1>1, <1>3
  <2>2. /\ Tables(entry', vectors', buckets', walk') /\ interface' = interface
        /\ Len(entry') = Len(entry) + 1 /\ Len(entry) \in Nat
        /\ NewValue \in Values /\ entry'[Len(entry')].value = NewValue
    BY <2>1, InsertTables
  <2>3. handle' \in 0 .. Len(entry') /\ result' \in Results  BY <1>1, <2>1, <2>2 DEF Results
  <2> QED  BY <2>2, <2>3, StepIInv
<1>4. CASE n # nil
  <2>1. UNCHANGED <<interface, table, walk>> /\ handle' = n  BY <1>1, <1>4
  <2>2. result' = ValueAt(n)  BY <1>1, <1>4, <2>1 DEF ValueAt, table
  <2> QED  BY <1>2, <2>1, <2>2, QuietIInv
<1> QED  BY <1>3, <1>4

\* A lookup changes nothing but the result.
LEMMA RefIInv ==
  ASSUME IInv, NEW k \in KeysOf[interface], Ref(k)
  PROVE  IInv'
<1>1. UNCHANGED <<interface, table, walk>> /\ handle' = handle /\ result' = ValueAt(Find(k))
  BY DEF Ref
<1>2. handle' \in 0 .. Len(entry) /\ result' \in Results  BY <1>1, FindFacts DEF IInv
<1> QED  BY <1>1, <1>2, QuietIInv

\* hash-remove! relinks a bucket, or stops at one never used.
LEMMA RemoveIInv ==
  ASSUME IInv, NEW k \in Keys, hash_remove_x(k)
  PROVE  IInv'
<1>1. k \in KeysOf[interface] /\ interface' = interface /\ handle' = handle
      /\ UNCHANGED <<interface, buckets, walk>>
  BY DEF hash_remove_x, Uses
<1>2. CASE bucket(hash(k)) = unused
  <2>1. UNCHANGED <<interface, table, walk>> /\ result' = Crash
    BY <1>2 DEF hash_remove_x, table
  <2>2. handle' \in 0 .. Len(entry) /\ result' \in Results  BY <1>1, <2>1 DEF IInv, Results
  <2> QED  BY <2>1, <2>2, QuietIInv
<1>3. CASE bucket(hash(k)) # unused
  <2>1. /\ entry' = Linked(k) /\ result' = unspecified
        /\ vectors' = [vectors EXCEPT ![buckets][hash(k)] = First(Kept(k))]
    BY <1>3 DEF hash_remove_x
  <2>2. Tables(entry', vectors', buckets', walk') /\ Len(entry') = Len(entry)
    BY <1>1, <1>3, <2>1, RemoveTables
  <2>3. handle' \in 0 .. Len(entry') /\ result' \in Results
    BY <1>1, <2>1, <2>2 DEF IInv, Results
  <2> QED  BY <1>1, <2>2, <2>3, StepIInv
<1> QED  BY <1>2, <1>3

\* hash-map->list takes its next step.
LEMMA WalkIInv ==
  ASSUME IInv, NEW w \in Walks(entry, vectors), w.h < Size, w.h = -1 => w.next = nil,
         Seen(entry, vectors, w), walk' = OnWith(w),
         UNCHANGED <<interface, table, handle, result>>
  PROVE  IInv'
<1>1. entry' = entry /\ vectors' = vectors /\ buckets' = buckets
  BY DEF table
<1>2. /\ walk' \in Walks(entry, vectors) /\ walk'.h \in 0 .. Size
      /\ walk'.h < Size => Seen(entry, vectors, walk')
  BY OnWithSeen
<1>3. Tables(entry', vectors', buckets', walk')  BY <1>1, <1>2 DEF IInv, Tables
<1> QED  BY <1>1, <1>3, StepIInv DEF IInv

\* Every step keeps the invariant.
LEMMA NextIInv == IInv /\ [Next]_vars => IInv'
<1> SUFFICES ASSUME IInv, [Next]_vars PROVE IInv'  OBVIOUS
<1>1. ASSUME NEW k \in Keys, hashq_ref_(k) PROVE IInv'
  BY <1>1, RefIInv DEF hashq_ref_, Uses
<1>2. ASSUME NEW k \in Keys, hashq_get_handle(k) PROVE IInv'
  <2>1. k \in KeysOf[interface]  BY <1>2 DEF hashq_get_handle, Uses
  <2>2. handle' \in 0 .. Len(entry) /\ result' \in Results
    BY <1>2, <2>1, FindFacts DEF hashq_get_handle
  <2> QED  BY <1>2, <2>2, QuietIInv DEF hashq_get_handle
<1>3. ASSUME NEW k \in Keys, hash_ref_(k) PROVE IInv'
  BY <1>3, RefIInv DEF hash_ref_, Uses
<1>4. ASSUME NEW k \in Keys, hash_remove_x(k) PROVE IInv'
  BY <1>4, RemoveIInv
<1>5. ASSUME NEW k \in Keys, string_to_symbol(k) PROVE IInv'
  BY <1>5, RefIInv, SetIInv DEF string_to_symbol, Uses
<1>6. ASSUME NEW k \in Keys, hashq_set_x(k) PROVE IInv'
  BY <1>6, SetIInv DEF hashq_set_x, Uses
<1>7. ASSUME NEW k \in Keys, hashq_create_handle_x(k) PROVE IInv'
  BY <1>7, CreateHandleIInv DEF hashq_create_handle_x, Uses
<1>8. ASSUME NEW k \in Keys, hash_set_x(k) PROVE IInv'
  BY <1>8, SetIInv DEF hash_set_x, Uses
<1>9. ASSUME NEW k \in Keys, hash_create_handle_x(k) PROVE IInv'
  BY <1>9, KeyAssumption, CreateHandleIInv DEF hash_create_handle_x, Uses
<1>10. CASE set_cdr_x
  <2>1. Tables(entry', vectors', buckets', walk') /\ Len(entry') = Len(entry)
    BY <1>10, SetCdrTables
  <2>2. interface' = interface /\ handle' = handle /\ result' = result  BY <1>10 DEF set_cdr_x
  <2> QED  BY <2>1, <2>2, StepIInv DEF IInv
<1>11. CASE hash_clear_x
  <2>1. Tables(entry', vectors', buckets', walk')  BY <1>11, ClearTables
  <2>2. interface' = interface /\ handle' = handle /\ entry' = entry /\ result' = unspecified
    BY <1>11 DEF hash_clear_x
  <2>3. handle' \in 0 .. Len(entry') /\ result' \in Results  BY <2>2 DEF IInv, Results
  <2> QED  BY <2>1, <2>2, <2>3, StepIInv
<1>12. CASE hash_map_to_list
  <2> DEFINE w == [vector |-> buckets, h |-> -1, next |-> nil, seen |-> {}, entries |-> Len(entry)]
  <2>1. walk' = OnWith(w) /\ UNCHANGED <<interface, table, handle, result>>
    BY <1>12 DEF hash_map_to_list
  <2>2. Size \in Nat \ {0} /\ Len(entry) \in Nat /\ buckets \in 1 .. Len(vectors)
    BY KeyAssumption DEF IInv, Tables, EntriesOK, Falls
  <2>3. w \in Walks(entry, vectors)  BY <2>2 DEF Walks, nil
  <2>4. Seen(entry, vectors, w)
    <3>1. 0 .. w.h = {}  OBVIOUS
    <3> QED  BY <3>1 DEF Seen
  <2>5. w.h < Size /\ w.next = nil  BY <2>2
  <2> HIDE DEF w
  <2> QED  BY <2>1, <2>3, <2>4, <2>5, WalkIInv
<1>13. CASE WalkOn
  <2>1. walk' = OnWith(walk) /\ UNCHANGED <<interface, table, handle, result>> /\ walk.h < Size
    BY <1>13 DEF WalkOn, Walking
  <2>2. walk \in Walks(entry, vectors) /\ walk.h # -1 /\ Seen(entry, vectors, walk)
    BY <2>1 DEF IInv, Tables
  <2> QED  BY <2>1, <2>2, WalkIInv
<1>14. CASE UNCHANGED vars
  <2>1. UNCHANGED <<interface, table, walk>> /\ handle' = handle /\ result' = result
    BY <1>14 DEF vars, table
  <2> QED  BY <2>1, QuietIInv DEF IInv
<1> QED
  BY <1>1, <1>2, <1>3, <1>4, <1>5, <1>6, <1>7, <1>8, <1>9, <1>10, <1>11, <1>12, <1>13, <1>14 DEF Next

-----------------------------------------------------------------------------
(***************************************************************************)
(* The theorems.                                                           *)
(***************************************************************************)
\* The invariant holds in all reachable states.
THEOREM Invariance == Spec => []IInv
BY InitIInv, NextIInv, PTL DEF Spec

\* The variables have their types, a list leads to older entries of the same
\* bucket, a bucket of the table or of one cleared holds entries of its hash.
THEOREM TypeCorrect == Spec => []TypeOK
<1>1. IInv => TypeOK
  <2> SUFFICES ASSUME IInv PROVE TypeOK  OBVIOUS
  <2>1. /\ EntriesOK(entry) /\ HeadsOK(entry, vectors) /\ buckets \in 1 .. Len(vectors)
        /\ handle \in 0 .. Len(entry) /\ result \in Results /\ walk.h \in 0 .. Size
        /\ interface \in {"hashq", "hash", "symbols"}
    BY DEF IInv, Tables
  <2>2. /\ entry \in Seq(Entries) /\ Len(entry) \in Nat /\ DOMAIN entry = 1 .. Len(entry)
        /\ \A n \in 1 .. Len(entry) : entry[n].cdr \in 0 .. n - 1
    BY <2>1 DEF EntriesOK, Falls
  <2>3. \A n \in DOMAIN entry :
          /\ entry[n].key \in KeysOf[interface]
          /\ entry[n].cdr < n
          /\ entry[n].cdr # nil => hash(entry[entry[n].cdr].key) = hash(entry[n].key)
    BY <2>1, <2>2 DEF EntriesOK
  <2>4. vectors \in Seq([Hashes -> {unused} \cup Nat]) /\ DOMAIN vectors = 1 .. Len(vectors)
    BY <2>1 DEF HeadsOK
  <2>5. ASSUME NEW v \in 1 .. Len(vectors), NEW h \in Hashes, vectors[v][h] > 0
        PROVE  vectors[v][h] \in 1 .. Len(entry) /\ hash(entry[vectors[v][h]].key) = h
    <3>1. vectors[v][h] \in {unused} \cup 0 .. Len(entry) /\ hash(entry[vectors[v][h]].key) = h
      BY <2>1, <2>5 DEF HeadsOK
    <3> QED  BY <2>2, <2>5, <3>1 DEF unused
  <2>6. handle \in {nil} \cup 1 .. Len(entry)  BY <2>1, <2>2 DEF nil
  <2> QED  BY <2>1, <2>2, <2>3, <2>4, <2>5, <2>6 DEF TypeOK, Entries, Results
<1> QED  BY <1>1, Invariance, PTL

\* hash-map->list calls its procedure for every entry that was in the table
\* when it began and is still there, whatever that procedure puts in, removes
\* and clears.
THEOREM WalkIsComplete == Spec => []WalkMissesNothing
<1>1. IInv => WalkMissesNothing
  <2> SUFFICES ASSUME IInv, Walking,
                      NEW h \in 0 .. walk.h, NEW n \in List(vectors[walk.vector][h]),
                      n <= walk.entries
               PROVE  n \in walk.seen \/ (h = walk.h /\ n \in List(walk.next))
    BY Zenon DEF WalkMissesNothing
  <2>1. Seen(entry, vectors, walk)  BY DEF IInv, Tables, Walking
  <2>2. n \in ListOf(entry, vectors[walk.vector][h])  BY ListIsFrom DEF ListOf
  <2>3. n \in walk.seen \/ (h = walk.h /\ n \in ListOf(entry, walk.next))
    BY <2>1, <2>2 DEF Seen
  <2> QED  BY <2>3, ListIsFrom DEF ListOf
<1> QED  BY <1>1, Invariance, PTL

-----------------------------------------------------------------------------
(***************************************************************************)
(* The table is a map.  The entries that have a key's name:                *)
(***************************************************************************)
Holds(k) == {n \in Chain(hash(k)) : Name(entry[n].key) = Name(k)}
Content(k) == IF Find(k) = nil THEN Absent ELSE entry[Find(k)].value

\* hash-create-handle! is used with keys that assq tells apart as equal? does.
HandlesAgree ==
  \A j \in HandleKeys, k \in KeysOf["hash"] : assq_p(j, k) <=> equal2_p(j, k)

\* Symbols are found by their address, other keys by their content.
LEMMA EqualNames ==
  ASSUME NEW j \in Keys, NEW k \in Keys
  PROVE  equal2_p(j, k) <=> Name(j) = Name(k)
<1>1. type[j] \in NameTypes \cup WordTypes \cup {"TSTRING", "TKEYWORD"}
  <2>1. type[j] \in Range(type)  BY KeyAssumption DEF Range
  <2> QED  BY <2>1, KeyAssumption
<1>2. Name(j) = Name(k) <=> type[j] = type[k] /\ text[j] = text[k]  BY DEF Name
<1>3. ASSUME Name(j) = Name(k) PROVE equal2_p(j, k)
  <2>1. CASE type[j] \in NameTypes
    <3>1. j = k  BY <1>2, <1>3, <2>1, SymbolAssumption
    <3> QED  BY <3>1 DEF equal2_p
  <2>2. CASE type[j] \notin NameTypes
    BY <1>1, <1>2, <1>3, <2>2 DEF equal2_p
  <2> QED  BY <2>1, <2>2
<1>4. ASSUME equal2_p(j, k) PROVE Name(j) = Name(k)
  BY <1>2, <1>4 DEF equal2_p
<1> QED  BY <1>3, <1>4

\* Keys of one name are in one bucket.
LEMMA HashOfName ==
  ASSUME NEW j \in Keys, NEW k \in Keys, Name(j) = Name(k)
  PROVE  hash(j) = hash(k)
<1>1. type[j] = type[k] /\ text[j] = text[k]  BY DEF Name
<1> QED  BY <1>1 DEF hash, hash_

\* A lookup finds the last entry made of those with the key's name.
FindsNames ==
  \A k \in KeysOf[interface] :
    /\ k \in Keys /\ hash(k) \in Hashes
    /\ Holds(k) \subseteq 1 .. Len(entry) /\ Len(entry) \in Nat
    /\ Find(k) = First(Holds(k)) /\ Find(k) \in 0 .. Len(entry)
    /\ Find(k) # nil => Find(k) \in Holds(k)
    /\ Find(k) = nil => Holds(k) = {}

\* So it is, by the order of the entries in a bucket.
LEMMA FindsNamesHolds == IInv => FindsNames
<1> SUFFICES ASSUME IInv, NEW k \in KeysOf[interface]
             PROVE  /\ k \in Keys /\ hash(k) \in Hashes
                    /\ Holds(k) \subseteq 1 .. Len(entry) /\ Len(entry) \in Nat
                    /\ Find(k) = First(Holds(k)) /\ Find(k) \in 0 .. Len(entry)
                    /\ Find(k) # nil => Find(k) \in Holds(k)
                    /\ Find(k) = nil => Holds(k) = {}
  BY Zenon DEF FindsNames
<1>1. /\ k \in Keys /\ hash(k) \in Hashes /\ Bucket(k) = Chain(hash(k))
      /\ Len(entry) \in Nat /\ Bucket(k) \subseteq 1 .. Len(entry)
  BY BucketFacts DEF Chain, bucket
<1>2. \A n \in Bucket(k) : entry[n].key \in KeysOf[interface] /\ entry[n].key \in Keys
  <2>1. \A n \in 1 .. Len(entry) : entry[n].key \in KeysOf[interface]
    BY DEF IInv, Tables, EntriesOK
  <2>2. KeysOf[interface] \subseteq Keys  BY KeyAssumption DEF IInv
  <2> QED  BY <1>1, <2>1, <2>2
<1>3. Holds(k) \subseteq 1 .. Len(entry)  BY <1>1 DEF Holds
<1>4. {n \in Bucket(k) : equal2_p(k, entry[n].key)} = Holds(k)
  <2>1. \A n \in Bucket(k) : equal2_p(k, entry[n].key) <=> Name(entry[n].key) = Name(k)
    BY <1>1, <1>2, EqualNames
  <2> QED  BY <1>1, <2>1 DEF Holds
<1>5. Find(k) = First(Holds(k))
  <2>1. CASE interface # "hashq"  BY <2>1, <1>4 DEF Find, assoc
  <2>2. CASE interface = "hashq"
    <3>1. \A n \in Bucket(k) : assq_p(k, entry[n].key) <=> equal2_p(k, entry[n].key)
      <4>1. type[k] \in NameTypes /\ \A n \in Bucket(k) : type[entry[n].key] \in NameTypes
        BY <2>2, <1>2, InterfaceAssumption
      <4> QED  BY <4>1 DEF assq_p, equal2_p, NameTypes, WordTypes
    <3>2. {n \in Bucket(k) : assq_p(k, entry[n].key)} = Holds(k)  BY <3>1, <1>4
    <3> QED  BY <2>2, <3>2 DEF Find, assq
  <2> QED  BY <2>1, <2>2
<1>6. /\ First(Holds(k)) \in 0 .. Len(entry)
      /\ Holds(k) # {} => First(Holds(k)) \in Holds(k)
      /\ Holds(k) = {} => First(Holds(k)) = nil
  BY <1>1, <1>3, FirstFacts
<1>7. Find(k) = nil => Holds(k) = {}
  BY <1>3, <1>5, <1>6 DEF nil
<1> QED  BY <1>1, <1>3, <1>5, <1>6, <1>7

\* Keys of one name find the same entry.
LEMMA SameFind ==
  ASSUME IInv, NEW j \in KeysOf[interface], NEW k \in KeysOf[interface], Name(j) = Name(k)
  PROVE  Find(j) = Find(k)
<1>1. FindsNames  BY FindsNamesHolds
<1>2. j \in Keys /\ k \in Keys  BY <1>1 DEF FindsNames
<1>3. Holds(j) = Holds(k)  BY <1>2, HashOfName DEF Holds
<1> QED  BY <1>1, <1>3 DEF FindsNames

\* The map has the values that lookups find, and nothing else.
MapOK ==
  /\ \A k \in KeysOf[interface] : Name(k) \in Names /\ Map[Name(k)] = Content(k)
  /\ \A name \in Names : (\A k \in KeysOf[interface] : Name(k) # name) => Map[name] = Absent
  /\ Map = [name \in Names |-> Map[name]]

\* So the map has.
LEMMA MapOKHolds == IInv => MapOK
<1> SUFFICES ASSUME IInv PROVE MapOK  OBVIOUS
<1>1. Map = [name \in Names |-> Map[name]]
  BY DEF Map
<1>2. \A name \in Names : Map[name] = IF EntryOf(name) = nil THEN Absent ELSE entry[EntryOf(name)].value
  BY DEF Map
<1>3. interface \in DOMAIN KeysOf  BY KeyAssumption DEF IInv
<1>4. DOMAIN KeyOf[interface] = {Name(k) : k \in KeysOf[interface]}
  BY <1>3 DEF KeyOf
<1>5. ASSUME NEW name \in Names, \A k \in KeysOf[interface] : Name(k) # name
      PROVE  Map[name] = Absent
  <2>1. EntryOf(name) = nil  BY <1>4, <1>5 DEF EntryOf
  <2> QED  BY <1>2, <2>1
<1>6. ASSUME NEW k \in KeysOf[interface]
      PROVE  Name(k) \in Names /\ Map[Name(k)] = Content(k)
  <2>1. k \in Keys  BY FindsNamesHolds DEF FindsNames
  <2>2. Name(k) \in Names  BY <2>1 DEF Names
  <2> DEFINE j == CHOOSE i \in KeysOf[interface] : Name(i) = Name(k)
  <2>3. j \in KeysOf[interface] /\ Name(j) = Name(k)  OBVIOUS
  <2>4. KeyOf[interface][Name(k)] = j  BY <1>3 DEF KeyOf
  <2>5. EntryOf(Name(k)) = Find(j)
    <3>1. Name(k) \in DOMAIN KeyOf[interface]  BY <1>4
    <3> QED  BY <2>4, <3>1 DEF EntryOf
  <2> HIDE DEF j
  <2>6. Find(j) = Find(k)  BY <2>3, SameFind
  <2> QED  BY <1>2, <2>2, <2>5, <2>6 DEF Content
<1> QED  BY <1>1, <1>5, <1>6 DEF MapOK

\* The same in the next state.
LEMMA NextFacts == IInv' => FindsNames' /\ MapOK'
BY FindsNamesHolds, MapOKHolds, PTL

\* The map after a step.
LEMMA NextMap ==
  ASSUME IInv', interface' = interface, NEW F, F = [name \in Names |-> F[name]],
         \A j \in KeysOf[interface] : Content(j)' = F[Name(j)],
         \A name \in Names : (\A k \in KeysOf[interface] : Name(k) # name) => F[name] = Absent
  PROVE  Map' = F
<1>1. /\ \A k \in KeysOf[interface] : Name(k) \in Names /\ Map'[Name(k)] = Content(k)'
      /\ \A name \in Names : (\A k \in KeysOf[interface] : Name(k) # name) => Map'[name] = Absent
      /\ Map' = [name \in Names |-> Map'[name]]
  <2>1. MapOK'  BY NextFacts
  <2> QED  BY <2>1 DEF MapOK, Name, Names
<1>2. ASSUME NEW name \in Names PROVE Map'[name] = F[name]
  <2>1. CASE \A k \in KeysOf[interface] : Name(k) # name  BY <2>1, <1>1
  <2>2. CASE \E k \in KeysOf[interface] : Name(k) = name  BY <2>2, <1>1
  <2> QED  BY <2>1, <2>2
<1> QED  BY <1>1, <1>2

\* The greatest of a set of entries is its first.
LEMMA FirstIs ==
  ASSUME NEW n \in Nat, NEW S, S \subseteq 1 .. n, NEW m \in S, \A x \in S : x <= m
  PROVE  First(S) = m
<1>1. First(S) \in S /\ m <= First(S)  BY FirstFacts
<1>2. First(S) <= m  BY <1>1
<1>3. First(S) \in 1 .. n /\ m \in 1 .. n  BY <1>1
<1> QED  BY <1>1, <1>2, <1>3

\* What the program holds before and after a step that leaves its handle.
LEMMA HeldIs ==
  ASSUME IInv
  PROVE  /\ handle = nil => Held = Nobody
         /\ handle # nil => /\ handle \in 1 .. Len(entry)
                            /\ entry[handle].key \in KeysOf[interface]
                            /\ Held = IF Find(entry[handle].key) = handle
                                        THEN Name(entry[handle].key) ELSE Stale
<1>1. handle \in 0 .. Len(entry) /\ Len(entry) \in Nat
  BY DEF IInv, Tables, EntriesOK, Falls
<1>2. \A n \in 1 .. Len(entry) : entry[n].key \in KeysOf[interface]
  BY DEF IInv, Tables, EntriesOK
<1>3. handle # nil => handle \in 1 .. Len(entry)  BY <1>1 DEF nil
<1> QED  BY <1>2, <1>3 DEF Held

\* The same when a step leaves the keys and the handle.
LEMMA NextHeld ==
  ASSUME IInv, interface' = interface, handle' = handle,
         \A n \in 1 .. Len(entry) : entry'[n].key = entry[n].key
  PROVE  /\ handle = nil => Held' = Nobody
         /\ \A q : handle # nil /\ q = entry[handle].key =>
              /\ Find(q)' = handle => Held' = Name(q)
              /\ Find(q)' # handle => Held' = Stale
<1>1. handle # nil => entry'[handle'].key = entry[handle].key  BY HeldIs
<1>2. handle = nil => Held' = Nobody  BY DEF Held, nil
<1>3. ASSUME NEW q, handle # nil, q = entry[handle].key
      PROVE  /\ Find(q)' = handle => Held' = Name(q)
             /\ Find(q)' # handle => Held' = Stale
  <2>1. entry'[handle'].key = q /\ handle' # nil  BY <1>1, <1>3 DEF nil
  <2>2. Find(entry[handle].key)' = Find(q)'  BY <2>1 DEF Find, assq, assoc, Bucket, hash, hash_
  <2>3. Name(entry[handle].key)' = Name(q)  BY <2>1 DEF Name
  <2> QED  BY <1>3, <2>1, <2>2, <2>3 DEF Held, nil
<1> QED  BY <1>2, <1>3

-----------------------------------------------------------------------------
\* After an insertion the key is found at the new entry, others as before.
LEMMA InsertFinds ==
  ASSUME IInv, IInv', NEW k \in KeysOf[interface], Insert(k)
  PROVE  \A j \in KeysOf[interface] :
           /\ Find(j)' = IF Name(j) = Name(k) THEN NewValue ELSE Find(j)
           /\ Content(j)' = IF Name(j) = Name(k) THEN NewValue ELSE Content(j)
<1> DEFINE N == Len(entry)
<1>1. /\ interface' = interface /\ Len(entry') = N + 1 /\ N \in Nat
      /\ entry'[N + 1].value = NewValue /\ entry'[N + 1].key = k
      /\ \A n \in 1 .. N : entry'[n] = entry[n]
      /\ \A h \in Hashes : Chain(h)' = IF h = hash(k) THEN {N + 1} \cup Chain(h) ELSE Chain(h)
  BY InsertTables
<1>2. NewValue = N + 1  BY DEF NewValue
<1> TAKE j \in KeysOf[interface]
<1>3. /\ j \in Keys /\ k \in Keys /\ hash(j) \in Hashes
      /\ Holds(j) \subseteq 1 .. N
      /\ Find(j) = First(Holds(j)) /\ Find(j) \in 0 .. N
      /\ Find(j) # nil => Find(j) \in Holds(j)
  BY FindsNamesHolds DEF FindsNames
<1>4. Holds(j)' \subseteq 1 .. N + 1 /\ Find(j)' = First(Holds(j)')
  <2>1. FindsNames'  BY NextFacts
  <2> QED  BY <2>1, <1>1 DEF FindsNames, First
<1>5. Holds(j)' = {n \in Chain(hash(j))' : Name(entry'[n].key) = Name(j)} /\ hash(j)' = hash(j)
  BY <1>1 DEF Holds, Name, hash
<1>6. Chain(hash(j))' = IF hash(j) = hash(k) THEN {N + 1} \cup Chain(hash(j)) ELSE Chain(hash(j))
  BY <1>1, <1>3, <1>5 DEF Chain
<1>7. CASE Name(j) = Name(k)
  <2>1. hash(j) = hash(k)  BY <1>3, <1>7, HashOfName
  <2>2. N + 1 \in Holds(j)'  BY <1>1, <1>5, <1>6, <1>7, <2>1
  <2>3. \A x \in Holds(j)' : x <= N + 1  BY <1>1, <1>4
  <2>4. N + 1 \in Nat  BY <1>1
  <2>5. First(Holds(j)') = N + 1  BY <1>4, <2>2, <2>3, <2>4, FirstIs
  <2>6. Find(j)' = NewValue  BY <1>2, <1>4, <2>5
  <2>7. Content(j)' = NewValue  BY <1>1, <1>2, <2>6 DEF Content, nil
  <2> QED  BY <1>7, <2>6, <2>7
<1>8. CASE Name(j) # Name(k)
  <2>1. Chain(hash(j)) \subseteq 1 .. N
    <3>1. EntriesOK(entry) /\ vectors[buckets][hash(j)] \in {unused} \cup 0 .. N
      <4>1. buckets \in 1 .. Len(vectors) /\ EntriesOK(entry) /\ HeadsOK(entry, vectors)
        BY DEF IInv, Tables
      <4> QED  BY <4>1, <1>3 DEF HeadsOK
    <3> QED  BY <3>1, ListFacts DEF Chain
  <2>2. \A n \in Chain(hash(j)) : entry'[n].key = entry[n].key  BY <1>1, <2>1
  <2>3. Holds(j)' = Holds(j)
    <3>1. \A n \in Chain(hash(j))' : Name(entry'[n].key) = Name(j) <=> n \in Holds(j)
      BY <1>1, <1>6, <1>8, <2>2 DEF Holds
    <3>2. Holds(j) \subseteq Chain(hash(j)) /\ Chain(hash(j)) \subseteq Chain(hash(j))'
      BY <1>6 DEF Holds
    <3> QED  BY <1>5, <3>1, <3>2
  <2>4. Find(j)' = Find(j)  BY <1>3, <1>4, <2>3
  <2>5. Find(j) # nil => Find(j) \in 1 .. N  BY <1>3
  <2>6. Content(j)' = Content(j)  BY <1>1, <2>4, <2>5 DEF Content, nil
  <2> QED  BY <1>8, <2>4, <2>6
<1> QED  BY <1>7, <1>8

\* When a handle is written through, keys are found where they were.
LEMMA SetCdrFinds ==
  ASSUME IInv, IInv', set_cdr_x
  PROVE  \A j \in KeysOf[interface] :
           /\ Find(j)' = Find(j)
           /\ Content(j)' = IF Find(j) = handle THEN 0 ELSE Content(j)
<1> DEFINE N == Len(entry)
<1>1. /\ interface' = interface /\ Len(entry') = N /\ handle # nil
      /\ \A n \in 1 .. N : /\ entry'[n].key = entry[n].key
                           /\ entry'[n].value = IF n = handle THEN 0 ELSE entry[n].value
      /\ \A h \in Hashes : Chain(h)' = Chain(h)
  BY SetCdrTables DEF set_cdr_x
<1> TAKE j \in KeysOf[interface]
<1>2. /\ hash(j) \in Hashes /\ Find(j) = First(Holds(j)) /\ Find(j) \in 0 .. N /\ N \in Nat
  BY FindsNamesHolds DEF FindsNames
<1>3. Find(j)' = First(Holds(j)')
  <2>1. FindsNames'  BY NextFacts
  <2> QED  BY <2>1, <1>1 DEF FindsNames, First
<1>4. Holds(j)' = {n \in Chain(hash(j))' : Name(entry'[n].key) = Name(j)} /\ hash(j)' = hash(j)
  BY <1>1 DEF Holds, Name, hash
<1>5. Chain(hash(j))' = Chain(hash(j)) /\ Chain(hash(j)) \subseteq 1 .. N
  <2>1. Chain(hash(j))' = Chain(hash(j))  BY <1>1, <1>2, <1>4 DEF Chain
  <2>2. EntriesOK(entry) /\ vectors[buckets][hash(j)] \in {unused} \cup 0 .. N
    <3>1. buckets \in 1 .. Len(vectors) /\ EntriesOK(entry) /\ HeadsOK(entry, vectors)
      BY DEF IInv, Tables
    <3> QED  BY <3>1, <1>2 DEF HeadsOK
  <2> QED  BY <2>1, <2>2, ListFacts DEF Chain
<1>6. Holds(j)' = Holds(j)
  <2>1. \A n \in Chain(hash(j)) : entry'[n].key = entry[n].key  BY <1>1, <1>5
  <2> QED  BY <2>1, <1>4, <1>5 DEF Holds
<1>7. Find(j)' = Find(j)  BY <1>2, <1>3, <1>6
<1>8. Find(j) # nil => Find(j) \in 1 .. N  BY <1>2 DEF nil
<1>9. CASE Find(j) = nil
  <2>1. Content(j)' = Absent /\ Content(j) = Absent  BY <1>7, <1>9 DEF Content, nil
  <2> QED  BY <1>1, <1>7, <1>9, <2>1
<1>10. CASE Find(j) # nil
  <2>1. Content(j)' = entry'[Find(j)].value /\ Content(j) = entry[Find(j)].value
    BY <1>7, <1>10 DEF Content, nil
  <2> QED  BY <1>1, <1>7, <1>8, <1>10, <2>1
<1> QED  BY <1>9, <1>10

\* After a removal the key is not found, others as before.
LEMMA RemoveFinds ==
  ASSUME IInv, IInv', NEW k \in KeysOf[interface], hash_remove_x(k), bucket(hash(k)) # unused
  PROVE  \A j \in KeysOf[interface] :
           /\ Find(j)' = IF Name(j) = Name(k) THEN nil ELSE Find(j)
           /\ Content(j)' = IF Name(j) = Name(k) THEN Absent ELSE Content(j)
<1> DEFINE N == Len(entry)
<1>1. /\ interface' = interface /\ Len(entry') = N
      /\ \A n \in 1 .. N : entry'[n].key = entry[n].key /\ entry'[n].value = entry[n].value
      /\ \A h \in Hashes : Chain(h)' = IF h = hash(k) THEN Kept(k) ELSE Chain(h)
  <2>1. /\ entry' = Linked(k) /\ UNCHANGED <<interface, buckets, walk>>
        /\ vectors' = [vectors EXCEPT ![buckets][hash(k)] = First(Kept(k))]
    BY DEF hash_remove_x
  <2> QED  BY <2>1, RemoveTables
<1>2. /\ k \in Keys /\ Bucket(k) = Chain(hash(k)) /\ Bucket(k) \subseteq 1 .. N /\ N \in Nat
  BY BucketFacts DEF Chain, bucket
<1>3. Kept(k) = {n \in Chain(hash(k)) : Name(entry[n].key) # Name(k)}
  <2>1. \A n \in 1 .. N : entry[n].key \in KeysOf[interface]
    BY DEF IInv, Tables, EntriesOK
  <2>2. KeysOf[interface] \subseteq Keys  BY KeyAssumption DEF IInv
  <2>3. \A n \in Bucket(k) : equal2_p(k, entry[n].key) <=> Name(k) = Name(entry[n].key)
    BY <1>2, <2>1, <2>2, EqualNames
  <2> QED  BY <1>2, <2>3 DEF Kept
<1> TAKE j \in KeysOf[interface]
<1>4. /\ j \in Keys /\ hash(j) \in Hashes /\ Find(j) = First(Holds(j)) /\ Find(j) \in 0 .. N
  BY FindsNamesHolds DEF FindsNames
<1>5. Find(j)' = First(Holds(j)')
  <2>1. FindsNames'  BY NextFacts
  <2> QED  BY <2>1, <1>1 DEF FindsNames, First
<1>6. Holds(j)' = {n \in Chain(hash(j))' : Name(entry'[n].key) = Name(j)} /\ hash(j)' = hash(j)
  BY <1>1 DEF Holds, Name, hash
<1>7. Chain(hash(j))' = IF hash(j) = hash(k) THEN Kept(k) ELSE Chain(hash(j))
  BY <1>1, <1>4, <1>6 DEF Chain
<1>8. Chain(hash(j)) \subseteq 1 .. N
  <2>1. EntriesOK(entry) /\ vectors[buckets][hash(j)] \in {unused} \cup 0 .. N
    <3>1. buckets \in 1 .. Len(vectors) /\ EntriesOK(entry) /\ HeadsOK(entry, vectors)
      BY DEF IInv, Tables
    <3> QED  BY <3>1, <1>4 DEF HeadsOK
  <2> QED  BY <2>1, ListFacts DEF Chain
<1>9. \A n \in Chain(hash(j)) : entry'[n].key = entry[n].key  BY <1>1, <1>8
<1>10. CASE Name(j) = Name(k)
  <2>1. hash(j) = hash(k)  BY <1>2, <1>4, <1>10, HashOfName
  <2>2. Chain(hash(j))' = Kept(k)  BY <1>7, <2>1
  <2>3. Holds(j)' = {}  BY <1>3, <1>6, <1>9, <1>10, <2>1, <2>2
  <2>4. Find(j)' = nil  BY <1>2, <1>5, <2>3, FirstFacts
  <2>5. Content(j)' = Absent  BY <2>4 DEF Content, nil
  <2> QED  BY <1>10, <2>4, <2>5
<1>11. CASE Name(j) # Name(k)
  <2>1. Holds(j)' = Holds(j)
    <3>1. CASE hash(j) = hash(k)
      <4>1. Chain(hash(j))' = {n \in Chain(hash(j)) : Name(entry[n].key) # Name(k)}
        BY <1>3, <1>7, <3>1
      <4> QED  BY <1>6, <1>9, <1>11, <4>1 DEF Holds
    <3>2. CASE hash(j) # hash(k)
      <4>1. Chain(hash(j))' = Chain(hash(j))  BY <1>7, <3>2
      <4> QED  BY <1>6, <1>9, <4>1 DEF Holds
    <3> QED  BY <3>1, <3>2
  <2>2. Find(j)' = Find(j)  BY <1>4, <1>5, <2>1
  <2>3. Find(j) # nil => Find(j) \in 1 .. N  BY <1>4 DEF nil
  <2>4. Content(j)' = Content(j)  BY <1>1, <2>2, <2>3 DEF Content, nil
  <2> QED  BY <1>11, <2>2, <2>4
<1> QED  BY <1>10, <1>11

\* In a table that was cleared nothing is found.
LEMMA ClearFinds ==
  ASSUME IInv, IInv', hash_clear_x
  PROVE  \A j \in KeysOf[interface] : Find(j)' = nil /\ Content(j)' = Absent
<1>1. interface' = interface /\ \A h \in Hashes : Chain(h)' = {}
  BY ClearTables DEF hash_clear_x
<1> TAKE j \in KeysOf[interface]
<1>2. hash(j) \in Hashes  BY FindsNamesHolds DEF FindsNames
<1>3. Find(j)' = First(Holds(j)')
  <2>1. FindsNames'  BY NextFacts
  <2> QED  BY <2>1, <1>1 DEF FindsNames, First
<1>4. hash(j)' = hash(j)  BY <1>1 DEF hash
<1>5. Chain(hash(j))' = {}  BY <1>1, <1>2, <1>4 DEF Chain
<1>6. Holds(j)' = {}  BY <1>5 DEF Holds
<1>7. Find(j)' = nil
  <2>1. 0 \in Nat /\ {} \subseteq 1 .. 0  OBVIOUS
  <2> QED  BY <1>3, <1>6, <2>1, FirstFacts
<1> QED  BY <1>7 DEF Content, nil

-----------------------------------------------------------------------------
(***************************************************************************)
(* The steps of the abstract table.                                        *)
(***************************************************************************)
\* The table as a program sees it, for a key.
LEMMA KeyFacts ==
  ASSUME IInv, NEW k \in KeysOf[interface]
  PROVE  /\ k \in Keys /\ Name(k) \in Names /\ Map[Name(k)] = Content(k)
         /\ Find(k) \in 0 .. Len(entry) /\ Len(entry) \in Nat
         /\ Find(k) = nil => Map[Name(k)] = Absent /\ ValueAt(Find(k)) = cell_f
         /\ Find(k) # nil => /\ Map[Name(k)] # Absent /\ Map[Name(k)] \in 0 .. Len(entry)
                             /\ ValueAt(Find(k)) = Map[Name(k)]
                             /\ entry[Find(k)].key \in KeysOf[interface]
                             /\ Name(entry[Find(k)].key) = Name(k)
<1>1. /\ k \in Keys /\ Find(k) \in 0 .. Len(entry) /\ Len(entry) \in Nat
      /\ Find(k) # nil => Find(k) \in Holds(k)
  BY FindsNamesHolds DEF FindsNames
<1>2. Name(k) \in Names /\ Map[Name(k)] = Content(k)
  BY MapOKHolds DEF MapOK
<1>3. CASE Find(k) = nil  BY <1>1, <1>2, <1>3 DEF Content, ValueAt
<1>4. CASE Find(k) # nil
  <2>1. Find(k) \in 1 .. Len(entry)  BY <1>1, <1>4 DEF nil
  <2>2. entry \in Seq(Entries)  BY DEF IInv, Tables, EntriesOK
  <2>3. entry[Find(k)] \in Entries  BY <2>1, <2>2
  <2>4. entry[Find(k)].value \in Values  BY <2>3 DEF Entries
  <2>5. /\ entry[Find(k)].key \in KeysOf[interface]
        /\ entry[Find(k)].value \in 0 .. Find(k)
    BY <2>1 DEF IInv, Tables, EntriesOK
  <2>6. entry[Find(k)].value \in 0 .. Len(entry)  BY <1>1, <2>1, <2>5
  <2>7. Name(entry[Find(k)].key) = Name(k)  BY <1>1, <1>4 DEF Holds
  <2>8. entry[Find(k)].value # Absent  BY <2>4, MarkerAssumption
  <2> QED  BY <1>1, <1>2, <1>4, <2>5, <2>6, <2>7, <2>8 DEF Content, ValueAt
<1> QED  BY <1>3, <1>4

\* While the table stays, keys are found where they are.
LEMMA SameTable ==
  ASSUME UNCHANGED <<interface, table>>
  PROVE  (\A k : Find(k)' = Find(k)) /\ Map' = Map
<1>1. entry' = entry /\ vectors' = vectors /\ buckets' = buckets /\ interface' = interface
  BY DEF table
<1>2. \A p : List(p)' = ListOf(entry, p')  BY <1>1, ListIsFromNext DEF ListOf
<1>3. \A k : hash(k)' = hash(k)  BY <1>1 DEF hash
<1>4. ASSUME NEW k PROVE Find(k)' = Find(k)
  <2>1. bucket(hash(k))' = bucket(hash(k))  BY <1>1, <1>3 DEF bucket
  <2>2. Bucket(k)' = Bucket(k)  BY <1>2, <2>1, ListIsFrom DEF Bucket, ListOf
  <2>3. assq(k, Bucket(k))' = assq(k, Bucket(k))  BY <1>1, <2>2 DEF assq, First
  <2>4. assoc(k, Bucket(k))' = assoc(k, Bucket(k))  BY <1>1, <2>2 DEF assoc, First
  <2> QED  BY <1>1, <2>3, <2>4 DEF Find
<1>5. \A name : EntryOf(name)' = EntryOf(name)  BY <1>1, <1>4 DEF EntryOf, KeyOf, Name
<1> QED  BY <1>1, <1>4, <1>5 DEF Map, Names, Name

\* A step that changes nothing but the result and the walk.
LEMMA SameAbs ==
  ASSUME UNCHANGED <<interface, table, handle>>
  PROVE  Map' = Map /\ Held' = Held
<1>1. /\ entry' = entry /\ handle' = handle
      /\ Map' = Map /\ \A k : Find(k)' = Find(k)
  BY SameTable DEF table
<1>2. PICK q : q = entry[handle].key  OBVIOUS
<1>3. entry'[handle'].key = q  BY <1>1, <1>2
<1>4. Find(entry[handle].key)' = Find(q)'  BY <1>3 DEF Find, assq, assoc, Bucket, hash, hash_
<1> QED  BY <1>1, <1>2, <1>4 DEF Held, Name, nil

\* What the program holds before a step.
LEMMA HeldNames ==
  ASSUME IInv
  PROVE  /\ Held = Nobody \/ Held = Stale \/ Held \in Names
         /\ Held = Nobody <=> handle = nil
         /\ \A name \in Names : Held = name <=>
              handle # nil /\ Find(entry[handle].key) = handle /\ Name(entry[handle].key) = name
<1>1. /\ handle = nil => Held = Nobody
      /\ handle # nil => /\ entry[handle].key \in KeysOf[interface]
                         /\ Held = IF Find(entry[handle].key) = handle
                                     THEN Name(entry[handle].key) ELSE Stale
  BY HeldIs
<1>2. handle # nil => Name(entry[handle].key) \in Names
  BY <1>1, KeyFacts
<1> QED  BY <1>1, <1>2, MarkerAssumption

\* A new entry binds its name; a handle of that name is not the table's any more.
LEMMA InsertAbs ==
  ASSUME IInv, IInv', NEW k \in KeysOf[interface], Insert(k)
  PROVE  /\ Map' = [Map EXCEPT ![Name(k)] = NewValue]
         /\ handle' = handle => Held' = IF Held = Name(k) THEN Stale ELSE Held
         /\ handle' = Len(entry') => Held' = Name(k)
<1>1. /\ interface' = interface /\ Len(entry') = Len(entry) + 1 /\ Len(entry) \in Nat
      /\ entry'[Len(entry')].key = k /\ \A n \in 1 .. Len(entry) : entry'[n] = entry[n]
  BY InsertTables
<1>2. \A j \in KeysOf[interface] :
        /\ Find(j)' = IF Name(j) = Name(k) THEN NewValue ELSE Find(j)
        /\ Content(j)' = IF Name(j) = Name(k) THEN NewValue ELSE Content(j)
  BY InsertFinds
<1>3. NewValue = Len(entry) + 1 /\ NewValue # nil  BY <1>1 DEF NewValue, nil
<1>4. Map' = [Map EXCEPT ![Name(k)] = NewValue]
  <2> DEFINE F == [Map EXCEPT ![Name(k)] = NewValue]
  <2>1. MapOK  BY MapOKHolds
  <2>2. F = [name \in Names |-> IF name = Name(k) THEN NewValue ELSE Map[name]]
    BY <2>1 DEF MapOK
  <2>3. \A name \in Names : F[name] = IF name = Name(k) THEN NewValue ELSE Map[name]
    BY <2>2
  <2>4. F = [name \in Names |-> F[name]]  BY <2>2
  <2> HIDE DEF F
  <2>5. \A j \in KeysOf[interface] : Content(j)' = F[Name(j)]
    BY <1>2, <2>1, <2>3 DEF MapOK
  <2>6. \A name \in Names : (\A j \in KeysOf[interface] : Name(j) # name) => F[name] = Absent
    BY <2>1, <2>3 DEF MapOK
  <2>7. Map' = F  BY <1>1, <2>4, <2>5, <2>6, NextMap
  <2> QED  BY <2>7 DEF F
<1>5. ASSUME handle' = handle
      PROVE  Held' = IF Held = Name(k) THEN Stale ELSE Held
  <2>1. \A n \in 1 .. Len(entry) : entry'[n].key = entry[n].key  BY <1>1
  <2>2. /\ handle = nil => Held' = Nobody
        /\ \A q : handle # nil /\ q = entry[handle].key =>
             /\ Find(q)' = handle => Held' = Name(q)
             /\ Find(q)' # handle => Held' = Stale
    BY <1>1, <1>5, <2>1, NextHeld
  <2>3. /\ handle = nil => Held = Nobody
        /\ handle # nil => /\ handle \in 1 .. Len(entry)
                           /\ entry[handle].key \in KeysOf[interface]
                           /\ Held = IF Find(entry[handle].key) = handle
                                       THEN Name(entry[handle].key) ELSE Stale
    BY HeldIs
  <2>4. Name(k) \in Names /\ Nobody # Name(k) /\ Stale # Name(k)  BY KeyFacts, MarkerAssumption
  <2>5. CASE handle = nil  BY <2>2, <2>3, <2>4, <2>5
  <2>6. CASE handle # nil
    <3>1. PICK q \in KeysOf[interface] : q = entry[handle].key  BY <2>3, <2>6
    <3>2. /\ Find(q)' = handle => Held' = Name(q)
          /\ Find(q)' # handle => Held' = Stale
          /\ Held = IF Find(q) = handle THEN Name(q) ELSE Stale
      BY <2>2, <2>3, <2>6, <3>1
    <3>3. NewValue # handle  BY <1>1, <1>3, <2>3, <2>6
    <3>4. CASE Name(q) = Name(k)
      <4>1. Find(q)' # handle  BY <1>2, <3>3, <3>4
      <4> QED  BY <2>4, <3>2, <3>4, <4>1
    <3>5. CASE Name(q) # Name(k)
      <4>1. Find(q)' = Find(q)  BY <1>2, <3>5
      <4> QED  BY <2>4, <3>2, <3>5, <4>1
    <3> QED  BY <3>4, <3>5
  <2> QED  BY <2>5, <2>6
<1>6. ASSUME handle' = Len(entry')
      PROVE  Held' = Name(k)
  <2>1. Find(k)' = handle' /\ handle' # nil /\ entry'[handle'].key = k
    BY <1>1, <1>2, <1>3, <1>6
  <2>2. Find(entry[handle].key)' = Find(k)'
    BY <2>1 DEF Find, assq, assoc, Bucket, hash, hash_
  <2> QED  BY <2>1, <2>2 DEF Held, Name, nil
<1> QED  BY <1>4, <1>5, <1>6

\* Each step is one of the abstract table: lookups, insertions, handles ..
LEMMA RefAbs ==
  ASSUME IInv, NEW k \in KeysOf[interface], Ref(k)
  PROVE  Abs!Ref(Name(k))
<1>1. Map' = Map /\ Held' = Held  BY SameAbs DEF Ref
<1>2. result' = ValueAt(Find(k))  BY DEF Ref
<1> QED  BY <1>1, <1>2, KeyFacts DEF Abs!Ref, Abs!LookUp, Abs!Bound

LEMMA SetAbs ==
  ASSUME IInv, IInv', NEW k \in KeysOf[interface], hash_set_x_(k)
  PROVE  Abs!Set(Name(k), NewValue) /\ NewValue \in Values
<1>1. Insert(k) /\ result' = NewValue /\ handle' = handle  BY DEF hash_set_x_
<1>2. NewValue \in Values  BY <1>1, InsertTables
<1>3. Map' = [Map EXCEPT ![Name(k)] = NewValue] /\ Held' = IF Held = Name(k) THEN Stale ELSE Held
  BY <1>1, InsertAbs
<1> QED  BY <1>1, <1>2, <1>3 DEF Abs!Set, Abs!Forget

LEMMA GetHandleAbs ==
  ASSUME IInv, IInv', NEW k \in KeysOf[interface], hashq_get_handle(k)
  PROVE  Abs!GetHandle(Name(k))
<1>1. /\ handle' = Find(k) /\ result' = ValueAt(Find(k))
      /\ UNCHANGED <<interface, table, walk>>
  BY DEF hashq_get_handle
<1>2. entry' = entry /\ vectors' = vectors /\ buckets' = buckets /\ interface' = interface
  BY <1>1 DEF table
<1>3. \A j : Find(j)' = Find(j)  BY <1>1, SameTable
<1>4. Map' = Map  BY <1>1, SameTable
<1>5. CASE Find(k) = nil
  <2>1. Held' = Nobody  BY <1>1, <1>5 DEF Held, nil
  <2> QED  BY <1>1, <1>4, <1>5, <2>1, KeyFacts DEF Abs!GetHandle, Abs!LookUp, Abs!Bound
<1>6. CASE Find(k) # nil
  <2>1. entry[Find(k)].key \in KeysOf[interface] /\ Name(entry[Find(k)].key) = Name(k)
    BY <1>6, KeyFacts
  <2>2. PICK q \in KeysOf[interface] : q = entry[Find(k)].key  BY <2>1
  <2>3. Find(q) = Find(k) /\ Name(q) = Name(k)  BY <2>1, <2>2, SameFind
  <2>4. entry'[handle'].key = q /\ handle' # nil  BY <1>1, <1>2, <1>6, <2>2 DEF nil
  <2>5. Find(entry[handle].key)' = Find(q)'  BY <2>4 DEF Find, assq, assoc, Bucket, hash, hash_
  <2>6. Held' = Name(k)  BY <1>1, <1>3, <2>3, <2>4, <2>5 DEF Held, Name, nil
  <2> QED  BY <1>1, <1>4, <1>6, <2>6, KeyFacts DEF Abs!GetHandle, Abs!LookUp, Abs!Bound
<1> QED  BY <1>5, <1>6

LEMMA CreateHandleAbs ==
  ASSUME IInv, IInv', NEW k \in KeysOf[interface], create_handle_x(k),
         assq(k, Bucket(k)) = Find(k)
  PROVE  \E v \in Values : Abs!CreateHandle(Name(k), v)
<1>1. /\ IF Find(k) = nil THEN Insert(k) ELSE UNCHANGED <<interface, table, walk>>
      /\ handle' = IF Find(k) = nil THEN Len(entry') ELSE Find(k)
      /\ result' = entry'[handle'].value
  BY DEF create_handle_x
<1>2. CASE Find(k) = nil
  <2>1. Insert(k) /\ handle' = Len(entry') /\ result' = entry'[handle'].value  BY <1>1, <1>2
  <2>2. NewValue \in Values /\ result' = NewValue  BY <2>1, InsertTables
  <2>3. Map' = [Map EXCEPT ![Name(k)] = NewValue] /\ Held' = Name(k)  BY <2>1, InsertAbs
  <2>4. Map[Name(k)] = Absent  BY <1>2, KeyFacts
  <2>5. Abs!CreateHandle(Name(k), NewValue)
    BY <2>2, <2>3, <2>4 DEF Abs!CreateHandle, Abs!Bound
  <2> QED  BY <2>2, <2>5
<1>3. CASE Find(k) # nil
  <2>1. UNCHANGED <<interface, table, walk>> /\ handle' = Find(k)  BY <1>1, <1>3
  <2>2. entry' = entry /\ vectors' = vectors /\ buckets' = buckets /\ interface' = interface
    BY <2>1 DEF table
  <2>3. result' = ValueAt(Find(k))  BY <1>1, <1>3, <2>1, <2>2 DEF ValueAt
  <2>4. \A j : Find(j)' = Find(j)  BY <2>1, SameTable
  <2>5. Map' = Map  BY <2>1, SameTable
  <2>6. Held' = Name(k)
    <3>1. entry[Find(k)].key \in KeysOf[interface] /\ Name(entry[Find(k)].key) = Name(k)
      BY <1>3, KeyFacts
    <3>2. PICK q \in KeysOf[interface] : q = entry[Find(k)].key  BY <3>1
    <3>3. Find(q) = Find(k) /\ Name(q) = Name(k)  BY <3>1, <3>2, SameFind
    <3>4. entry'[handle'].key = q /\ handle' # nil  BY <1>3, <2>1, <2>2, <3>2 DEF nil
    <3>5. Find(entry[handle].key)' = Find(q)'  BY <3>4 DEF Find, assq, assoc, Bucket, hash, hash_
    <3> QED  BY <2>1, <2>4, <3>3, <3>4, <3>5 DEF Held, Name, nil
  <2>7. Map[Name(k)] # Absent /\ result' = Map[Name(k)]  BY <1>3, <2>3, KeyFacts
  <2>8. Map' = [Map EXCEPT ![Name(k)] = result']
    <3>1. MapOK  BY MapOKHolds
    <3>2. Map = [Map EXCEPT ![Name(k)] = Map[Name(k)]]  BY <3>1 DEF MapOK
    <3> QED  BY <2>5, <2>7, <3>2
  <2>9. Abs!CreateHandle(Name(k), 0)
    BY <2>6, <2>7, <2>8 DEF Abs!CreateHandle, Abs!Bound
  <2>10. 0 \in Values
    <3>1. MaxEntries \in Nat  BY KeyAssumption
    <3> QED  BY <3>1 DEF Values
  <2> QED  BY <2>9, <2>10
<1> QED  BY <1>2, <1>3

\* The keys for which a handle is made are found as others are.
LEMMA HandleFind ==
  ASSUME HandlesAgree, IInv, NEW k \in KeysOf[interface],
         interface = "hashq" \/ (interface = "hash" /\ k \in HandleKeys)
  PROVE  assq(k, Bucket(k)) = Find(k)
<1>1. CASE interface = "hashq"  BY <1>1 DEF Find
<1>2. CASE interface = "hash" /\ k \in HandleKeys
  <2>1. Bucket(k) \subseteq 1 .. Len(entry)  BY BucketFacts
  <2>2. \A n \in Bucket(k) : entry[n].key \in KeysOf["hash"]
    BY <1>2, <2>1 DEF IInv, Tables, EntriesOK
  <2>3. \A n \in Bucket(k) : assq_p(k, entry[n].key) <=> equal2_p(k, entry[n].key)
    BY <1>2, <2>2 DEF HandlesAgree
  <2>4. {n \in Bucket(k) : assq_p(k, entry[n].key)} = {n \in Bucket(k) : equal2_p(k, entry[n].key)}
    BY <2>3
  <2> QED  BY <1>2, <2>4 DEF Find, assq, assoc
<1> QED  BY <1>1, <1>2

LEMMA WriteHandleAbs ==
  ASSUME IInv, IInv', set_cdr_x
  PROVE  Abs!WriteHandle(0) /\ 0 \in Values
<1>1. /\ interface' = interface /\ handle' = handle /\ handle # nil /\ result' = result
      /\ \A n \in 1 .. Len(entry) : entry'[n].key = entry[n].key
  BY SetCdrTables DEF set_cdr_x
<1>2. \A j \in KeysOf[interface] :
        /\ Find(j)' = Find(j)
        /\ Content(j)' = IF Find(j) = handle THEN 0 ELSE Content(j)
  BY SetCdrFinds
<1>3. PICK q \in KeysOf[interface] :
        /\ q = entry[handle].key
        /\ Held = IF Find(q) = handle THEN Name(q) ELSE Stale
  BY <1>1, HeldIs
<1>4. Held' = Held
  <2>1. /\ Find(q)' = handle => Held' = Name(q)
        /\ Find(q)' # handle => Held' = Stale
    BY <1>1, <1>3, NextHeld
  <2> QED  BY <1>2, <1>3, <2>1
<1>5. Name(q) \in Names /\ Name(q) # Stale /\ Name(q) # Nobody /\ Stale # Nobody
  BY KeyFacts, MarkerAssumption
<1>6. MapOK  BY MapOKHolds
<1>7. \A j \in KeysOf[interface] : Find(j) = handle => Name(j) = Name(q)
  BY <1>1, <1>3, KeyFacts
<1>8. CASE Find(q) = handle
  <2> DEFINE F == [Map EXCEPT ![Name(q)] = 0]
  <2>1. F = [name \in Names |-> IF name = Name(q) THEN 0 ELSE Map[name]]
    BY <1>6 DEF MapOK
  <2>2. \A name \in Names : F[name] = IF name = Name(q) THEN 0 ELSE Map[name]  BY <2>1
  <2>3. F = [name \in Names |-> F[name]]  BY <2>1
  <2> HIDE DEF F
  <2>4. \A j \in KeysOf[interface] : Find(j) = handle <=> Name(j) = Name(q)
    <3>1. \A j \in KeysOf[interface] : Name(j) = Name(q) => Find(j) = Find(q)  BY SameFind
    <3> QED  BY <3>1, <1>7, <1>8
  <2>5. \A j \in KeysOf[interface] : Content(j)' = F[Name(j)]
    BY <1>2, <1>6, <2>2, <2>4 DEF MapOK
  <2>6. \A name \in Names : (\A j \in KeysOf[interface] : Name(j) # name) => F[name] = Absent
    BY <1>6, <2>2 DEF MapOK
  <2>7. Map' = F  BY <1>1, <2>3, <2>5, <2>6, NextMap
  <2>8. Held = Name(q)  BY <1>3, <1>8
  <2>9. Abs!WriteHandle(0)
    BY <1>1, <1>4, <1>5, <2>7, <2>8 DEF Abs!WriteHandle, F
  <2> QED  BY <2>9, KeyAssumption DEF Values
<1>9. CASE Find(q) # handle
  <2>1. \A j \in KeysOf[interface] : Find(j) # handle
    <3>1. \A j \in KeysOf[interface] : Name(j) = Name(q) => Find(j) = Find(q)  BY SameFind
    <3> QED  BY <3>1, <1>7, <1>9
  <2>2. \A j \in KeysOf[interface] : Content(j)' = Map[Name(j)]
    BY <1>2, <1>6, <2>1 DEF MapOK
  <2>3. Map' = Map  BY <1>1, <1>6, <2>2, NextMap DEF MapOK
  <2>4. Held = Stale  BY <1>3, <1>9
  <2>5. Abs!WriteHandle(0)
    BY <1>1, <1>4, <1>5, <2>3, <2>4 DEF Abs!WriteHandle
  <2> QED  BY <2>5, KeyAssumption DEF Values
<1> QED  BY <1>8, <1>9

\* .. removal and hash-clear! ..
LEMMA RemoveAbs ==
  ASSUME IInv, IInv', NEW k \in Keys, hash_remove_x(k)
  PROVE  Abs!Remove(Name(k)) /\ k \in KeysOf[interface]
<1>1. /\ k \in KeysOf[interface] /\ interface' = interface /\ handle' = handle
      /\ UNCHANGED <<interface, buckets, walk>>
  BY DEF hash_remove_x, Uses
<1>2. CASE bucket(hash(k)) = unused
  <2>1. UNCHANGED <<interface, table, handle>> /\ result' = Crash
    BY <1>1, <1>2 DEF hash_remove_x, table
  <2>2. Find(k) = nil
    <3>1. Chain(hash(k)) = {}  BY <1>2 DEF Chain, ListOf, bucket
    <3>2. Holds(k) = {}  BY <3>1 DEF Holds
    <3>3. Find(k) \notin Holds(k)  BY <3>2
    <3> QED  BY <1>1, <3>3, FindsNamesHolds DEF FindsNames
  <2>3. Map[Name(k)] = Absent  BY <1>1, <2>2, KeyFacts
  <2>4. Map' = Map /\ Held' = Held  BY <2>1, SameAbs
  <2> QED  BY <1>1, <2>1, <2>3, <2>4 DEF Abs!Remove, Abs!Bound
<1>3. CASE bucket(hash(k)) # unused
  <2>1. \A j \in KeysOf[interface] :
          /\ Find(j)' = IF Name(j) = Name(k) THEN nil ELSE Find(j)
          /\ Content(j)' = IF Name(j) = Name(k) THEN Absent ELSE Content(j)
    BY <1>1, <1>3, RemoveFinds
  <2>2. /\ result' = unspecified /\ entry' = Linked(k)
        /\ vectors' = [vectors EXCEPT ![buckets][hash(k)] = First(Kept(k))]
    BY <1>3 DEF hash_remove_x
  <2>3. \A n \in 1 .. Len(entry) : entry'[n].key = entry[n].key
    BY <1>1, <1>3, <2>2, RemoveTables
  <2>4. MapOK /\ Name(k) \in Names /\ Name(k) # Nobody /\ Name(k) # Stale
    BY <1>1, MapOKHolds, KeyFacts, MarkerAssumption
  <2>5. Map' = [Map EXCEPT ![Name(k)] = Absent]
    <3> DEFINE F == [Map EXCEPT ![Name(k)] = Absent]
    <3>1. F = [name \in Names |-> IF name = Name(k) THEN Absent ELSE Map[name]]
      BY <2>4 DEF MapOK
    <3>2. \A name \in Names : F[name] = IF name = Name(k) THEN Absent ELSE Map[name]  BY <3>1
    <3>3. F = [name \in Names |-> F[name]]  BY <3>1
    <3> HIDE DEF F
    <3>4. \A j \in KeysOf[interface] : Content(j)' = F[Name(j)]
      BY <2>1, <2>4, <3>2 DEF MapOK
    <3>5. \A name \in Names : (\A j \in KeysOf[interface] : Name(j) # name) => F[name] = Absent
      BY <2>4, <3>2 DEF MapOK
    <3>6. Map' = F  BY <1>1, <3>3, <3>4, <3>5, NextMap
    <3> QED  BY <3>6 DEF F
  <2>6. Held' = IF Held = Name(k) THEN Stale ELSE Held
    <3>1. /\ handle = nil => Held' = Nobody
          /\ \A q : handle # nil /\ q = entry[handle].key =>
               /\ Find(q)' = handle => Held' = Name(q)
               /\ Find(q)' # handle => Held' = Stale
      BY <1>1, <2>3, NextHeld
    <3>2. CASE handle = nil
      <4>1. Held = Nobody  BY <3>2, HeldIs
      <4> QED  BY <2>4, <3>1, <3>2, <4>1
    <3>3. CASE handle # nil
      <4>1. PICK q \in KeysOf[interface] :
              /\ q = entry[handle].key
              /\ Held = IF Find(q) = handle THEN Name(q) ELSE Stale
        BY <3>3, HeldIs
      <4>2. /\ Find(q)' = handle => Held' = Name(q)
            /\ Find(q)' # handle => Held' = Stale
        BY <3>1, <3>3, <4>1
      <4>3. CASE Name(q) = Name(k)
        <5>1. Find(q)' # handle  BY <2>1, <3>3, <4>3
        <5> QED  BY <2>4, <4>1, <4>2, <4>3, <5>1
      <4>4. CASE Name(q) # Name(k)
        <5>1. Find(q)' = Find(q)  BY <2>1, <4>4
        <5> QED  BY <2>4, <4>1, <4>2, <4>4, <5>1
      <4> QED  BY <4>3, <4>4
    <3> QED  BY <3>2, <3>3
  <2> QED  BY <1>1, <2>2, <2>5, <2>6 DEF Abs!Remove, Abs!Forget
<1> QED  BY <1>2, <1>3

LEMMA ClearAbs ==
  ASSUME IInv, IInv', hash_clear_x
  PROVE  Abs!Clear
<1>1. /\ interface' = interface /\ handle' = handle /\ entry' = entry /\ result' = unspecified
  BY DEF hash_clear_x
<1>2. \A j \in KeysOf[interface] : Find(j)' = nil /\ Content(j)' = Absent
  BY ClearFinds
<1>3. Map' = [name \in Names |-> Absent]
  <2> DEFINE F == [name \in Names |-> Absent]
  <2>1. \A name \in Names : F[name] = Absent  OBVIOUS
  <2>2. F = [name \in Names |-> F[name]]  OBVIOUS
  <2>3. \A j \in KeysOf[interface] : Name(j) \in Names  BY KeyFacts
  <2> HIDE DEF F
  <2>4. Map' = F  BY <1>1, <1>2, <2>1, <2>2, <2>3, NextMap
  <2> QED  BY <2>4 DEF F
<1>4. Held' = IF Held \in Names THEN Stale ELSE Held
  <2>1. /\ handle = nil => Held' = Nobody
        /\ \A q : handle # nil /\ q = entry[handle].key =>
             /\ Find(q)' = handle => Held' = Name(q)
             /\ Find(q)' # handle => Held' = Stale
    BY <1>1, NextHeld
  <2>2. CASE handle = nil
    <3>1. Held = Nobody  BY <2>2, HeldIs
    <3> QED  BY <2>1, <2>2, <3>1, MarkerAssumption
  <2>3. CASE handle # nil
    <3>1. PICK q \in KeysOf[interface] :
            /\ q = entry[handle].key
            /\ Held = IF Find(q) = handle THEN Name(q) ELSE Stale
      BY <2>3, HeldIs
    <3>2. Held' = Stale  BY <1>2, <2>1, <2>3, <3>1
    <3>3. Name(q) \in Names  BY KeyFacts
    <3> QED  BY <3>1, <3>2, <3>3
  <2> QED  BY <2>2, <2>3
<1> QED  BY <1>1, <1>3, <1>4 DEF Abs!Clear, Abs!Forget

\* A symbol that is made is none of those made before.
LEMMA InternAbs ==
  ASSUME IInv, IInv', NEW k \in Keys, string_to_symbol(k)
  PROVE  Abs!Intern(Name(k))
<1>1. k \in KeysOf[interface]  BY DEF string_to_symbol, Uses
<1>2. CASE Find(k) # nil
  <2>1. Ref(k)  BY <1>2 DEF string_to_symbol
  <2>2. Map' = Map /\ Held' = Held /\ result' = ValueAt(Find(k))  BY <2>1, SameAbs DEF Ref
  <2> QED  BY <1>1, <1>2, <2>2, KeyFacts DEF Abs!Intern, Abs!Bound
<1>3. CASE Find(k) = nil
  <2>1. Insert(k) /\ result' = NewValue /\ handle' = handle
    BY <1>3 DEF string_to_symbol, hash_set_x_
  <2>2. /\ NewValue \in Values /\ NewValue = Len(entry) + 1 /\ Len(entry) \in Nat
    BY <1>1, <2>1, InsertTables DEF NewValue
  <2>3. /\ Map' = [Map EXCEPT ![Name(k)] = NewValue]
        /\ Held' = IF Held = Name(k) THEN Stale ELSE Held
    BY <1>1, <2>1, InsertAbs
  <2>4. Map[Name(k)] = Absent /\ Name(k) \in Names  BY <1>1, <1>3, KeyFacts
  <2>5. Held # Name(k)
    <3>1. SUFFICES ASSUME Held = Name(k) PROVE FALSE  OBVIOUS
    <3>2. handle # nil /\ Find(entry[handle].key) = handle /\ Name(entry[handle].key) = Name(k)
      BY <2>4, <3>1, HeldNames
    <3>3. entry[handle].key \in KeysOf[interface]  BY <3>2, HeldIs
    <3>4. Find(k) = handle  BY <1>1, <3>2, <3>3, SameFind
    <3> QED  BY <1>3, <3>2, <3>4
  <2>6. ASSUME NEW name \in Names PROVE Map[name] # NewValue
    <3>1. CASE \A j \in KeysOf[interface] : Name(j) # name
      BY <2>2, <3>1, MapOKHolds, MarkerAssumption DEF MapOK
    <3>2. CASE \E j \in KeysOf[interface] : Name(j) = name
      <4>1. PICK j \in KeysOf[interface] : Name(j) = name  BY <3>2
      <4>2. Map[name] = Absent \/ Map[name] \in 0 .. Len(entry)  BY <4>1, KeyFacts
      <4> QED  BY <2>2, <4>2, MarkerAssumption
    <3> QED  BY <3>1, <3>2
  <2>7. result' \in Values \ {Map[name] : name \in Names}  BY <2>1, <2>2, <2>6
  <2> QED  BY <2>1, <2>3, <2>4, <2>5, <2>7 DEF Abs!Intern, Abs!Bound
<1> QED  BY <1>2, <1>3

\* .. and a new table is an empty map.
LEMMA InitAbs == Init => Abs!Init
<1> SUFFICES ASSUME Init PROVE Abs!Init  OBVIOUS
<1>1. IInv /\ handle = nil /\ result = cell_f /\ entry = << >>  BY InitIInv DEF Init
<1>2. Held = Nobody  BY <1>1, HeldIs
<1>3. ASSUME NEW k \in KeysOf[interface] PROVE Map[Name(k)] = Absent
  <2>1. Find(k) \in 0 .. Len(entry) /\ Len(entry) = 0  BY <1>1, KeyFacts
  <2>2. Find(k) = nil  BY <2>1 DEF nil
  <2> QED  BY <1>1, <2>2, KeyFacts
<1>4. MapOK  BY <1>1, MapOKHolds
<1>5. \A name \in Names : Map[name] = Absent  BY <1>3, <1>4 DEF MapOK
<1>6. Map = [name \in Names |-> Absent]  BY <1>4, <1>5 DEF MapOK
<1> QED  BY <1>1, <1>2, <1>6 DEF Abs!Init

\* Every step of the table is one of the map, or a stutter.
LEMMA NextAbs ==
  ASSUME HandlesAgree, IInv, IInv', [Next]_vars
  PROVE  [Abs!Next]_Abs!vars
<1>1. ASSUME UNCHANGED <<interface, table, handle, result>> PROVE UNCHANGED Abs!vars
  BY <1>1, SameAbs DEF Abs!vars
<1>2. ASSUME NEW k \in Keys, hashq_ref_(k) PROVE Abs!Next
  <2>1. Running /\ k \in KeysOf[interface] /\ Ref(k)  BY <1>2 DEF hashq_ref_, Uses
  <2> QED  BY <2>1, RefAbs, KeyFacts DEF Abs!Next, Running
<1>3. ASSUME NEW k \in Keys, hashq_get_handle(k) PROVE Abs!Next
  <2>1. Running /\ k \in KeysOf[interface]  BY <1>3 DEF hashq_get_handle, Uses
  <2> QED  BY <1>3, <2>1, GetHandleAbs, KeyFacts DEF Abs!Next, Running
<1>4. ASSUME NEW k \in Keys, hash_ref_(k) PROVE Abs!Next
  <2>1. Running /\ k \in KeysOf[interface] /\ Ref(k)  BY <1>4 DEF hash_ref_, Uses
  <2> QED  BY <2>1, RefAbs, KeyFacts DEF Abs!Next, Running
<1>5. ASSUME NEW k \in Keys, hash_remove_x(k) PROVE Abs!Next
  <2>1. Running  BY <1>5 DEF hash_remove_x, Uses
  <2> QED  BY <1>5, <2>1, RemoveAbs, KeyFacts DEF Abs!Next, Running
<1>6. ASSUME NEW k \in Keys, string_to_symbol(k) PROVE Abs!Next
  <2>1. Running /\ k \in KeysOf[interface]  BY <1>6 DEF string_to_symbol, Uses
  <2> QED  BY <1>6, <2>1, InternAbs, KeyFacts DEF Abs!Next, Running
<1>7. ASSUME NEW k \in Keys, hashq_set_x(k) PROVE Abs!Next
  <2>1. Running /\ k \in KeysOf[interface] /\ hash_set_x_(k)  BY <1>7 DEF hashq_set_x, Uses
  <2> QED  BY <2>1, SetAbs, KeyFacts DEF Abs!Next, Running
<1>8. ASSUME NEW k \in Keys, hash_set_x(k) PROVE Abs!Next
  <2>1. Running /\ k \in KeysOf[interface] /\ hash_set_x_(k)  BY <1>8 DEF hash_set_x, Uses
  <2> QED  BY <2>1, SetAbs, KeyFacts DEF Abs!Next, Running
<1>9. ASSUME NEW k \in Keys, hashq_create_handle_x(k) PROVE Abs!Next
  <2>1. Running /\ interface = "hashq" /\ k \in KeysOf[interface] /\ create_handle_x(k)
    BY <1>9 DEF hashq_create_handle_x, Uses
  <2>2. \E v \in Values : Abs!CreateHandle(Name(k), v)  BY <2>1, HandleFind, CreateHandleAbs
  <2> QED  BY <2>1, <2>2, KeyFacts DEF Abs!Next, Running
<1>10. ASSUME NEW k \in Keys, hash_create_handle_x(k) PROVE Abs!Next
  <2>1. Running /\ interface = "hash" /\ k \in HandleKeys /\ create_handle_x(k)
    BY <1>10 DEF hash_create_handle_x, Uses
  <2>2. k \in KeysOf[interface]  BY <2>1, KeyAssumption
  <2>3. \E v \in Values : Abs!CreateHandle(Name(k), v)  BY <2>1, <2>2, HandleFind, CreateHandleAbs
  <2> QED  BY <2>1, <2>2, <2>3, KeyFacts DEF Abs!Next, Running
<1>11. ASSUME set_cdr_x PROVE Abs!Next
  <2>1. Running  BY <1>11 DEF set_cdr_x
  <2> QED  BY <1>11, <2>1, WriteHandleAbs DEF Abs!Next, Running
<1>12. ASSUME hash_clear_x PROVE Abs!Next
  <2>1. Running  BY <1>12 DEF hash_clear_x
  <2> QED  BY <1>12, <2>1, ClearAbs DEF Abs!Next, Running
<1>13. ASSUME hash_map_to_list \/ WalkOn \/ UNCHANGED vars PROVE UNCHANGED Abs!vars
  BY <1>13, <1>1 DEF hash_map_to_list, WalkOn, vars, table
<1> QED
  BY <1>2, <1>3, <1>4, <1>5, <1>6, <1>7, <1>8, <1>9, <1>10, <1>11, <1>12, <1>13 DEF Next

\* The buckets, lists and handles are a map: lookups return what was last set
\* and not removed, whatever keys collide and however lists are relinked; a
\* handle is good until its key is set, removed or cleared; a name has one
\* symbol.
THEOREM IsATable == HandlesAgree => (Spec => ImplementsAbstractTable)
<1>1. SUFFICES ASSUME HandlesAgree PROVE Spec => ImplementsAbstractTable
  OBVIOUS
<1>2. IInv /\ IInv' /\ [Next]_vars => [Abs!Next]_Abs!vars
  BY <1>1, NextAbs
<1> QED  BY <1>2, InitAbs, Invariance, PTL DEF Spec, ImplementsAbstractTable, Abs!Spec
===============================================================================
