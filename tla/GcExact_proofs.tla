---------------------------- MODULE GcExact_proofs ----------------------------
(***************************************************************************)
(* A collection keeps nothing that the program cannot reach, for all sizes *)
(* and programs that do not go inside vectors.                             *)
(***************************************************************************)
EXTENDS GcRefinement_proofs

(***************************************************************************)
(* Steps from object to object.                                            *)
(***************************************************************************)
\* A set of objects with those they refer to.
Further(objects, A) == A \cup UNION {References(objects[i]) : i \in A}

\* The sets that can be reached in 0 .. n steps.
IsReach(objects, S, n, f) ==
  f = [k \in 0 .. n |-> IF k = 0 THEN S ELSE Further(objects, f[k - 1])]

\* There are such sets, for every number of steps: were there a number without,
\* the least one would have them.
LEMMA ReachExists ==
  ASSUME NEW objects, NEW S, NEW n \in Nat
  PROVE  \E f : IsReach(objects, S, n, f)
<1> DEFINE Bad == {k \in Nat : ~ \E f : IsReach(objects, S, k, f)}
<1>1. SUFFICES ASSUME Bad # {} PROVE FALSE  OBVIOUS
<1>2. PICK k \in Bad : \A j \in Bad : k <= j
  <2>1. Bad \subseteq Nat  OBVIOUS
  <2> QED  BY <1>1, <2>1, LeastNat
<1>3. k \in Nat /\ ~ \E f : IsReach(objects, S, k, f)  OBVIOUS
<1>4. CASE k = 0
  <2>1. IsReach(objects, S, 0, [j \in 0 .. 0 |-> S])  BY DEF IsReach
  <2> QED  BY <1>3, <1>4, <2>1
<1>5. CASE k # 0
  <2>1. k - 1 \in Nat /\ ~(k <= k - 1)  BY <1>3, <1>5
  <2>2. PICK g : IsReach(objects, S, k - 1, g)  BY <1>2, <2>1
  <2> DEFINE f == [j \in 0 .. k |-> IF j = k THEN Further(objects, g[k - 1]) ELSE g[j]]
  <2>3. ASSUME NEW j \in 0 .. k PROVE f[j] = IF j = 0 THEN S ELSE Further(objects, f[j - 1])
    <3>1. CASE j = k
      <4>1. k - 1 \in 0 .. k /\ k - 1 # k  BY <1>3, <2>1
      <4>2. f[k - 1] = g[k - 1]  BY <4>1
      <4> QED  BY <1>5, <3>1, <4>2
    <3>2. CASE j # k
      <4>1. j \in 0 .. k - 1 /\ f[j] = g[j]  BY <1>3, <3>2
      <4>2. g[j] = IF j = 0 THEN S ELSE Further(objects, g[j - 1])  BY <2>2, <4>1 DEF IsReach
      <4>3. j # 0 => j - 1 \in 0 .. k /\ j - 1 # k  BY <1>3, <4>1
      <4>4. j # 0 => f[j - 1] = g[j - 1]  BY <4>3
      <4> QED  BY <4>1, <4>2, <4>4
    <3> QED  BY <3>1, <3>2
  <2>4. f = [j \in 0 .. k |-> f[j]]  OBVIOUS
  <2> HIDE DEF f
  <2>5. f = [j \in 0 .. k |-> IF j = 0 THEN S ELSE Further(objects, f[j - 1])]  BY <2>3, <2>4
  <2>6. IsReach(objects, S, k, f)  BY <2>5 DEF IsReach
  <2> QED  BY <1>3, <2>6
<1> QED  BY <1>4, <1>5

\* What can be reached in n steps is the last of these sets.
LEMMA ReachSteps ==
  ASSUME NEW objects, NEW S, NEW n \in Nat
  PROVE  \E f : /\ f[0] = S
                /\ \A k \in 1 .. n : f[k] = Further(objects, f[k - 1])
                /\ Reachable(objects, S, n) = f[n]
<1> DEFINE r == CHOOSE f : IsReach(objects, S, n, f)
<1>1. IsReach(objects, S, n, r)  BY ReachExists
<1>2. Reachable(objects, S, n) = r[n]  BY DEF Reachable, IsReach, Further
<1> HIDE DEF r
<1>3. r = [k \in 0 .. n |-> IF k = 0 THEN S ELSE Further(objects, r[k - 1])]  BY <1>1 DEF IsReach
<1>4. \A k \in 0 .. n : r[k] = IF k = 0 THEN S ELSE Further(objects, r[k - 1])  BY <1>3
<1>5. r[0] = S  BY <1>4
<1>6. \A k \in 1 .. n : r[k] = Further(objects, r[k - 1])  BY <1>4
<1> QED  BY <1>2, <1>5, <1>6

\* A set that holds the first and is closed holds all of them.
LEMMA ReachStays ==
  ASSUME NEW objects, NEW S, NEW n \in Nat, NEW T, S \subseteq T,
         \A i \in T : References(objects[i]) \subseteq T,
         NEW f, f[0] = S, \A k \in 1 .. n : f[k] = Further(objects, f[k - 1])
  PROVE  \A k \in 0 .. n : f[k] \subseteq T
<1> DEFINE Bad == {k \in 0 .. n : ~(f[k] \subseteq T)}
<1>1. SUFFICES ASSUME Bad # {} PROVE FALSE  OBVIOUS
<1>2. PICK k \in Bad : \A j \in Bad : k <= j
  <2>1. Bad \subseteq Nat  OBVIOUS
  <2> QED  BY <1>1, <2>1, LeastNat
<1>3. k # 0  OBVIOUS
<1>4. k - 1 \in 0 .. n /\ ~(k <= k - 1) /\ k \in 1 .. n  BY <1>3
<1>5. f[k - 1] \subseteq T  BY <1>2, <1>4
<1>6. f[k] = Further(objects, f[k - 1])  BY <1>4
<1>7. f[k] \subseteq T  BY <1>5, <1>6 DEF Further
<1> QED  BY <1>7

\* In a closed store of n objects n steps reach whatever can be reached: the
\* sets grow by an object with each step, or no more.
LEMMA ReachCloses ==
  ASSUME NEW objects, IsFiniteSet(DOMAIN objects), NEW S, S # {}, S \subseteq DOMAIN objects,
         \A i \in DOMAIN objects : References(objects[i]) \subseteq DOMAIN objects
  PROVE  LET R == Reachable(objects, S, Cardinality(DOMAIN objects))
         IN  /\ S \subseteq R /\ R \subseteq DOMAIN objects
             /\ \A i \in R : References(objects[i]) \subseteq R
<1> DEFINE O == DOMAIN objects
           n == Cardinality(O)
           Shut(A) == \A i \in A : References(objects[i]) \subseteq A
<1>1. n \in Nat  BY FS_CardinalityType
<1> HIDE DEF n
<1>2. PICK f : /\ f[0] = S
               /\ \A k \in 1 .. n : f[k] = Further(objects, f[k - 1])
               /\ Reachable(objects, S, n) = f[n]
  BY <1>1, ReachSteps
<1>3. \A k \in 0 .. n : f[k] \subseteq O
  <2>1. \A i \in O : References(objects[i]) \subseteq O  OBVIOUS
  <2>2. S \subseteq O  OBVIOUS
  <2>3. f[0] = S /\ \A k \in 1 .. n : f[k] = Further(objects, f[k - 1])  BY <1>2
  <2> HIDE DEF O
  <2> QED  BY <1>1, <2>1, <2>2, <2>3, ReachStays
<1>4. \A k \in 0 .. n : IsFiniteSet(f[k]) /\ Cardinality(f[k]) \in Nat /\ Cardinality(f[k]) <= n
  <2>1. ASSUME NEW k \in 0 .. n
        PROVE  IsFiniteSet(f[k]) /\ Cardinality(f[k]) \in Nat /\ Cardinality(f[k]) <= n
    <3>1. f[k] \in SUBSET O  BY <1>3
    <3>2. IsFiniteSet(f[k]) /\ Cardinality(f[k]) <= n  BY <3>1, FS_Subset DEF n
    <3> QED  BY <3>2, FS_CardinalityType
  <2> QED  BY <2>1
<1>5. \A k \in 1 .. n : f[k - 1] \subseteq f[k] /\ (Shut(f[k - 1]) => f[k] = f[k - 1])
                        /\ (f[k] = f[k - 1] => Shut(f[k]))
  <2>1. ASSUME NEW A
        PROVE  A \subseteq Further(objects, A) /\ (Shut(A) <=> Further(objects, A) = A)
    <3>1. Shut(A) => Further(objects, A) = A  BY DEF Further
    <3>2. ASSUME Further(objects, A) = A PROVE Shut(A)
      <4>1. \A i \in A : References(objects[i]) \subseteq Further(objects, A)  BY DEF Further
      <4> QED  BY <3>2, <4>1
    <3> QED  BY <3>1, <3>2 DEF Further
  <2> HIDE DEF Shut
  <2>2. ASSUME NEW k \in 1 .. n
        PROVE  f[k - 1] \subseteq f[k] /\ (Shut(f[k - 1]) => f[k] = f[k - 1]) /\ (f[k] = f[k - 1] => Shut(f[k]))
    <3>1. f[k] = Further(objects, f[k - 1])  BY <1>2
    <3> QED  BY <2>1, <3>1
  <2> QED  BY <2>2
<1> HIDE DEF Shut
<1> DEFINE Fine(k) == S \subseteq f[k] /\ (Shut(f[k]) \/ Cardinality(f[k]) > k)
           Bad == {k \in 0 .. n : ~Fine(k)}
<1>6. Bad = {}
  <2>1. SUFFICES ASSUME Bad # {} PROVE FALSE  OBVIOUS
  <2>2. PICK k \in Bad : \A j \in Bad : k <= j
    <3>1. Bad \subseteq Nat  OBVIOUS
    <3> QED  BY <2>1, <3>1, LeastNat
  <2>3. k \in 0 .. n /\ ~Fine(k)  BY <2>2
  <2>4. k # 0
    <3>1. IsFiniteSet(S) /\ Cardinality(S) \in Nat  BY <1>1, <1>2, <1>4
    <3>2. Cardinality(S) # 0  BY <3>1, FS_EmptySet
    <3>3. Cardinality(f[0]) > 0  BY <1>2, <3>1, <3>2
    <3>4. Fine(0)  BY <1>2, <3>3
    <3> QED  BY <2>3, <3>4
  <2>5. k - 1 \in 0 .. n /\ ~(k <= k - 1) /\ k \in 1 .. n /\ k \in Nat  BY <1>1, <2>3, <2>4
  <2>6. Fine(k - 1)  BY <2>2, <2>5
  <2>7. f[k - 1] \subseteq f[k] /\ (Shut(f[k - 1]) => f[k] = f[k - 1]) /\ (f[k] = f[k - 1] => Shut(f[k]))
    BY <1>5, <2>5
  <2>8. CASE f[k] = f[k - 1]  BY <2>3, <2>6, <2>7, <2>8
  <2>9. CASE f[k] # f[k - 1]
    <3>1. Cardinality(f[k - 1]) > k - 1  BY <2>6, <2>7, <2>9
    <3>2. f[k - 1] \in SUBSET f[k]  BY <2>7
    <3>3. Cardinality(f[k - 1]) <= Cardinality(f[k]) /\ Cardinality(f[k - 1]) # Cardinality(f[k])
      BY <1>4, <2>5, <2>9, <3>2, FS_Subset
    <3>4. Cardinality(f[k - 1]) \in Nat /\ Cardinality(f[k]) \in Nat  BY <1>4, <2>5
    <3>5. Cardinality(f[k]) > k  BY <2>5, <3>1, <3>3, <3>4
    <3>6. S \subseteq f[k]  BY <2>6, <2>7
    <3> QED  BY <2>3, <3>5, <3>6
  <2> QED  BY <2>8, <2>9
<1>7. n \in 0 .. n  BY <1>1
<1>8. Fine(n)  BY <1>6, <1>7
<1>9. Shut(f[n])
  <2>1. Cardinality(f[n]) \in Nat /\ Cardinality(f[n]) <= n  BY <1>4, <1>7
  <2>2. ~(Cardinality(f[n]) > n)  BY <1>1, <2>1
  <2> QED  BY <1>8, <2>2
<1>10. f[n] \subseteq O  BY <1>3, <1>7
<1>11. \A i \in f[n] : References(objects[i]) \subseteq f[n]  BY <1>9 DEF Shut
<1> QED  BY <1>2, <1>8, <1>10, <1>11 DEF n

-----------------------------------------------------------------------------
(***************************************************************************)
(* The invariant.                                                          *)
(***************************************************************************)
\* The stack holds whole frames.
Aligned == \E n \in Nat : STACK_SIZE - g_stack = n * GC_FRAME_SIZE

\* The cells behind the first one of a vector are no objects.
NoEntries == \A o \in DOMAIN Store : Store[o].type # "TREF"

\* While the collector runs: the procedure in the frame of gc () is a symbol ..
SavedConstant == id[g_stack_array[g_stack + NRegs]] \in Symbols

\* .. each cell of the new space belongs to an object that has been copied ..
Owns(o, a) == home[o] > g_news /\ home[o] <= a /\ a < home[o] + Size(mem[home[o]])
Owned == \A a \in g_news + 1 .. g_free - 1 : \E o \in DOMAIN home : Owns(o, a)

\* .. and only objects are copied that a program can reach: they are in each
\* closed set that holds the roots.
Shut(C, objects) == \A i \in C : References(objects[i]) \subseteq C
Inside(roots, objects, o) ==
  \A C \in SUBSET DOMAIN objects : roots \subseteq C /\ Shut(C, objects) => o \in C
OnlyReached == \A o \in DOMAIN home : home[o] > g_news => Inside(Abs!Roots, Store, o)

XInv ==
  /\ Aligned
  /\ NoEntries
  /\ Collecting => SavedConstant /\ Owned /\ OnlyReached

-----------------------------------------------------------------------------
(***************************************************************************)
(* The stack and the types of objects.                                     *)
(***************************************************************************)
StackStep ==
  g_stack' = g_stack \/ g_stack' = g_stack - GC_FRAME_SIZE \/ g_stack' = g_stack + GC_FRAME_SIZE

\* A step of the program leaves the collector alone, and the stack but for a frame.
LEMMA ProgramStack ==
  ASSUME Program
  PROVE  StackStep /\ phase = "run" /\ ~Collecting'
<1> DEFINE Goal == StackStep /\ phase = "run" /\ ~Collecting'
<1>1. \A why : phase = "run" /\ Stop(why) /\ why \in {"out of memory", "stack full"} => Goal
  BY DEF Stop, StackStep, Collecting
<1>2. phase = "run" /\ g_stack' = g_stack /\ phase' = phase => Goal  BY DEF StackStep, Collecting
<1>3. ASSUME NEW r, NEW block, NEW ids, NEW at, phase = "run", Allocate(r, block, ids, at) PROVE Goal
  BY <1>1, <1>2, <1>3 DEF Allocate, Collector
<1>4. CASE \E r, a, d \in Regs : cons(r, a, d)  BY <1>3, <1>4 DEF cons, MakeCell
<1>5. CASE \E r, a \in Regs, lexical_p \in {0, 1} : make_binding_(r, a, lexical_p)
  BY <1>3, <1>5 DEF make_binding_, MakeCell
<1>6. CASE \E r, d \in Regs : make_closure_(r, d)  BY <1>3, <1>6 DEF make_closure_, MakeCell
<1>7. CASE \E r \in Regs, v \in Values : make_number(r, v)  BY <1>3, <1>7 DEF make_number, MakeCell
<1>8. CASE \E r \in Regs, v \in Values : make_string(r, v)  BY <1>3, <1>8 DEF make_string
<1>9. CASE \E r, e \in Regs, k \in Lengths : make_vector_(r, k, e)  BY <1>3, <1>9 DEF make_vector_
<1>10. CASE \E r, x \in Regs, i \in 0 .. ARENA_SIZE : vector_ref_(r, x, i)
  BY <1>2, <1>3, <1>10 DEF vector_ref_, Collector
<1>11. CASE \E x, e \in Regs, i \in 0 .. ARENA_SIZE : vector_set_x_(x, i, e)
  BY <1>1, <1>2, <1>11 DEF vector_set_x_, Collector
<1>12. CASE \E r, x \in Regs : vector_to_list(r, x)  BY <1>3, <1>12 DEF vector_to_list
<1>13. CASE \E r, x \in Regs : car(r, x)  BY <1>2, <1>13 DEF car, Read, Collector
<1>14. CASE \E r, x \in Regs : cdr(r, x)  BY <1>2, <1>14 DEF cdr, Read, Collector
<1>15. CASE \E x, e \in Regs : set_car_x(x, e)  BY <1>2, <1>15 DEF set_car_x, Write, Collector
<1>16. CASE \E x, e \in Regs : set_cdr_x(x, e)  BY <1>2, <1>16 DEF set_cdr_x, Write, Collector
<1>17. CASE \E g \in Assigned, r \in Regs : SetGlobal(g, r)  BY <1>2, <1>17 DEF SetGlobal, Collector
<1>18. CASE gc_push_frame
  BY <1>1, <1>18 DEF gc_push_frame, Collector, StackStep, Collecting
<1>19. CASE gc_pop_frame  BY <1>19 DEF gc_pop_frame, Collector, StackStep, Collecting
<1> QED  BY <1>4, <1>5, <1>6, <1>7, <1>8, <1>9, <1>10, <1>11, <1>12, <1>13, <1>14, <1>15, <1>16, <1>17, <1>18, <1>19
         DEF Program

\* So whole frames stay whole frames.
LEMMA StackAligned ==
  ASSUME Types, Types', Aligned, StackStep
  PROVE  Aligned'
<1>1. g_stack \in 0 .. STACK_SIZE /\ g_stack' \in 0 .. STACK_SIZE  BY DEF Types
<1>2. STACK_SIZE \in Nat /\ GC_FRAME_SIZE \in Nat \ {0}  BY SizesAssumption DEF GC_FRAME_SIZE
<1>3. PICK n \in Nat : STACK_SIZE - g_stack = n * GC_FRAME_SIZE  BY DEF Aligned
<1>4. PICK u \in Int : u = g_stack'  BY <1>1
<1>5. PICK s \in Int : s = g_stack  BY <1>1
<1>6. PICK f \in Nat \ {0} : f = GC_FRAME_SIZE  BY <1>2
<1>7. u = s \/ u = s - f \/ u = s + f  BY <1>4, <1>5, <1>6 DEF StackStep
<1>8. STACK_SIZE - s = n * f /\ STACK_SIZE - u >= 0
  <2>1. STACK_SIZE - s = n * f  BY <1>3, <1>5, <1>6
  <2>2. u \in 0 .. STACK_SIZE  BY <1>1, <1>4
  <2>3. STACK_SIZE - u >= 0  BY <1>2, <2>2
  <2> QED  BY <2>1, <2>3
<1>9. \E m \in Nat : STACK_SIZE - u = m * f
  <2>1. CASE u = s  BY <1>8, <2>1
  <2>2. CASE u = s - f
    <3>1. (n + 1) * f = n * f + f /\ n + 1 \in Nat  OBVIOUS
    <3>2. PICK y \in Int : y = n * f  OBVIOUS
    <3>3. STACK_SIZE - u = y + f  BY <1>2, <1>8, <2>2, <3>2
    <3>4. STACK_SIZE - u = (n + 1) * f  BY <3>1, <3>2, <3>3
    <3> QED  BY <3>1, <3>4
  <2>3. CASE u = s + f
    <3>1. (n - 1) * f = n * f - f  OBVIOUS
    <3>2. PICK y \in Int : y = n * f  OBVIOUS
    <3>6. STACK_SIZE - u = y - f  BY <1>2, <1>8, <2>3, <3>2
    <3>3. STACK_SIZE - u = (n - 1) * f  BY <3>1, <3>2, <3>6
    <3>4. n # 0
      <4>1. SUFFICES ASSUME n = 0 PROVE FALSE  OBVIOUS
      <4>2. n * f = 0  BY <4>1
      <4>3. STACK_SIZE - s = 0  BY <1>8, <4>2
      <4> QED  BY <1>2, <1>8, <2>3, <4>3
    <3>5. n - 1 \in Nat  BY <3>4
    <3> QED  BY <3>3, <3>5
  <2> QED  BY <1>7, <2>1, <2>2, <2>3
<1> QED  BY <1>4, <1>6, <1>9 DEF Aligned

\* No operation of the abstract heap makes an object of type TREF, or gives an
\* object another type.
LEMMA TypesOfObjects ==
  ASSUME NoEntries, [Abs!Next]_(Abs!vars)
  PROVE  NoEntries'
<1>1. \A o \in DOMAIN Store : Store[o] = Object(Store[o].type, Store[o].fields)
  BY DEF Store, Contents, Object
<1>2. \A t, f : Object(t, f).type = t  BY DEF Object
<1>3. ASSUME NEW r, NEW i, NEW t, NEW f, Abs!New(r, i, Abs!Object(t, f)), t # "TREF" PROVE NoEntries'
  BY <1>2, <1>3, AbsObjects DEF Abs!New, Abs!With, NoEntries
<1>4. CASE Abs!Collect  BY <1>4 DEF Abs!Collect, NoEntries
<1>5. CASE Store' = Store  BY <1>5 DEF NoEntries
<1>6. CASE \E x, e \in Abs!Regs, n \in 1 .. 2 : Abs!Store(x, n, e)
  BY <1>1, <1>6 DEF Abs!Store, NoEntries, Object
<1>7. CASE \E x, e \in Abs!Regs : \E n \in DOMAIN Store[Registers[x]].fields : Abs!VectorSet(x, n, e)
  BY <1>1, <1>7 DEF Abs!VectorSet, NoEntries, Object
<1>8. ASSUME NEW i, NEW r, NEW a, NEW d, Abs!Cons(r, i, a, d) PROVE NoEntries'
  BY <1>3, <1>8 DEF Abs!Cons
<1>9. ASSUME NEW i, NEW r, NEW a, NEW v, Abs!MakeBinding(r, i, a, v) PROVE NoEntries'
  BY <1>3, <1>9 DEF Abs!MakeBinding
<1>10. ASSUME NEW i, NEW r, NEW d, Abs!MakeClosure(r, i, d) PROVE NoEntries'
  BY <1>3, <1>10 DEF Abs!MakeClosure
<1>11. ASSUME NEW i, NEW r, NEW v, Abs!MakeNumber(r, i, v) PROVE NoEntries'
  BY <1>3, <1>11 DEF Abs!MakeNumber
<1>12. ASSUME NEW i, NEW r, NEW v, Abs!MakeString(r, i, v) PROVE NoEntries'
  BY <1>2, <1>12, AbsObjects DEF Abs!MakeString, NoEntries
<1>13. ASSUME NEW i, NEW r, NEW k, NEW e, Abs!MakeVector(r, i, k, e) PROVE NoEntries'
  BY <1>3, <1>13 DEF Abs!MakeVector
<1>14. ASSUME NEW r, NEW x, NEW n, Abs!VectorRef(r, x, n) PROVE NoEntries'
  BY <1>3, <1>5, <1>14 DEF Abs!VectorRef
<1>15. ASSUME NEW r, NEW x, Abs!VectorToList(r, x) PROVE NoEntries'
  <2> DEFINE elements == Store[Registers[x]].fields
             N == Len(elements)
  <2>2. PICK pair \in [1 .. N -> Abs!Fresh] :
          LET Rest_(k) == IF k = N THEN cell_nil ELSE pair[k + 1]
          IN Store' = [j \in DOMAIN Store \cup Abs!Range(pair) |->
                IF j \in Abs!Range(pair)
                  THEN LET k == CHOOSE k \in 1 .. N : pair[k] = j
                       IN Abs!Object("TPAIR", <<elements[k], Abs!Ref(Rest_(k))>>)
                  ELSE Store[j]]
    BY <1>15, Zenon DEF Abs!VectorToList
  <2> DEFINE at(j) == CHOOSE k \in 1 .. N : pair[k] = j
             f(j) == <<elements[at(j)], Abs!Ref(IF at(j) = N THEN cell_nil ELSE pair[at(j) + 1])>>
  <2>3. Store' = [j \in DOMAIN Store \cup Abs!Range(pair) |->
                    IF j \in Abs!Range(pair) THEN Abs!Object("TPAIR", f(j)) ELSE Store[j]]
    BY <2>2, Zenon
  <2> HIDE DEF at, f, elements, N
  <2>4. \A j \in DOMAIN Store' : Store'[j].type = "TPAIR" \/ (j \in DOMAIN Store /\ Store'[j] = Store[j])
    BY <1>2, <2>3, AbsObjects
  <2> QED  BY <2>4 DEF NoEntries
<1>16. CASE Abs!Next
  BY <1>4, <1>5, <1>6, <1>7, <1>8, <1>9, <1>10, <1>11, <1>12, <1>13, <1>14, <1>15, <1>16
  DEF Abs!Next, Abs!Push, Abs!Pop, Abs!SetGlobal, Abs!Load
<1> QED  BY <1>5, <1>16 DEF Abs!vars

-----------------------------------------------------------------------------
(***************************************************************************)
(* What is copied can be reached.                                          *)
(***************************************************************************)
\* The slots from s on, when they hold whole frames, are those of the frames.
LEMMA SlotFrame ==
  ASSUME NEW s \in 0 .. STACK_SIZE, NEW q \in Nat, STACK_SIZE - s = q * GC_FRAME_SIZE,
         NEW k \in s .. STACK_SIZE - 1
  PROVE  \E n \in 1 .. (STACK_SIZE - s) \div GC_FRAME_SIZE : \E j \in 0 .. NRegs :
           k = s + (n - 1) * GC_FRAME_SIZE + j
<1>1. STACK_SIZE \in Nat /\ NRegs \in Nat /\ GC_FRAME_SIZE = NRegs + 1  BY SizesAssumption DEF GC_FRAME_SIZE
<1>2. PICK f \in Nat \ {0} : f = GC_FRAME_SIZE /\ f = NRegs + 1  BY <1>1
<1>3. PICK y \in Nat : y = STACK_SIZE - s  BY <1>1
<1>4. PICK x \in Nat : x = k - s  BY <1>1
<1>5. x < y /\ y = q * f /\ k = s + x  BY <1>1, <1>2, <1>3, <1>4
<1>6. PICK p \in Nat : p = x \div f /\ f * p <= x /\ x < f * p + f  BY Divided
<1>7. PICK d \in Nat : d = y \div f /\ f * d <= y /\ y < f * d + f  BY Divided
<1>8. ASSUME NEW a \in Int, NEW b \in Int, f * a < f * b PROVE a < b
  <2>1. b <= a => f * b <= f * a  OBVIOUS
  <2> QED  BY <1>8, <2>1
<1>9. p < q
  <2>1. q * f = f * q /\ f * q \in Int /\ f * p \in Int  OBVIOUS
  <2>2. f * p < f * q  BY <1>5, <1>6, <2>1
  <2> QED  BY <1>8, <2>2
<1>10. q < d + 1
  <2>1. q * f = f * q /\ f * (d + 1) = f * d + f  OBVIOUS
  <2>2. f * q < f * (d + 1)  BY <1>5, <1>7, <2>1
  <2>3. d + 1 \in Int  OBVIOUS
  <2> QED  BY <1>8, <2>2, <2>3
<1>11. p + 1 \in 1 .. d  BY <1>9, <1>10
<1>12. PICK z \in Int : z = f * p  OBVIOUS
<1>13. x - z \in 0 .. NRegs /\ k = s + z + (x - z)  BY <1>1, <1>2, <1>5, <1>6, <1>12
<1>14. ((p + 1) - 1) * f = z  BY <1>12
<1>15. k = s + ((p + 1) - 1) * f + (x - z)  BY <1>13, <1>14
<1>16. p + 1 \in 1 .. (STACK_SIZE - s) \div GC_FRAME_SIZE  BY <1>2, <1>3, <1>7, <1>11
<1> QED  BY <1>2, <1>13, <1>15, <1>16

\* The slots of the stack while the collector runs: the frame of gc (), which
\* holds the registers and a symbol, and the frames of the program.
LEMMA SlotReached ==
  ASSUME IInv, RInv, XInv, Collecting, NEW k \in g_stack .. STACK_SIZE - 1
  PROVE  id[g_stack_array[k]] \in Abs!Roots
<1>1. Types /\ Collection /\ Saved /\ Aligned /\ SavedConstant
  <2>1. Types /\ Collection /\ Saved  BY DEF IInv, RInv
  <2> QED  BY <2>1 DEF XInv
<1>2. /\ STACK_SIZE \in Nat /\ NRegs \in Nat \ {0} /\ GC_FRAME_SIZE = NRegs + 1
      /\ g_stack \in 0 .. STACK_SIZE /\ g_stack + GC_FRAME_SIZE <= STACK_SIZE /\ g_news # 0
  BY <1>1, Spaces, SizesAssumption DEF GC_FRAME_SIZE, Types, Collection
<1>3. CASE k < g_stack + NRegs
  <2>1. PICK r \in Regs : k = g_stack + NRegs - 1 - r
    <3>1. g_stack + NRegs - 1 - k \in Regs  BY <1>2, <1>3 DEF Regs
    <3>2. k = g_stack + NRegs - 1 - (g_stack + NRegs - 1 - k)  BY <1>2
    <3> QED  BY <3>1, <3>2
  <2>2. id[g_stack_array[k]] = Registers[r]  BY <1>1, <2>1 DEF Saved, Registers
  <2> QED  BY <2>2, SameRegs DEF Abs!Roots
<1>4. CASE k = g_stack + NRegs
  <2>1. id[g_stack_array[k]] \in 1 .. NSymbols  BY <1>1, <1>4 DEF SavedConstant, Symbols
  <2> QED  BY <2>1 DEF Abs!Roots
<1>5. CASE k >= g_stack + GC_FRAME_SIZE
  <2>1. PICK s \in 0 .. STACK_SIZE : s = g_stack + GC_FRAME_SIZE  BY <1>2
  <2>2. FrameStart = s  BY <1>2, <2>1 DEF FrameStart
  <2>3. PICK q \in Nat : STACK_SIZE - s = q * GC_FRAME_SIZE
    <3>1. PICK n \in Nat : STACK_SIZE - g_stack = n * GC_FRAME_SIZE  BY <1>1 DEF Aligned
    <3>2. PICK f \in Nat \ {0} : f = GC_FRAME_SIZE  BY <1>2
    <3>3. PICK y \in Int : y = n * f  OBVIOUS
    <3>4. STACK_SIZE - s = y - f /\ y - f >= 0  BY <1>2, <2>1, <3>1, <3>2, <3>3
    <3>5. (n - 1) * f = y - f  BY <3>3
    <3>6. n # 0
      <4>1. n = 0 => y = 0  BY <3>3
      <4> QED  BY <3>4, <4>1
    <3>7. n - 1 \in Nat  BY <3>6
    <3> QED  BY <3>2, <3>4, <3>5, <3>7
  <2>4. k \in s .. STACK_SIZE - 1  BY <1>2, <1>5, <2>1
  <2>5. PICK n \in 1 .. (STACK_SIZE - s) \div GC_FRAME_SIZE, j \in 0 .. NRegs :
          k = s + (n - 1) * GC_FRAME_SIZE + j
    BY <2>3, <2>4, SlotFrame
  <2>6. n \in DOMAIN Frames /\ j \in DOMAIN Frames[n] /\ Frames[n][j] = id[g_stack_array[k]]
    BY <2>2, <2>5 DEF Frames
  <2>7. Frames[n][j] \in Abs!Roots  BY <2>6 DEF Abs!Roots
  <2> QED  BY <2>6, <2>7
<1> QED  BY <1>2, <1>3, <1>4, <1>5

\* What gc_ copies is a root of the program.
LEMMA RootReached ==
  ASSUME IInv, RInv, XInv, NEW old, RootCopied(old)
  PROVE  id[old] \in Abs!Roots
<1>1. Collecting  BY DEF RootCopied, Collecting
<1>2. CASE id[old] \in Symbols  BY <1>2 DEF Symbols, Abs!Roots
<1>3. CASE \E g \in Globals : old = globals[g]  BY <1>3 DEF GlobalObjects, Abs!Roots
<1>4. CASE \E k \in g_stack .. STACK_SIZE - 1 : old = g_stack_array[k]  BY <1>1, <1>4, SlotReached
<1> QED  BY <1>2, <1>3, <1>4 DEF RootCopied

\* What gc_loop copies an object refers to that has been copied.
LEMMA ScanReached ==
  ASSUME IInv, RInv, XInv, ~Interior, NEW old, NEW M, LoopCopied(old, M)
  PROVE  \E o \in DOMAIN home : home[o] > g_news /\ id[old] \in References(Store[o])
<1>0. /\ phase \in {"car", "cdr"} /\ scan < g_free
      /\ \/ mem[scan].type \in CarTypes /\ mem[scan].car = old
         \/ mem[scan].type \in CdrTypes /\ mem[scan].cdr = old
  BY DEF LoopCopied
<1>1. /\ Types /\ Collection /\ Collecting /\ AtHome(mem, id, home, g_free)
      /\ scan \in g_news + 1 .. g_free - 1 /\ mem[scan] \in Cells
  BY <1>0, ScanCell DEF RInv
<1>2. PICK o \in DOMAIN home : Owns(o, scan)  BY <1>1 DEF XInv, Owned
<1>3. PICK a : a = home[o]  OBVIOUS
<1>4. /\ a > g_news /\ a <= scan /\ scan < a + Size(mem[a])
      /\ Store[o] = Contents(mem, id, a) /\ ObjectAt(mem, id, a, g_free) /\ a \in 0 .. g_free - 1
      /\ mem[a].type # "TREF"
  <2>1. a > g_news /\ a <= scan /\ scan < a + Size(mem[a])  BY <1>2, <1>3 DEF Owns
  <2>2. Store[o] = Contents(mem, id, a)  BY <1>3 DEF Store, Objects
  <2>3. ObjectAt(mem, id, a, g_free) /\ a \in 0 .. g_free - 1  BY <1>1, <1>3, HomeObjects DEF ObjectAt
  <2>4. mem[a].type # "TREF"  BY <2>2 DEF XInv, NoEntries, Store, Objects, Contents, Object
  <2> QED  BY <2>1, <2>2, <2>3, <2>4
<1>5. ASSUME NEW n \in DOMAIN Fields(mem, id, a), Fields(mem, id, a)[n] = Ref(id[old])
      PROVE  id[old] \in References(Store[o])
  <2>1. Store[o].fields[n].kind = "ref" /\ Store[o].fields[n].at = id[old] /\ n \in DOMAIN Store[o].fields
    BY <1>4, <1>5 DEF Contents, Object, Ref
  <2> QED  BY <2>1 DEF References
<1> SUFFICES id[old] \in References(Store[o])  BY <1>3, <1>4
<1>6. CASE scan = a
  <2>1. /\ mem[a].type \in {"TPAIR", "TBINDING", "TCLOSURE", "TSTRING", "TSPECIAL"}
        /\ \/ mem[a].type \in {"TPAIR", "TBINDING"} /\ mem[a].car = old
           \/ mem[a].type \in {"TPAIR", "TCLOSURE", "TSTRING", "TSPECIAL"} /\ mem[a].cdr = old
    BY <1>0, <1>1, <1>4, <1>6 DEF CarTypes, CdrTypes, Cells, CellTypes
  <2>2. CASE mem[a].type = "TPAIR"
    <3>1. Fields(mem, id, a) = <<Ref(id[mem[a].car]), Ref(id[mem[a].cdr])>>  BY <2>2, ContentsOf
    <3>2. 1 \in DOMAIN Fields(mem, id, a) /\ 2 \in DOMAIN Fields(mem, id, a)  BY <3>1
    <3>3. Fields(mem, id, a)[1] = Ref(id[mem[a].car]) /\ Fields(mem, id, a)[2] = Ref(id[mem[a].cdr])  BY <3>1
    <3> QED  BY <1>5, <2>1, <3>2, <3>3
  <2>3. CASE mem[a].type = "TBINDING"
    <3>1. Fields(mem, id, a) = <<Ref(id[mem[a].car]), Val(mem[a].cdr)>>  BY <2>3, ContentsOf
    <3>2. 1 \in DOMAIN Fields(mem, id, a) /\ Fields(mem, id, a)[1] = Ref(id[mem[a].car])  BY <3>1
    <3> QED  BY <1>5, <2>1, <2>3, <3>2
  <2>4. CASE mem[a].type = "TCLOSURE"
    <3>1. Fields(mem, id, a) = <<Ref(id[mem[a].cdr])>>  BY <2>4, ContentsOf
    <3>2. 1 \in DOMAIN Fields(mem, id, a) /\ Fields(mem, id, a)[1] = Ref(id[mem[a].cdr])  BY <3>1
    <3> QED  BY <1>5, <2>1, <2>4, <3>2
  <2>5. CASE mem[a].type \in {"TSTRING", "TSPECIAL"}
    <3>1. Fields(mem, id, a) = <<Val(mem[a].car), Ref(id[mem[a].cdr])>>  BY <2>5, ContentsOf
    <3>2. 2 \in DOMAIN Fields(mem, id, a) /\ Fields(mem, id, a)[2] = Ref(id[mem[a].cdr])  BY <3>1
    <3> QED  BY <1>5, <2>1, <2>5, <3>2
  <2> QED  BY <2>1, <2>2, <2>3, <2>4, <2>5
<1>7. CASE scan # a
  <2>1. a \in Int /\ scan \in Int /\ Shaped(mem, id, a, g_free)  BY <1>1, <1>4 DEF ObjectAt, Sound, Types
  <2>2. scan \in Rest(mem, a)
    <3>1. Size(mem[a]) \in Nat
      <4>1. a \in Addr /\ mem \in [Addr -> Cells]  BY <1>1, <1>4, Spaces
      <4> QED  BY <2>1, <4>1, ShapedSize
    <3> QED  BY <1>4, <1>7, <2>1, <3>1 DEF Rest
  <2>3. mem[a].type \in VectorTypes
    <3>1. mem[a].type # "TBYTES"  BY <1>0, <2>1, <2>2 DEF Shaped, CarTypes, CdrTypes
    <3>2. Size(mem[a]) # 1  BY <1>4, <1>7, <2>1
    <3> QED  BY <3>1, <3>2 DEF Size
  <2>4. mem[scan].type \in EntryTypes  BY <1>4, <2>2, <2>3 DEF ObjectAt
  <2>5. mem[scan].type = "TREF" /\ mem[scan].car = old  BY <1>0, <2>4 DEF EntryTypes, CarTypes, CdrTypes
  <2>6. mem[a].cdr = a + 1 /\ mem[a].car \in Nat /\ Rest(mem, a) = a + 1 .. a + mem[a].car
    <3>1. g_free \in Int  BY <1>1, Spaces
    <3> QED  BY <2>1, <2>3, <3>1, VectorRest
  <2>7. Fields(mem, id, a) = [k \in 1 .. mem[a].car |-> EntryOf(id, mem[mem[a].cdr + k - 1])]
    BY <2>3, ContentsOf
  <2>8. PICK n : n = scan - a  OBVIOUS
  <2>9. n \in 1 .. mem[a].car /\ mem[a].cdr + n - 1 = scan
    <3>1. PICK c \in Nat : c = mem[a].car  BY <2>6
    <3>2. scan \in a + 1 .. a + c  BY <2>2, <2>6, <3>1
    <3>3. n \in 1 .. c /\ a + 1 + n - 1 = scan  BY <2>1, <2>8, <3>2
    <3> QED  BY <2>6, <3>1, <3>3
  <2>10. Fields(mem, id, a)[n] = EntryOf(id, mem[scan])  BY <2>7, <2>9
  <2>11. Fields(mem, id, a)[n] = Ref(id[old]) /\ n \in DOMAIN Fields(mem, id, a)
    BY <2>5, <2>7, <2>9, <2>10 DEF EntryOf
  <2> QED  BY <1>5, <2>11
<1> QED  BY <1>6, <1>7

-----------------------------------------------------------------------------
(***************************************************************************)
(* The invariant is kept.                                                  *)
(***************************************************************************)
\* A step that changes nothing the invariant is about.
LEMMA KeepsExact ==
  ASSUME XInv, UNCHANGED <<mem, g_free, g_news, g_stack, g_stack_array, id, home>>, UNCHANGED Abs!vars,
         Collecting' => Collecting
  PROVE  XInv'
<1>1. UNCHANGED <<mem, g_free, g_news, g_stack, g_stack_array, id, home>>  OBVIOUS
<1>2. Store' = Store /\ (Abs!Roots)' = Abs!Roots  BY DEF Abs!vars, Abs!Roots
<1>3. Aligned'  BY <1>1 DEF XInv, Aligned
<1>4. NoEntries'  BY <1>2 DEF XInv, NoEntries
<1>5. ASSUME Collecting' PROVE SavedConstant' /\ Owned' /\ OnlyReached'
  <2>1. SavedConstant /\ Owned /\ OnlyReached  BY <1>5 DEF XInv
  <2>2. SavedConstant'  BY <1>1, <2>1 DEF SavedConstant
  <2>3. Owned'  BY <1>1, <2>1 DEF Owned, Owns
  <2>4. OnlyReached'  BY <1>1, <1>2, <2>1 DEF OnlyReached, Inside, Shut
  <2> QED  BY <2>2, <2>3, <2>4
<1> QED  BY <1>3, <1>4, <1>5 DEF XInv

\* A copy of an object that can be reached.
LEMMA CopyExact ==
  ASSUME IInv, RInv, XInv, Collecting, NEW old, Refers(mem, id, old, 1, g_news - 2), ~Interior,
         Inside(Abs!Roots, Store, id[old]),
         NEW M, Copies(old, M, id', home', g_free'),
         \A a \in Addr : Same(M[a], id', mem'[a], id'),
         \A a \in Addr : M[a].type \in VectorTypes \cup {"TBROKEN_HEART"} => mem'[a] = M[a],
         UNCHANGED <<g_news, g_stack>>, UNCHANGED Abs!vars,
         \A k \in g_stack .. STACK_SIZE - 1 : id'[g_stack_array'[k]] = id[g_stack_array[k]]
  PROVE  XInv'
<1>1. /\ Types /\ Collection /\ AtHome(mem, id, home, g_free)
      /\ Aligned /\ NoEntries /\ SavedConstant /\ Owned /\ OnlyReached
  <2>1. Types /\ Collection /\ AtHome(mem, id, home, g_free)  BY DEF IInv, RInv
  <2> QED  BY <2>1 DEF XInv
<1>2. /\ g_news \in Nat /\ g_news > 2 /\ g_free \in Nat /\ g_news < g_free
      /\ g_free <= MemTop /\ MemTop \in Nat /\ Addr = 0 .. MemTop - 1
  BY <1>1, Spaces
<1>3. /\ DOMAIN home' = DOMAIN home /\ g_free' \in g_free .. MemTop
      /\ \A a \in 0 .. g_free - 1 : a # old => M[a] = mem[a]
  BY <1>1, CopyKeeps DEF Keeps
<1>4. g_news' = g_news /\ g_stack' = g_stack /\ Store' = Store /\ (Abs!Roots)' = Abs!Roots
  BY DEF Abs!vars, Abs!Roots
<1>5. \A o \in DOMAIN home : home[o] \in 0 .. g_free - 1 /\ id[home[o]] = o  BY <1>1 DEF Collection, Homes
<1>6. ASSUME NEW a \in Addr PROVE Size(mem'[a]) = Size(M[a])
  <2>1. Same(M[a], id', mem'[a], id')  OBVIOUS
  <2>2. M[a].type \in VectorTypes => mem'[a] = M[a]  OBVIOUS
  <2>3. mem'[a].type = M[a].type /\ (M[a].type = "TBYTES" => mem'[a].car = M[a].car)
    BY <2>1 DEF Same, CarTypes
  <2> QED  BY <2>2, <2>3 DEF Size
\* A cell of the new space stays with its object.
<1>7. ASSUME NEW o \in DOMAIN home, NEW a, Owns(o, a), home'[o] = home[o]
      PROVE  home'[o] > g_news /\ home'[o] <= a /\ a < home'[o] + Size(mem'[home'[o]])
  <2>1. home[o] > g_news /\ home[o] <= a /\ a < home[o] + Size(mem[home[o]])  BY <1>7 DEF Owns
  <2>2. home[o] # old /\ home[o] \in Addr /\ home[o] \in 0 .. g_free - 1
    <3>1. old \in 1 .. g_news - 2  BY DEF Refers
    <3> QED  BY <1>2, <1>5, <2>1, <3>1
  <2>3. Size(mem'[home[o]]) = Size(mem[home[o]])  BY <1>3, <1>6, <2>2
  <2> QED  BY <1>7, <2>1, <2>3
<1> DEFINE Goal == Owned' /\ \A o \in DOMAIN home' : home'[o] > g_news => Inside(Abs!Roots, Store, o)
<1>8. ASSUME Forwarded(old) PROVE Goal
  <2>1. home' = home /\ g_free' = g_free
    <3>1. home' = home  BY <1>8 DEF Copies
    <3>2. g_free' = g_free  BY <1>2, <1>8 DEF Copies, Taken
    <3> QED  BY <3>1, <3>2
  <2>2. Owned'
    <3>1. ASSUME NEW a \in g_news + 1 .. g_free - 1
          PROVE  \E o \in DOMAIN home' : home'[o] > g_news /\ home'[o] <= a /\ a < home'[o] + Size(mem'[home'[o]])
      <4>1. PICK o \in DOMAIN home : Owns(o, a)  BY <1>1 DEF Owned
      <4> QED  BY <1>7, <2>1, <4>1
    <3> QED  BY <1>4, <2>1, <3>1 DEF Owned, Owns
  <2>3. \A o \in DOMAIN home' : home'[o] > g_news => Inside(Abs!Roots, Store, o)
    BY <1>1, <2>1 DEF OnlyReached
  <2> QED  BY <2>2, <2>3
<1>9. ASSUME ~Forwarded(old) PROVE Goal
  <2>1. /\ g_free' = g_free + Size(mem[old]) /\ g_free' \in g_free + 1 .. MemTop
        /\ M[g_free].type = mem[old].type /\ M[g_free].car = mem[old].car
    BY <1>1, <1>9, CopiedCells
  <2>2. home' = [o \in DOMAIN home |-> IF o = id[old] THEN g_free ELSE home[o]]  BY <1>9 DEF Copies
  <2>3. old \in 1 .. g_news - 2 /\ id[old] # NoId  BY DEF Refers
  <2>4. id[old] \in DOMAIN home /\ home[id[old]] = old
    <3>1. old \in 0 .. g_free - 1  BY <1>2, <2>3
    <3> QED  BY <1>1, <1>9, <2>3, <3>1 DEF AtHome, Forwarded
  <2>5. Size(mem'[g_free]) = Size(mem[old])
    <3>1. g_free \in Addr  BY <1>2, <2>1
    <3>2. Size(mem'[g_free]) = Size(M[g_free])  BY <1>6, <3>1
    <3> QED  BY <2>1, <3>2 DEF Size
  <2>6. Owned'
    <3>1. ASSUME NEW a \in g_news + 1 .. g_free' - 1
          PROVE  \E o \in DOMAIN home' : home'[o] > g_news /\ home'[o] <= a /\ a < home'[o] + Size(mem'[home'[o]])
      <4>1. CASE a < g_free
        <5>1. a \in g_news + 1 .. g_free - 1  BY <1>2, <4>1
        <5>2. PICK o \in DOMAIN home : Owns(o, a)  BY <1>1, <5>1 DEF Owned
        <5>3. o # id[old]
          <6>1. home[o] > g_news  BY <5>2 DEF Owns
          <6>2. home[o] \in Int /\ ~(old > g_news)  BY <1>2, <1>5, <2>3
          <6> QED  BY <2>4, <6>1, <6>2
        <5>4. home'[o] = home[o]  BY <2>2, <5>3
        <5> QED  BY <1>3, <1>7, <5>2, <5>4
      <4>2. CASE a >= g_free
        <5>1. home'[id[old]] = g_free /\ id[old] \in DOMAIN home'  BY <1>3, <2>2, <2>4
        <5>2. g_free > g_news /\ g_free <= a /\ a < g_free + Size(mem[old])  BY <1>2, <2>1, <4>2
        <5> QED  BY <2>5, <5>1, <5>2
      <4> QED  BY <1>2, <4>1, <4>2
    <3> QED  BY <1>4, <3>1 DEF Owned, Owns
  <2>7. \A o \in DOMAIN home' : home'[o] > g_news => Inside(Abs!Roots, Store, o)
    <3>1. \A o \in DOMAIN home : o # id[old] => home'[o] = home[o]  BY <2>2
    <3> QED  BY <1>1, <1>3, <3>1 DEF OnlyReached
  <2> QED  BY <2>6, <2>7
<1>10. Goal  BY <1>8, <1>9
<1>11. OnlyReached'  BY <1>4, <1>10 DEF OnlyReached, Inside, Shut
<1>12. SavedConstant'
  <2>1. g_stack + NRegs \in g_stack .. STACK_SIZE - 1
    BY <1>1, SizesAssumption DEF Types, Collection, GC_FRAME_SIZE
  <2>2. id'[g_stack_array'[g_stack + NRegs]] = id[g_stack_array[g_stack + NRegs]]  BY <2>1
  <2> QED  BY <1>1, <1>4, <2>2 DEF SavedConstant
<1>13. Aligned' /\ NoEntries'  BY <1>1, <1>4 DEF Aligned, NoEntries
<1> QED  BY <1>10, <1>11, <1>12, <1>13 DEF XInv

\* A program or a collector that stops.
LEMMA StopExact ==
  ASSUME XInv, NEW why \in {"out of memory", "stack full", "overrun", "broken heart"}, Stop(why)
  PROVE  XInv'
<1>1. UNCHANGED Abs!vars  BY StopUnseen
<1>2. UNCHANGED <<mem, g_free, g_news, g_stack, g_stack_array, id, home>>  BY DEF Stop, history
<1>3. ~Collecting'  BY DEF Stop, Collecting
<1> QED  BY <1>1, <1>2, <1>3, KeepsExact

\* A step that copies a root.
LEMMA RootExact ==
  ASSUME IInv, RInv, XInv, ~Interior, NEW old, RootCopied(old)
  PROVE  XInv'
<1>0. /\ phase = "roots" /\ NextRoot /\ UNCHANGED <<g_news, g_stack>>
      /\ Refers(mem, id, old, 1, g_news - 2) /\ Copies(old, mem', id', home', g_free')
      /\ \A k \in g_stack .. STACK_SIZE - 1 :
           \/ g_stack_array'[k] = g_stack_array[k]
           \/ g_stack_array[k] = old /\ g_stack_array'[k] = NewOf(old)
  BY DEF RootCopied
<1>1. Types /\ Collection /\ Collecting  BY <1>0 DEF IInv, Collecting
<1>2. UNCHANGED Abs!vars  BY RootSeen
<1>3. PICK M : M = mem'  OBVIOUS
<1>4. Copies(old, M, id', home', g_free')  BY <1>0, <1>3
<1>5. \A a \in Addr : Same(M[a], id', mem'[a], id')  BY <1>3 DEF Same
<1>6. \A a \in Addr : M[a].type \in VectorTypes \cup {"TBROKEN_HEART"} => mem'[a] = M[a]  BY <1>3
<1>7. id'[NewOf(old)] = id[old]  BY <1>0, <1>1, CopyResult
<1>8. \A p \in 0 .. g_free - 1 : id'[p] = id[p]  BY <1>0, <1>1, CopyKeeps DEF Keeps
<1>9. \A k \in g_stack .. STACK_SIZE - 1 : g_stack_array[k] \in 0 .. g_free - 1  BY <1>1, CollectorRoots
<1>10. \A k \in g_stack .. STACK_SIZE - 1 : id'[g_stack_array'[k]] = id[g_stack_array[k]]
  BY <1>0, <1>7, <1>8, <1>9
<1>11. Inside(Abs!Roots, Store, id[old])
  <2>1. id[old] \in Abs!Roots  BY RootReached
  <2> QED  BY <2>1 DEF Inside
<1> QED  BY <1>0, <1>1, <1>2, <1>4, <1>5, <1>6, <1>10, <1>11, CopyExact

\* A step that copies what the cell at scan refers to.
LEMMA LoopExact ==
  ASSUME IInv, RInv, XInv, ~Interior, NEW old, NEW M, LoopCopied(old, M)
  PROVE  XInv'
<1>0. /\ phase \in {"car", "cdr"} /\ phase' \in {"car", "cdr"}
      /\ UNCHANGED <<g_news, g_stack, g_stack_array>>
      /\ Refers(mem, id, old, 1, g_news - 2) /\ Copies(old, M, id', home', g_free')
  BY DEF LoopCopied
<1>1. Types /\ Collection /\ Collecting  BY <1>0 DEF IInv, Collecting
<1>2. UNCHANGED Abs!vars  BY LoopSeen
<1>5. /\ \A a \in Addr : Same(M[a], id', mem'[a], id')
      /\ \A a \in Addr : M[a].type \in VectorTypes \cup {"TBROKEN_HEART"} => mem'[a] = M[a]
  BY LoopCells
<1>8. \A p \in 0 .. g_free - 1 : id'[p] = id[p]  BY <1>0, <1>1, CopyKeeps DEF Keeps
<1>9. \A k \in g_stack .. STACK_SIZE - 1 : g_stack_array[k] \in 0 .. g_free - 1  BY <1>1, CollectorRoots
<1>10. \A k \in g_stack .. STACK_SIZE - 1 : id'[g_stack_array'[k]] = id[g_stack_array[k]]
  BY <1>0, <1>8, <1>9
<1>11. Inside(Abs!Roots, Store, id[old])
  <2>1. PICK o \in DOMAIN home : home[o] > g_news /\ id[old] \in References(Store[o])  BY ScanReached
  <2>2. Inside(Abs!Roots, Store, o)  BY <1>1, <2>1 DEF XInv, OnlyReached
  <2> QED  BY <2>1, <2>2 DEF Inside, Shut
<1> QED  BY <1>0, <1>1, <1>2, <1>5, <1>10, <1>11, CopyExact

\* The steps of the collector before gc_flip.
LEMMA CopyingExact ==
  ASSUME IInv, RInv, XInv, ~Interior, Copying
  PROVE  XInv'
<1>1. CASE Stop("overrun")  BY <1>1, StopExact
<1>2. CASE LoopSkipped
  <2>1. UNCHANGED Abs!vars  BY <1>2, LoopSkips
  <2>2. UNCHANGED <<mem, g_free, g_news, g_stack, g_stack_array, id, home>>  BY <1>2 DEF LoopSkipped
  <2>3. Collecting  BY <1>2 DEF LoopSkipped
  <2> QED  BY <2>1, <2>2, <2>3, KeepsExact
<1>3. CASE \E old : RootCopied(old)  BY <1>3, RootExact
<1>4. CASE \E old, M : LoopCopied(old, M)  BY <1>4, LoopExact
<1> QED  BY <1>1, <1>2, <1>3, <1>4, CopyingStep

\* The step that starts a collection.
LEMMA GcCheckExact ==
  ASSUME IInv, IInv', RInv, XInv, gc_check
  PROVE  XInv'
<1>1. phase = "run" /\ gc  BY DEF gc_check
<1>2. CASE g_stack < GC_FRAME_SIZE
  <2>1. Stop("stack full")  BY <1>1, <1>2 DEF gc
  <2> QED  BY <2>1, StopExact
<1>3. CASE ~(g_stack < GC_FRAME_SIZE) /\ g_free + 2 > MemTop
  <2>1. Stop("overrun")  BY <1>1, <1>3 DEF gc
  <2> QED  BY <2>1, StopExact
<1>4. CASE ~(g_stack < GC_FRAME_SIZE) /\ ~(g_free + 2 > MemTop)
  <2>1. /\ g_stack_array' = Pushed /\ g_stack' = g_stack - GC_FRAME_SIZE
        /\ g_news' = g_free + 1 /\ g_free' = g_free + 2 /\ id' = id /\ home' = home
    BY <1>1, <1>4 DEF gc, gc_init_news, history
  <2>2. /\ g_free \in Nat \ {0} /\ Homes(id, home, g_free) /\ Types  BY <1>1, RunHome
  <2>3. Types'  BY DEF IInv
  <2>4. Aligned'  BY <2>1, <2>2, <2>3, StackAligned DEF StackStep, XInv
  <2>5. Store' = Store  BY GcCheckSeen DEF Abs!vars
  <2>6. NoEntries'  BY <2>5 DEF XInv, NoEntries
  <2>7. SavedConstant'
    <3>1. NRegs \in 0 .. NRegs  BY SizesAssumption
    <3>2. Pushed[g_stack - GC_FRAME_SIZE + NRegs] = cell_f  BY <1>1, <1>4, <3>1, PushedFrames
    <3>3. id[cell_f] = cell_f /\ cell_f \in Symbols  BY <1>1, ConstantObject, SizesAssumption DEF cell_f, Symbols
    <3> QED  BY <2>1, <3>2, <3>3 DEF SavedConstant
  <2>8. Owned'
    <3>1. \A a : a \notin (g_free + 1) + 1 .. (g_free + 2) - 1  BY <2>2
    <3> QED  BY <2>1, <3>1 DEF Owned
  <2>9. OnlyReached'
    <3>1. \A o \in DOMAIN home : ~(home[o] > g_free + 1)  BY <2>2 DEF Homes
    <3> QED  BY <2>1, <3>1 DEF OnlyReached
  <2> QED  BY <2>4, <2>6, <2>7, <2>8, <2>9 DEF XInv
<1> QED  BY <1>2, <1>3, <1>4

\* A step of the program.
LEMMA ProgramExact ==
  ASSUME IInv, IInv', RInv, XInv, ~Interior, Program
  PROVE  XInv'
<1>1. StackStep /\ ~Collecting'  BY ProgramStack
<1>2. Types /\ Types'  BY DEF IInv
<1>3. Aligned'  BY <1>1, <1>2, StackAligned DEF XInv
<1>4. [Abs!Next]_(Abs!vars)  BY ProgramSeen DEF AbsStep
<1>5. NoEntries'  BY <1>4, TypesOfObjects DEF XInv
<1> QED  BY <1>1, <1>3, <1>5 DEF XInv

\* The end of a collection.
LEMMA FlipExact ==
  ASSUME IInv, IInv', RInv, XInv, ~Interior, gc_flip
  PROVE  XInv'
<1>1. StackStep /\ phase' = "run"  BY DEF gc_flip, StackStep
<1>2. Types /\ Types'  BY DEF IInv
<1>3. Aligned'  BY <1>1, <1>2, StackAligned DEF XInv
<1>4. [Abs!Next]_(Abs!vars)  BY FlipSeen DEF Abs!Next
<1>5. NoEntries'  BY <1>4, TypesOfObjects DEF XInv
<1> QED  BY <1>1, <1>3, <1>5 DEF XInv, Collecting

\* The first state: no frame, and no cell of a vector is an object.
LEMMA InitExact ==
  ASSUME Init
  PROVE  XInv
<1>1. phase = "run" /\ g_stack = STACK_SIZE  BY DEF Init
<1>2. Aligned
  <2>1. STACK_SIZE - STACK_SIZE = 0 * GC_FRAME_SIZE  BY SizesAssumption DEF GC_FRAME_SIZE
  <2> QED  BY <1>1, <2>1 DEF Aligned
<1>3. \A o \in DOMAIN home : o \in 0 .. StaticTop - 1 /\ home[o] = o /\ id[o] = o
  <2>1. DOMAIN home \subseteq 1 .. StaticTop - 1 /\ \A o \in DOMAIN home : home[o] = o /\ id[o] = o
    BY StaticIds
  <2>2. \A o \in 1 .. StaticTop - 1 : o \in 0 .. StaticTop - 1  BY StaticLayout
  <2> QED  BY <2>1, <2>2
<1>4. \A o \in 0 .. StaticTop - 1 : id[o] # NoId => mem[o].type # "TREF"
  <2>1. ASSUME NEW o \in 0 .. StaticTop - 1, id[o] # NoId PROVE mem[o].type # "TREF"
    <3>1. o # TableAt + 1 /\ \A s \in Symbols : o # BucketsAt + s  BY <2>1, StaticIds
    <3>2. \/ o = 0 \/ o \in Symbols \/ o = TableAt \/ o = BucketsAt
          \/ \E n \in Symbols : o = NameAt(n)
          \/ o \in BucketsAt + NSymbols + 1 .. StaticTop - 1 /\ \A n \in Symbols : o # NameAt(n)
      BY <3>1, StaticRegions
    <3> QED  BY <3>2, StaticCells
  <2> QED  BY <2>1
<1>5. NoEntries
  <2>1. ASSUME NEW o \in DOMAIN home PROVE Contents(mem, id, home[o]).type # "TREF"
    <3>1. id[o] # NoId  BY <1>3, StaticLayout DEF NoId
    <3>2. mem[home[o]].type # "TREF"  BY <1>3, <1>4, <3>1
    <3> QED  BY <3>2 DEF Contents, Object
  <2> QED  BY <2>1 DEF NoEntries, Store, Objects
<1> QED  BY <1>1, <1>2, <1>5 DEF XInv, Collecting

\* Every step keeps the invariant.
LEMMA NextExact ==
  ASSUME IInv, IInv', RInv, XInv, ~Interior, [Next]_vars
  PROVE  XInv'
<1>1. CASE Program  BY <1>1, ProgramExact
<1>2. CASE gc_check  BY <1>2, GcCheckExact
<1>3. CASE Copying  BY <1>3, CopyingExact
<1>4. CASE gc_flip  BY <1>4, FlipExact
<1>5. CASE UNCHANGED vars
  <2>1. UNCHANGED <<mem, g_free, g_news, g_stack, g_stack_array, regs, globals, phase, id, home>>
    BY <1>5 DEF vars
  <2>2. Store' = Store  BY <2>1 DEF Store, Objects
  <2>3. Registers' = Registers /\ GlobalObjects' = GlobalObjects  BY <2>1 DEF Registers, GlobalObjects
  <2>4. FrameStart' = FrameStart  BY <2>1 DEF FrameStart
  <2>5. Frames' = Frames  BY <2>1, <2>4 DEF Frames
  <2>6. UNCHANGED Abs!vars  BY <2>2, <2>3, <2>5, Unseen
  <2>7. Collecting' => Collecting  BY <2>1 DEF Collecting
  <2>8. UNCHANGED <<mem, g_free, g_news, g_stack, g_stack_array, id, home>>  BY <2>1
  <2> QED  BY <2>6, <2>7, <2>8, KeepsExact
<1> QED  BY <1>1, <1>2, <1>3, <1>4, <1>5 DEF Next, Collect, Copying

-----------------------------------------------------------------------------
(***************************************************************************)
(* A collection is exact.                                                  *)
(***************************************************************************)
\* What gc_flip leaves is what the roots lead to: nothing else was copied, and
\* what was copied is closed.
LEMMA FlipIsExact ==
  ASSUME IInv, IInv', RInv, XInv, ~Interior, gc_flip
  PROVE  Objects' = Reachable(Store, Abs!Roots, Cardinality(Objects))'
<1>1. /\ Types /\ Collection /\ Collecting /\ phase = "car"
      /\ home' = [i \in {j \in DOMAIN home : home[j] >= g_news} |-> home[i] - g_news]
  BY DEF IInv, Collecting, gc_flip
<1>2. DOMAIN Store = DOMAIN home /\ DOMAIN Store' = DOMAIN home' /\ Objects' = DOMAIN home'
  BY DEF Store, Objects
<1>3. /\ Abs!Roots \subseteq DOMAIN home' /\ DOMAIN home' \subseteq DOMAIN home
      /\ Store' = [o \in DOMAIN home' |-> Store[o]]
      /\ \A o \in DOMAIN home' : References(Store'[o]) \subseteq DOMAIN home'
      /\ UNCHANGED <<Registers, Frames, GlobalObjects>>
  <2>1. Abs!Collect  BY FlipSeen
  <2> QED  BY <1>2, <2>1, AbsObjects DEF Abs!Collect, Abs!Closed
<1>4. (Abs!Roots)' = Abs!Roots  BY <1>3 DEF Abs!Roots
<1>5. PICK S : S = Abs!Roots  OBVIOUS
<1>6. PICK T : T = Store'  OBVIOUS
<1>7. PICK O : O = DOMAIN home'  OBVIOUS
<1>8. /\ DOMAIN T = O /\ S \subseteq O /\ O \subseteq DOMAIN Store
      /\ \A o \in O : T[o] = Store[o]
      /\ \A o \in O : References(T[o]) \subseteq O
  BY <1>2, <1>3, <1>5, <1>6, <1>7
<1>9. S # {}
  <2>1. 1 \in 1 .. NSymbols  BY SizesAssumption
  <2> QED  BY <1>5, <2>1 DEF Abs!Roots
<1>10. IsFiniteSet(O)
  <2>1. O \subseteq Ids  BY <1>1, <1>3, <1>7 DEF Types
  <2>2. IsFiniteSet(Ids)  BY Layout, FS_Interval DEF Ids
  <2> QED  BY <2>1, <2>2, FS_Subset
<1> DEFINE R == Reachable(T, S, Cardinality(O))
<1>11. /\ S \subseteq R /\ R \subseteq O
       /\ \A i \in R : References(T[i]) \subseteq R
  BY <1>8, <1>9, <1>10, ReachCloses
<1>12. Reachable(Store, Abs!Roots, Cardinality(Objects))' = R
  <2>1. Reachable(Store', (Abs!Roots)', Cardinality(Objects')) = R  BY <1>2, <1>4, <1>5, <1>6, <1>7
  <2> QED  BY <2>1
<1> HIDE DEF R
<1>13. R \in SUBSET DOMAIN Store /\ Shut(R, Store)  BY <1>8, <1>11 DEF Shut
<1>14. ASSUME NEW o \in O PROVE o \in R
  <2>1. o \in DOMAIN home /\ home[o] >= g_news  BY <1>1, <1>7
  <2>2. home[o] # g_news
    <3>1. id[home[o]] = o /\ o \in Ids  BY <1>1, <2>1 DEF Collection, Homes, Types
    <3>2. id[g_news] = NoId  BY <1>1 DEF Collection
    <3>3. NoId \notin Ids  BY Layout DEF NoId, Ids
    <3> QED  BY <3>1, <3>2, <3>3
  <2>3. home[o] > g_news
    <3>1. g_news \in Int /\ home[o] \in Int  BY <1>1, <2>1, Spaces DEF Collection, Homes
    <3> QED  BY <2>1, <2>2, <3>1
  <2>4. Inside(Abs!Roots, Store, o)  BY <1>1, <2>1, <2>3 DEF XInv, OnlyReached
  <2> QED  BY <1>5, <1>11, <1>13, <2>4 DEF Inside
<1> QED  BY <1>2, <1>7, <1>11, <1>12, <1>14

\* A step after which the program runs again, and before which it did not, is
\* gc_flip.
LEMMA OnlyFlipEnds ==
  ASSUME IInv, ~Interior, [Next]_vars, phase = "car", phase' = "run"
  PROVE  gc_flip
<1>1. ~Program  BY ProgramStack
<1>2. ~gc_check  BY DEF gc_check
<1>3. ~Copying
  <2>1. ~Stop("overrun")  BY DEF Stop
  <2>2. ~LoopSkipped  BY DEF LoopSkipped, Collecting
  <2>3. ~ \E old : RootCopied(old)  BY DEF RootCopied
  <2>4. ~ \E old, M : LoopCopied(old, M)  BY DEF LoopCopied
  <2> QED  BY <2>1, <2>2, <2>3, <2>4, CopyingStep
<1>4. ~ UNCHANGED vars
  <2>1. UNCHANGED vars => phase' = phase  BY DEF vars
  <2> QED  BY <2>1
<1> QED  BY <1>1, <1>2, <1>3, <1>4 DEF Next, Collect, Copying

\* A collection keeps nothing that the program cannot reach: the objects behind
\* it are those of the roots and of the static symbols.  With HeapIsAbstract,
\* it keeps just what can be reached.
THEOREM CollectionsAreExact == ~Interior => (Spec => CollectionIsExact)
<1>1. CASE Interior  BY <1>1
<1>2. CASE ~Interior
  <2>1. Init => RInv /\ XInv  BY <1>2, InitSeen, InitExact
  <2>2. IInv /\ IInv' /\ RInv /\ XInv /\ [Next]_vars => RInv' /\ XInv'  BY <1>2, NextSeen, NextExact
  <2>3. IInv /\ IInv' /\ RInv /\ XInv /\ [Next]_vars
          => [phase = "car" /\ phase' = "run" => Objects' = Reachable(Store, Abs!Roots, Cardinality(Objects))']_vars
    BY <1>2, FlipIsExact, OnlyFlipEnds
  <2> QED  BY <2>1, <2>2, <2>3, Invariance, PTL DEF Spec, CollectionIsExact
<1> QED  BY <1>1, <1>2
=============================================================================
