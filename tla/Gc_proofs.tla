------------------------------ MODULE Gc_proofs ------------------------------
(***************************************************************************)
(* Theorems about module Gc, for all sizes and programs.                   *)
(***************************************************************************)
EXTENDS Gc, OperatorLemmas

(***************************************************************************)
(* The inductive invariant.  Its parts take the memory m and the           *)
(* identities i as arguments: a step is looked at before and after.        *)
(***************************************************************************)
CellTypes == {"TSPECIAL", "TPAIR", "TBINDING", "TCLOSURE", "TCHAR", "TNUMBER", "TSTRING", "TBYTES", "raw",
              "TVECTOR", "TSTRUCT", "TREF", "TBROKEN_HEART", "free"}
Cells == [type : CellTypes, car : Int, cdr : Int]

\* The types of the cells behind the first one of a vector.
EntryTypes == {"TREF", "TCHAR", "TNUMBER"}

Rest(m, a) == a + 1 .. a + Size(m[a]) - 1

\* p refers to an object in lo .. hi, or, if the program goes inside vectors,
\* to a cell of one.
Refers(m, i, p, lo, hi) ==
  /\ p \in lo .. hi
  /\ m[p].type # "raw"
  /\ ~Interior => i[p] # NoId

\* The object at a has its other cells behind the first, below top.
Shaped(m, i, a, top) ==
  /\ m[a].type \in VectorTypes => m[a].cdr = a + 1 /\ m[a].car \in Nat
  /\ m[a].type = "TBYTES" => m[a].car \in Nat
  /\ a + Size(m[a]) <= top
  /\ \A j \in Rest(m, a) :
       /\ m[a].type \in VectorTypes => m[j].type \in EntryTypes \cup {"TBROKEN_HEART"}
       /\ m[a].type = "TBYTES" => m[j].type = "raw"
       /\ i[j] = NoId

CarRefers(m, i, a, lo, hi) == m[a].type \in CarTypes => Refers(m, i, m[a].car, lo, hi)
CdrRefers(m, i, a, lo, hi) == m[a].type \in CdrTypes => Refers(m, i, m[a].cdr, lo, hi)

\* The cell at a is one that a program made, and refers to lo .. hi.
Sound(m, i, a, lo, hi, top) ==
  /\ m[a].type \notin {"free", "TBROKEN_HEART"}
  /\ Shaped(m, i, a, top)
  /\ CarRefers(m, i, a, lo, hi)
  /\ CdrRefers(m, i, a, lo, hi)

\* The static symbol s is at a.
SymbolAt(m, i, s, a) ==
  /\ m[a].type = "TSPECIAL"
  /\ i[a] = s
  /\ i[m[a].cdr] = NameAt(s)

\* Each object has its identity at its home.
Homes(i, h, top) == \A o \in DOMAIN h : h[o] \in 0 .. top - 1 /\ i[h[o]] = o

Types ==
  /\ mem \in [Addr -> Cells]
  /\ id \in [Addr -> Ids \cup {NoId}]
  /\ \A a \in Addr : a >= g_free => id[a] = NoId
  /\ DOMAIN home \subseteq Ids
  /\ g_free \in 1 .. MemTop
  /\ g_news \in 0 .. g_free
  /\ scan \in 0 .. g_free
  /\ \A a \in 0 .. g_free - 1 : mem[a].type # "free"
  /\ g_stack \in 0 .. STACK_SIZE
  /\ g_stack_array \in [0 .. STACK_SIZE - 1 -> 0 .. g_free]
  /\ \A k \in 0 .. g_stack - 1 : g_stack_array[k] = 0
  /\ regs \in [Regs -> Addr]
  /\ globals \in [Globals -> 0 .. g_free]
  /\ phase \in Phases

\* While the program runs.
RunCells(m, i, top) == \A a \in 0 .. top - 1 : Sound(m, i, a, 1, top - 1, top)
RunRoots(m, i, top) ==
  /\ \A r \in Regs : Refers(m, i, regs[r], 1, top - 1)
  /\ \A g \in Globals : Refers(m, i, globals[g], 1, top - 1)
  /\ \A k \in g_stack .. STACK_SIZE - 1 : Refers(m, i, g_stack_array[k], 1, top - 1)
Run ==
  /\ NSymbols < g_free
  /\ id[0] = NoId
  /\ RunCells(mem, id, g_free)
  /\ RunRoots(mem, id, g_free)
  /\ \A s \in Symbols : SymbolAt(mem, id, s, s)
  /\ Homes(id, home, g_free)

-----------------------------------------------------------------------------
(***************************************************************************)
(* While the collector runs, the old space is 0 .. n - 2 and the new space *)
(* is n + 1 .. g_free - 1, where n is g_news.                              *)
(***************************************************************************)
\* A broken heart leads to a copy that has the object's identity and size.
Heart(m, i, a, n, top) ==
  /\ Refers(m, i, m[a].car, n + 1, top - 1)
  /\ i[m[a].car] = i[a]
  /\ ~Interior => i[a] # NoId
  /\ a + Size(m[m[a].car]) <= n - 1
  /\ \A j \in a + 1 .. a + Size(m[m[a].car]) - 1 : i[j] = NoId

OldCell(m, i, a, n, top) ==
  IF m[a].type = "TBROKEN_HEART" THEN Heart(m, i, a, n, top) ELSE Sound(m, i, a, 1, n - 2, n - 1)

\* What has been relocated refers to the new space.
CarDone(a, sc, ph) == a < sc \/ (a = sc /\ ph = "cdr")

NewCell(m, i, a, n, top, sc, ph) ==
  /\ m[a].type # "free"
  /\ m[a].type = "TBROKEN_HEART" => Interior /\ ~CarDone(a, sc, ph)
  /\ Shaped(m, i, a, top)
  /\ CarDone(a, sc, ph) => CarRefers(m, i, a, n + 1, top - 1)
  /\ ~CarDone(a, sc, ph) => CarRefers(m, i, a, 1, n - 2)
  /\ a < sc => CdrRefers(m, i, a, n + 1, top - 1)
  /\ a >= sc => CdrRefers(m, i, a, 1, n - 2)

\* The k-th root has been copied.
RootDone(k) == phase # "roots" \/ k < next
Root(m, i, k, p, n, top) ==
  IF RootDone(k) THEN Refers(m, i, p, n + 1, top - 1) ELSE Refers(m, i, p, 1, n - 2)

GlobalRoot(n) == NSymbols + n
StackRoot(k) == NSymbols + Len(GlobalNames) + 1 + k - g_stack

Roots(m, i, n, top) ==
  /\ \A k \in 1 .. Len(GlobalNames) : Root(m, i, GlobalRoot(k), globals[GlobalNames[k]], n, top)
  /\ \A k \in g_stack .. STACK_SIZE - 1 : Root(m, i, StackRoot(k), g_stack_array[k], n, top)

\* The symbols are copied first, and in order.
SymbolsInOrder ==
  \A s \in Symbols :
    IF RootDone(s) THEN g_news + s < g_free /\ SymbolAt(mem, id, s, g_news + s) ELSE SymbolAt(mem, id, s, s)
OnlySymbols ==
  phase = "roots" /\ next <= NSymbols =>
    /\ g_free = g_news + next
    /\ \A a \in 1 .. g_news - 2 : mem[a].type = "TBROKEN_HEART" => a < next

Collection ==
  /\ NSymbols < g_news - 1
  /\ g_news + 1 <= g_free
  /\ scan \in g_news + 1 .. g_free
  /\ phase = "cdr" => scan < g_free
  /\ phase = "roots" => scan = g_news + 1 /\ next \in 1 .. NRoots
  /\ g_stack + GC_FRAME_SIZE <= STACK_SIZE
  /\ mem[g_news].type = "TCHAR"
  /\ id[0] = NoId /\ id[g_news - 1] = NoId /\ id[g_news] = NoId
  /\ \A a \in 0 .. g_news - 2 : OldCell(mem, id, a, g_news, g_free)
  /\ \A a \in g_news + 1 .. g_free - 1 : NewCell(mem, id, a, g_news, g_free, scan, phase)
  /\ Roots(mem, id, g_news, g_free)
  /\ SymbolsInOrder
  /\ OnlySymbols
  /\ Homes(id, home, g_free)

\* The cells of the objects that have been copied, in the old space: there
\* are as many as in the new one.
Hearts(m, n) == {a \in 1 .. n - 2 : m[a].type = "TBROKEN_HEART"}
Extent(m, a) == a .. a + Size(m[m[a].car]) - 1
Covered(m, n) == UNION {Extent(m, a) : a \in Hearts(m, n)}
Fits == Cardinality(Covered(mem, g_news)) = g_free - g_news - 1

IInv ==
  /\ Types
  /\ phase = "run" => Run
  /\ Collecting => Collection
  /\ Collecting /\ ~Interior => Fits
  /\ ~Interior => phase # "broken heart"

-----------------------------------------------------------------------------
(***************************************************************************)
(* Sizes and cells.                                                        *)
(***************************************************************************)
LEMMA BytesCells == \A n \in Nat : bytes_cells(n) \in Nat /\ bytes_cells(n) >= 2
  BY DEF bytes_cells

LEMMA TwoBytes == bytes_cells(2) = 3
  BY DEF bytes_cells

\* The cell that Cell makes.
LEMMA MadeCell ==
  ASSUME NEW t \in CellTypes, NEW a \in Int, NEW d \in Int
  PROVE  /\ Cell(t, a, d) \in Cells
         /\ Cell(t, a, d).type = t /\ Cell(t, a, d).car = a /\ Cell(t, a, d).cdr = d
  BY DEF Cell, Cells

\* The arena is part of the memory.
LEMMA Layout ==
  /\ ARENA_SIZE \in Nat \ {0} /\ MemTop \in Nat \ {0} /\ ARENA_SIZE <= MemTop
  /\ Addr = 0 .. MemTop - 1
  BY SizesAssumption DEF MemTop, Addr

\* An object has a first cell.
LEMMA SizeOfCell ==
  ASSUME NEW c \in Cells, c.type \in VectorTypes => c.car \in Nat, c.type = "TBYTES" => c.car \in Nat
  PROVE  Size(c) \in Nat \ {0}
<1>1. CASE c.type \in VectorTypes  BY <1>1 DEF Size, Cells
<1>2. CASE c.type \notin VectorTypes /\ c.type = "TBYTES"
  BY <1>2, BytesCells DEF Size, Cells
<1>3. CASE c.type \notin VectorTypes /\ c.type # "TBYTES"  BY <1>3 DEF Size
<1> QED  BY <1>1, <1>2, <1>3

\* Cells that are neither vectors nor bytes are objects of one cell.
LEMMA SmallCell ==
  ASSUME NEW c, c.type \notin VectorTypes, c.type # "TBYTES"
  PROVE  Size(c) = 1
  BY DEF Size

\* An object that has its cells has at least one.
LEMMA ShapedSize ==
  ASSUME NEW m \in [Addr -> Cells], NEW i, NEW a \in Addr, NEW top, Shaped(m, i, a, top)
  PROVE  Size(m[a]) \in Nat \ {0}
  BY SizeOfCell DEF Shaped

\* What a step may do to the cells of an object that it leaves in its place.
LEMMA KeepsShape ==
  ASSUME NEW m \in [Addr -> Cells], NEW M \in [Addr -> Cells], NEW i, NEW I, NEW a \in Addr,
         NEW top \in Int, NEW top2 \in Int, top <= top2, Shaped(m, i, a, top),
         M[a].type = m[a].type,
         m[a].type \in VectorTypes \cup {"TBYTES"} => M[a] = m[a],
         \A j \in a + 1 .. top - 1 :
           /\ I[j] = i[j]
           /\ m[j].type = "raw" => M[j].type = "raw"
           /\ m[j].type \in EntryTypes \cup {"TBROKEN_HEART"} =>
                M[j].type \in EntryTypes \cup {"TBROKEN_HEART"}
  PROVE  Shaped(M, I, a, top2) /\ Size(M[a]) = Size(m[a])
<1>1. Size(M[a]) = Size(m[a])
  <2>1. CASE m[a].type \in VectorTypes \cup {"TBYTES"}  BY <2>1
  <2>2. CASE m[a].type \notin VectorTypes \cup {"TBYTES"}  BY <2>2, SmallCell
  <2> QED  BY <2>1, <2>2
<1>2. Size(m[a]) \in Nat \ {0} /\ a \in Int  BY ShapedSize, Layout
<1>3. ASSUME NEW j \in Rest(M, a)
      PROVE  /\ j \in Rest(m, a) /\ j \in a + 1 .. top - 1
  BY <1>1, <1>2 DEF Rest, Shaped
<1>4. ASSUME NEW j \in Rest(M, a)
      PROVE  /\ M[a].type \in VectorTypes => M[j].type \in EntryTypes \cup {"TBROKEN_HEART"}
             /\ M[a].type = "TBYTES" => M[j].type = "raw"
             /\ I[j] = NoId
  BY <1>3 DEF Shaped
<1>5. /\ M[a].type \in VectorTypes => M[a].cdr = a + 1 /\ M[a].car \in Nat
      /\ M[a].type = "TBYTES" => M[a].car \in Nat
  BY DEF Shaped
<1>6. a + Size(M[a]) <= top2  BY <1>1, <1>2 DEF Shaped
<1> QED  BY <1>1, <1>4, <1>5, <1>6 DEF Shaped

-----------------------------------------------------------------------------
(***************************************************************************)
(* The program.                                                            *)
(***************************************************************************)
\* What a step of the program may do to the cells below top: an object stays
\* an object, and a cell of a vector a cell of a vector.
Alike(m, i, M, I, top) ==
  \A j \in 0 .. top - 1 :
    /\ I[j] = i[j]
    /\ M[j].type = "raw" <=> m[j].type = "raw"
    /\ m[j].type \in EntryTypes \cup {"TBROKEN_HEART"} =>
         M[j].type \in EntryTypes \cup {"TBROKEN_HEART"}

\* A reference to a cell that stays is still one.
LEMMA KeepsReference ==
  ASSUME NEW m, NEW M, NEW i, NEW I, NEW top \in Int, NEW hi \in Int, NEW hi2 \in Int,
         NEW p, hi < top, hi <= hi2, Alike(m, i, M, I, top), Refers(m, i, p, 1, hi)
  PROVE  Refers(M, I, p, 1, hi2)
<1>1. p \in 0 .. top - 1 /\ p \in 1 .. hi2  BY DEF Refers
<1> QED  BY <1>1 DEF Refers, Alike

\* So an object that is left alone stays sound.
LEMMA KeepsSound ==
  ASSUME NEW m \in [Addr -> Cells], NEW M \in [Addr -> Cells], NEW i, NEW I, NEW a \in Addr,
         NEW top \in Int, NEW top2 \in Int, top <= top2, a < top,
         Alike(m, i, M, I, top), M[a] = m[a], Sound(m, i, a, 1, top - 1, top)
  PROVE  Sound(M, I, a, 1, top2 - 1, top2)
<1>1. a \in Nat  BY Layout
<1>2. Shaped(M, I, a, top2)
  <2>1. \A j \in a + 1 .. top - 1 : j \in 0 .. top - 1  BY <1>1
  <2>2. Shaped(m, i, a, top)  BY DEF Sound
  <2>3. \A j \in a + 1 .. top - 1 :
           /\ I[j] = i[j]
           /\ m[j].type = "raw" => M[j].type = "raw"
           /\ m[j].type \in EntryTypes \cup {"TBROKEN_HEART"} =>
                M[j].type \in EntryTypes \cup {"TBROKEN_HEART"}
    BY <2>1 DEF Alike
  <2> QED  BY <2>2, <2>3, KeepsShape
<1>3. top - 1 < top /\ top - 1 <= top2 - 1 /\ top - 1 \in Int /\ top2 - 1 \in Int  OBVIOUS
<1>4. CarRefers(M, I, a, 1, top2 - 1)  BY <1>3, KeepsReference DEF Sound, CarRefers
<1>5. CdrRefers(M, I, a, 1, top2 - 1)  BY <1>3, KeepsReference DEF Sound, CdrRefers
<1> QED  BY <1>2, <1>4, <1>5 DEF Sound

\* A block that fits, with fresh identities, is written.
Makes(block, ids, m) ==
  /\ block \in Seq(Cells) /\ ids \in Seq(Ids \cup {NoId})
  /\ Len(ids) = Len(block) /\ g_free + Len(block) <= ARENA_SIZE
  /\ \A k \in 1 .. Len(ids) : ids[k] = NoId \/ ids[k] \in Fresh
  /\ \A j, k \in 1 .. Len(ids) : ids[j] = ids[k] /\ ids[j] # NoId => j = k
  /\ Put(block, ids, m)

\* What Put leaves in memory, where m is as it was but for one cell.
LEMMA PutMemory ==
  ASSUME Types, Homes(id, home, g_free),
         NEW m \in [Addr -> Cells], NEW block, NEW ids, Makes(block, ids, m)
  PROVE  /\ mem' \in [Addr -> Cells] /\ id' \in [Addr -> Ids \cup {NoId}]
         /\ g_free' = g_free + Len(block) /\ g_free' \in 1 .. MemTop /\ g_free' <= ARENA_SIZE
         /\ \A a \in 0 .. g_free - 1 : mem'[a] = m[a] /\ id'[a] = id[a]
         /\ \A k \in 1 .. Len(block) :
              mem'[g_free + k - 1] = block[k] /\ id'[g_free + k - 1] = ids[k]
         /\ \A a \in Addr : a >= g_free' => id'[a] = NoId
         /\ DOMAIN home' \subseteq Ids
         /\ Homes(id', home', g_free')
<1> DEFINE n == Len(block)
           made == {ids[k] : k \in DOMAIN ids} \ {NoId}
<1>1. n \in Nat /\ DOMAIN block = 1 .. n /\ DOMAIN ids = 1 .. n
      /\ (\A k \in 1 .. n : block[k] \in Cells /\ ids[k] \in Ids \cup {NoId})
  BY LenProperties, ElementOfSeq DEF Makes
<1>2. g_free \in Nat \ {0} /\ g_free' = g_free + n /\ MemTop \in Nat /\ ARENA_SIZE \in Nat
      /\ ARENA_SIZE <= MemTop
  BY <1>1, Layout DEF Put, Types, Makes
<1>3. mem' = [a \in Addr |-> IF a \in g_free .. g_free + n - 1 THEN block[a - g_free + 1] ELSE m[a]]
  BY DEF Put, Makes
<1>4. id' = [a \in Addr |-> IF a \in g_free .. g_free + n - 1 THEN ids[a - g_free + 1] ELSE id[a]]
  BY DEF Put, Makes
<1>5. home' = [i \in DOMAIN home \cup made |->
                 IF i \in made THEN g_free - 1 + CHOOSE k \in DOMAIN ids : ids[k] = i ELSE home[i]]
  BY DEF Put, Makes
<1> HIDE DEF n, made
<1>6. \A a \in Addr : a \in g_free .. g_free + n - 1 => a - g_free + 1 \in 1 .. n
  BY <1>1, <1>2, Layout
<1>7. mem' \in [Addr -> Cells]  BY <1>1, <1>3, <1>6
<1>8. id' \in [Addr -> Ids \cup {NoId}]  BY <1>1, <1>4, <1>6 DEF Types
<1>9. \A a \in 0 .. g_free - 1 : mem'[a] = m[a] /\ id'[a] = id[a]
  BY <1>1, <1>2, <1>3, <1>4, Layout DEF Types
<1>10. ASSUME NEW k \in 1 .. n
       PROVE  mem'[g_free + k - 1] = block[k] /\ id'[g_free + k - 1] = ids[k] /\ g_free + k - 1 \in Addr
  <2>1. g_free + k - 1 \in Addr /\ g_free + k - 1 \in g_free .. g_free + n - 1
        /\ (g_free + k - 1) - g_free + 1 = k
    BY <1>1, <1>2, Layout DEF n, Makes
  <2> QED  BY <2>1, <1>3, <1>4
<1>11. \A a \in Addr : a >= g_free' => id'[a] = NoId
  BY <1>1, <1>2, <1>4, Layout DEF Types
<1>12. DOMAIN home' \subseteq Ids
  BY <1>1, <1>5 DEF Types, made, Makes
<1>13. Homes(id', home', g_free')
  <2>1. SUFFICES ASSUME NEW o \in DOMAIN home'
                 PROVE  home'[o] \in 0 .. g_free' - 1 /\ id'[home'[o]] = o
    BY DEF Homes
  <2>2. CASE o \in made
    <3>1. PICK k \in 1 .. n : ids[k] = o /\ home'[o] = g_free - 1 + k
      BY <2>2, <1>1, <1>5 DEF made, Makes
    <3>2. home'[o] = g_free + k - 1 /\ home'[o] \in 0 .. g_free' - 1  BY <3>1, <1>1, <1>2
    <3> QED  BY <3>1, <3>2, <1>10
  <2>3. CASE o \notin made
    <3>1. o \in DOMAIN home /\ home'[o] = home[o]  BY <2>3, <2>1, <1>5
    <3>2. home[o] \in 0 .. g_free - 1 /\ id[home[o]] = o  BY <3>1 DEF Homes
    <3> QED  BY <3>1, <3>2, <1>1, <1>2, <1>9
  <2> QED  BY <2>2, <2>3
<1>14. g_free' \in 1 .. MemTop /\ g_free' <= ARENA_SIZE  BY <1>1, <1>2 DEF n, Makes
<1> QED  BY <1>1, <1>2, <1>7, <1>8, <1>9, <1>10, <1>11, <1>12, <1>13, <1>14 DEF n

\* There are identities enough: an object takes a cell at least.
LEMMA FreshIdsExist ==
  ASSUME Types, Homes(id, home, g_free), NEW n \in Nat, g_free + n <= ARENA_SIZE
  PROVE  /\ FreshIds(n) \in [1 .. n -> Fresh]
         /\ \A j, k \in 1 .. n : FreshIds(n)[j] = FreshIds(n)[k] => j = k
<1> DEFINE h == [o \in DOMAIN home |-> home[o]]
<1>1. g_free \in Nat \ {0} /\ ARENA_SIZE \in Nat  BY Layout DEF Types
<1>2. h \in Injection(DOMAIN home, 0 .. g_free - 1)
  <2>1. h \in [DOMAIN home -> 0 .. g_free - 1]  BY DEF Homes
  <2>2. \A a, b \in DOMAIN home : h[a] = h[b] => a = b  BY DEF Homes
  <2> QED  BY <2>1, <2>2 DEF Injection, IsInjective
<1>3. IsFiniteSet(0 .. g_free - 1) /\ Cardinality(0 .. g_free - 1) = g_free
  <2>1. 0 \in Int /\ g_free - 1 \in Int /\ ~(0 > g_free - 1)  BY <1>1
  <2>2. Cardinality(0 .. g_free - 1) = (g_free - 1) - 0 + 1  BY <2>1, FS_Interval
  <2> QED  BY <2>1, <2>2, <1>1, FS_Interval
<1> HIDE DEF h
<1>4. Cardinality(DOMAIN home) <= g_free /\ IsFiniteSet(DOMAIN home)
  BY <1>2, <1>3, FS_Injection
<1>5. IsFiniteSet(Ids) /\ Cardinality(Ids) = ARENA_SIZE + 1
  <2>1. 0 \in Int /\ ARENA_SIZE \in Int /\ ~(0 > ARENA_SIZE)  BY <1>1
  <2>2. Cardinality(Ids) = ARENA_SIZE - 0 + 1 /\ IsFiniteSet(Ids)  BY <2>1, FS_Interval DEF Ids
  <2> QED  BY <2>2, <1>1
<1>6. Ids \cap DOMAIN home = DOMAIN home  BY DEF Types
<1>7. IsFiniteSet(Fresh) /\ Cardinality(Fresh) = Cardinality(Ids) - Cardinality(DOMAIN home)
  BY <1>5, <1>6, FS_Difference DEF Fresh
<1>8. Cardinality(DOMAIN home) \in Nat  BY <1>4, FS_CardinalityType
<1>9. n <= Cardinality(Fresh)  BY <1>1, <1>4, <1>5, <1>7, <1>8
<1>10. \E f \in [1 .. n -> Fresh] : \A j, k \in 1 .. n : f[j] = f[k] => j = k
  BY <1>7, <1>9, DifferentElements
<1> QED  BY <1>10 DEF FreshIds

\* A program or a collector that stops.
LEMMA StopIInv ==
  ASSUME IInv, NEW why \in {"out of memory", "stack full", "overrun", "broken heart"}, Stop(why),
         why = "broken heart" => Interior
  PROVE  IInv'
<1>1. phase' = why /\ phase' # "run" /\ ~Collecting' /\ phase' \in Phases
  BY DEF Stop, Collecting, Phases
<1>2. Types'  BY <1>1 DEF Stop, IInv, Types, history
<1> QED  BY <1>1, <1>2 DEF IInv

\* A step of the program that makes nothing and leaves every object sound.
LEMMA RunIInv ==
  ASSUME IInv, phase = "run", UNCHANGED <<history, g_free, Collector>>,
         mem' \in [Addr -> Cells], RunCells(mem', id, g_free), \A s \in Symbols : mem'[s] = mem[s],
         g_stack' \in 0 .. STACK_SIZE, g_stack_array' \in [0 .. STACK_SIZE - 1 -> 0 .. g_free],
         \A k \in 0 .. g_stack' - 1 : g_stack_array'[k] = 0,
         regs' \in [Regs -> Addr], globals' \in [Globals -> 0 .. g_free],
         RunRoots(mem, id, g_free)'
  PROVE  IInv'
<1>1. \A a \in 0 .. g_free - 1 : mem'[a].type # "free"  BY DEF RunCells, Sound
<1>2. Types'  BY <1>1 DEF IInv, Types, history, Collector
<1>3. Run' /\ phase' = "run" /\ ~Collecting'
  <2>1. \A s \in Symbols : SymbolAt(mem', id, s, s)  BY DEF IInv, Run, SymbolAt
  <2>2. Homes(id, home, g_free)  BY DEF IInv, Run
  <2> QED  BY <2>1, <2>2 DEF IInv, Run, history, Collector, Collecting
<1> QED  BY <1>2, <1>3 DEF IInv

\* A step of the program that makes an object.
LEMMA AllocatedIInv ==
  ASSUME IInv, phase = "run",
         NEW m \in [Addr -> Cells], NEW block, NEW ids, Makes(block, ids, m),
         Alike(mem, id, m, id, g_free), RunCells(m, id, g_free), \A s \in Symbols : m[s] = mem[s],
         \A k \in 1 .. Len(block) : Sound(mem', id', g_free + k - 1, 1, g_free' - 1, g_free'),
         regs' \in [Regs -> Addr], \A r \in Regs : Refers(mem', id', regs'[r], 1, g_free' - 1),
         UNCHANGED <<g_stack, g_stack_array, globals, Collector>>
  PROVE  IInv'
<1>1. Types /\ Run  BY DEF IInv
<1>2. /\ mem' \in [Addr -> Cells] /\ id' \in [Addr -> Ids \cup {NoId}]
      /\ g_free' = g_free + Len(block) /\ g_free' \in 1 .. MemTop /\ g_free' <= ARENA_SIZE
      /\ \A a \in 0 .. g_free - 1 : mem'[a] = m[a] /\ id'[a] = id[a]
      /\ \A a \in Addr : a >= g_free' => id'[a] = NoId
      /\ DOMAIN home' \subseteq Ids
      /\ Homes(id', home', g_free')
  BY <1>1, PutMemory DEF Run
<1>3. g_free \in Nat \ {0} /\ g_free <= g_free' /\ Len(block) \in Nat /\ g_free' \in Nat
  BY <1>1, <1>2, LenProperties, Layout DEF Types, Makes
<1>4. Alike(mem, id, mem', id', g_free) /\ Alike(m, id, mem', id', g_free)
  BY <1>2 DEF Alike
<1>5. ASSUME NEW a \in 0 .. g_free' - 1 PROVE Sound(mem', id', a, 1, g_free' - 1, g_free')
  <2>1. CASE a < g_free
    <3>1. a \in Addr /\ a \in 0 .. g_free - 1  BY <2>1, <1>2, <1>3, Layout
    <3>2. Sound(m, id, a, 1, g_free - 1, g_free)  BY <3>1 DEF RunCells
    <3>3. g_free \in Int /\ g_free' \in Int /\ mem'[a] = m[a]  BY <3>1, <1>2, <1>3
    <3> QED  BY <3>1, <3>2, <3>3, <2>1, <1>2, <1>3, <1>4, KeepsSound
  <2>2. CASE a >= g_free
    <3>1. (a - g_free + 1) \in 1 .. Len(block) /\ g_free + (a - g_free + 1) - 1 = a
      BY <2>2, <1>2, <1>3
    <3> QED  BY <3>1
  <2> QED  BY <2>1, <2>2, <1>3
<1>6. \A a \in 0 .. g_free' - 1 : mem'[a].type # "free"  BY <1>5 DEF Sound
<1>7. Types'
  <2>1. g_stack_array' \in [0 .. STACK_SIZE - 1 -> 0 .. g_free']  BY <1>1, <1>3 DEF Types
  <2>2. globals' \in [Globals -> 0 .. g_free']  BY <1>1, <1>3 DEF Types
  <2>3. g_news' \in 0 .. g_free' /\ scan' \in 0 .. g_free'  BY <1>1, <1>3 DEF Types, Collector
  <2> QED  BY <1>1, <1>2, <1>6, <2>1, <2>2, <2>3 DEF Types, Collector
<1>8. RunRoots(mem, id, g_free)'
  <2>1. /\ g_free \in Int /\ g_free - 1 \in Int /\ g_free' - 1 \in Int
        /\ g_free - 1 < g_free /\ g_free - 1 <= g_free' - 1
    <3>1. \A x, y \in Nat : x <= y => x \in Int /\ x - 1 \in Int /\ y - 1 \in Int /\ x - 1 < x /\ x - 1 <= y - 1
      OBVIOUS
    <3> QED  BY <3>1, <1>3
  <2>2. \A p : Refers(mem, id, p, 1, g_free - 1) => Refers(mem', id', p, 1, g_free' - 1)
    BY <2>1, <1>3, <1>4, KeepsReference
  <2> QED  BY <1>1, <2>2 DEF Run, RunRoots
<1>9. \A s \in Symbols : SymbolAt(mem', id', s, s)
  <2>1. SUFFICES ASSUME NEW s \in Symbols PROVE SymbolAt(mem', id', s, s)
    OBVIOUS
  <2>2. s \in 0 .. g_free - 1 /\ s \in Nat  BY <1>1, <1>3, SizesAssumption DEF Symbols, Run
  <2>3. SymbolAt(mem, id, s, s) /\ Sound(mem, id, s, 1, g_free - 1, g_free)
    BY <1>1, <2>2 DEF Run, RunCells
  <2>4. mem[s].cdr \in 0 .. g_free - 1
    <3>1. mem[s].cdr \in 1 .. g_free - 1
      BY <2>3 DEF SymbolAt, Sound, CdrRefers, Refers, CdrTypes
    <3> QED  BY <3>1, <1>3
  <2> QED  BY <2>2, <2>3, <2>4, <1>2 DEF SymbolAt
<1>10. Run' /\ phase' = "run" /\ ~Collecting'
  <2>1. 0 \in 0 .. g_free - 1 /\ NSymbols < g_free'  BY <1>1, <1>3, SizesAssumption DEF Run
  <2>2. id'[0] = NoId  BY <1>1, <1>2, <2>1 DEF Run
  <2> QED  BY <1>2, <1>5, <1>8, <1>9, <2>1, <2>2 DEF Run, RunCells, Collector, Collecting
<1> QED  BY <1>7, <1>10 DEF IInv

\* An object of one cell is sound when its references are.
LEMMA SmallSound ==
  ASSUME NEW m, NEW i, NEW a \in Int, NEW lo, NEW hi, NEW top \in Int, a < top,
         m[a].type \notin {"free", "TBROKEN_HEART", "TBYTES"} \cup VectorTypes,
         CarRefers(m, i, a, lo, hi), CdrRefers(m, i, a, lo, hi)
  PROVE  Sound(m, i, a, lo, hi, top)
<1>1. Size(m[a]) = 1  BY SmallCell
<1>2. Rest(m, a) = {}  BY <1>1 DEF Rest
<1> QED  BY <1>1, <1>2 DEF Sound, Shaped

\* What refers to an object still does when there is one more.
LEMMA PutReference ==
  ASSUME Types, Homes(id, home, g_free),
         NEW m \in [Addr -> Cells], NEW block, NEW ids, Makes(block, ids, m), Alike(mem, id, m, id, g_free)
  PROVE  \A p : Refers(mem, id, p, 1, g_free - 1) => Refers(mem', id', p, 1, g_free' - 1)
<1>1. /\ g_free' = g_free + Len(block)
      /\ \A a \in 0 .. g_free - 1 : mem'[a] = m[a] /\ id'[a] = id[a]
  BY PutMemory
<1>2. g_free \in Nat \ {0} /\ Len(block) \in Nat  BY LenProperties, Layout DEF Types, Makes
<1>3. Alike(mem, id, mem', id', g_free)  BY <1>1 DEF Alike
<1>4. /\ g_free \in Int /\ g_free - 1 \in Int /\ g_free' - 1 \in Int
      /\ g_free - 1 < g_free /\ g_free - 1 <= g_free' - 1
  BY <1>1, <1>2
<1> QED  BY <1>3, <1>4, KeepsReference

\* One fresh identity, as the sequence of the identities of a cell.
LEMMA OneFresh ==
  ASSUME Types, Homes(id, home, g_free), g_free + 1 <= ARENA_SIZE
  PROVE  /\ FreshIds(1) \in Seq(Ids \cup {NoId}) /\ Len(FreshIds(1)) = 1
         /\ FreshIds(1)[1] \in Fresh /\ FreshIds(1)[1] \in Ids
<1>1. FreshIds(1) \in [1 .. 1 -> Fresh]  BY FreshIdsExist
<1>2. Fresh \subseteq Ids  BY DEF Fresh
<1>3. FreshIds(1) \in [1 .. 1 -> Ids \cup {NoId}]  BY <1>1, <1>2
<1>4. FreshIds(1) \in Seq(Ids \cup {NoId})  BY <1>3, SeqDef
<1>5. Len(FreshIds(1)) = 1  BY <1>3, <1>4, LenProperties
<1> QED  BY <1>1, <1>2, <1>4, <1>5

\* A block is allocated and register r takes at.
Allocates(r, block, ids, at) ==
  /\ Makes(block, ids, mem)
  /\ regs' = [regs EXCEPT ![r] = at]
  /\ UNCHANGED <<g_stack, g_stack_array, globals, Collector>>

\* The operations of a program, from those that make an object of one cell.
LEMMA CellMade ==
  ASSUME Types, Homes(id, home, g_free), NEW r, NEW c \in Cells, Allocate(r, <<c>>, FreshIds(1), g_free)
  PROVE  \/ Stop("out of memory")
         \/ \E block, ids : /\ Allocates(r, block, ids, g_free)
                            /\ Len(block) = 1 /\ block[1] = c
                            /\ Len(ids) = 1 /\ ids[1] \in Fresh /\ ids[1] \in Ids
<1>1. g_free \in Nat \ {0} /\ ARENA_SIZE \in Nat  BY Layout DEF Types
<1>2. <<c>> \in Seq(Cells) /\ Len(<<c>>) = 1 /\ <<c>>[1] = c  OBVIOUS
<1>3. CASE g_free + 1 > ARENA_SIZE
  BY <1>2, <1>3 DEF Allocate
<1>4. CASE ~(g_free + 1 > ARENA_SIZE)
  <2>1. g_free + 1 <= ARENA_SIZE  BY <1>1, <1>4
  <2> DEFINE ids == FreshIds(1)
  <2>2. /\ ids \in Seq(Ids \cup {NoId}) /\ Len(ids) = 1
        /\ ids[1] \in Fresh /\ ids[1] \in Ids
    BY <2>1, OneFresh
  <2>3. Put(<<c>>, ids, mem) /\ regs' = [regs EXCEPT ![r] = g_free]
        /\ UNCHANGED <<g_stack, g_stack_array, globals, Collector>>
    BY <1>2, <1>4 DEF Allocate
  <2> HIDE DEF ids
  <2> DEFINE block == <<c>>
  <2>4. /\ block \in Seq(Cells) /\ Len(block) = 1 /\ block[1] = c  BY <1>2
  <2>5. Put(block, ids, mem)  BY <2>3
  <2> HIDE DEF block
  <2>6. Makes(block, ids, mem)  BY <2>1, <2>2, <2>4, <2>5 DEF Makes
  <2> QED  BY <2>2, <2>3, <2>4, <2>6 DEF Allocates
<1> QED  BY <1>1, <1>3, <1>4

\* A register takes the object that is made.
LEMMA MakeIInv ==
  ASSUME IInv, phase = "run", NEW r \in Regs, NEW block, NEW ids, NEW at,
         Makes(block, ids, mem),
         \A k \in 1 .. Len(block) : Sound(mem', id', g_free + k - 1, 1, g_free' - 1, g_free'),
         Refers(mem', id', at, 1, g_free' - 1), regs' = [regs EXCEPT ![r] = at],
         UNCHANGED <<g_stack, g_stack_array, globals, Collector>>
  PROVE  IInv'
<1>1. Types /\ Run /\ Homes(id, home, g_free) /\ mem \in [Addr -> Cells]
  BY DEF IInv, Run, Types
<1>2. Alike(mem, id, mem, id, g_free)  BY DEF Alike
<1>3. \A p : Refers(mem, id, p, 1, g_free - 1) => Refers(mem', id', p, 1, g_free' - 1)
  BY <1>1, <1>2, PutReference
<1>4. g_free' \in 1 .. MemTop  BY <1>1, PutMemory
<1>5. at \in Addr
  <2>1. at \in 1 .. g_free' - 1 /\ MemTop \in Nat  BY Layout DEF Refers
  <2>2. \A f \in 1 .. MemTop : f \in Int /\ \A p \in 1 .. f - 1 : p \in 0 .. MemTop - 1  BY <2>1
  <2>3. at \in 0 .. MemTop - 1  BY <2>1, <2>2, <1>4
  <2> QED  BY <2>3, Layout
<1>6. regs' \in [Regs -> Addr] /\ \A q \in Regs : Refers(mem', id', regs'[q], 1, g_free' - 1)
  BY <1>1, <1>3, <1>5 DEF Types, Run, RunRoots
<1> QED  BY <1>1, <1>2, <1>6, AllocatedIInv DEF Run

LEMMA MakeCellIInv ==
  ASSUME IInv, NEW r \in Regs, NEW c \in Cells,
         c.type \notin {"free", "TBROKEN_HEART", "raw", "TBYTES"} \cup VectorTypes,
         c.type \in CarTypes => Refers(mem, id, c.car, 1, g_free - 1),
         c.type \in CdrTypes => Refers(mem, id, c.cdr, 1, g_free - 1),
         phase = "run", Allocate(r, <<c>>, FreshIds(1), g_free)
  PROVE  IInv'
<1>1. Types /\ Run /\ Homes(id, home, g_free) /\ mem \in [Addr -> Cells]
  BY DEF IInv, Run, Types
<1>2. CASE Stop("out of memory")  BY <1>2, StopIInv
<1>3. ASSUME NEW block, NEW ids, Allocates(r, block, ids, g_free),
             Len(block) = 1, block[1] = c, Len(ids) = 1, ids[1] \in Fresh, ids[1] \in Ids
      PROVE  IInv'
  <2>1. Makes(block, ids, mem) /\ regs' = [regs EXCEPT ![r] = g_free]
        /\ UNCHANGED <<g_stack, g_stack_array, globals, Collector>>
    BY <1>3 DEF Allocates
  <2>2. g_free \in Nat \ {0} /\ 1 \in 1 .. Len(block)  BY <1>1, <1>3 DEF Types
  <2>3. Alike(mem, id, mem, id, g_free)  BY DEF Alike
  <2>4. /\ g_free' = g_free + Len(block)
        /\ mem'[g_free + 1 - 1] = block[1] /\ id'[g_free + 1 - 1] = ids[1]
    BY <1>1, <2>1, <2>2, PutMemory
  <2>5. mem'[g_free] = c /\ id'[g_free] \in Ids /\ g_free' = g_free + 1
    BY <1>3, <2>2, <2>4
  <2>6. \A p : Refers(mem, id, p, 1, g_free - 1) => Refers(mem', id', p, 1, g_free' - 1)
    BY <1>1, <2>1, <2>3, PutReference
  <2>7. Sound(mem', id', g_free, 1, g_free' - 1, g_free')
    <3>1. CarRefers(mem', id', g_free, 1, g_free' - 1)  BY <2>5, <2>6 DEF CarRefers
    <3>2. CdrRefers(mem', id', g_free, 1, g_free' - 1)  BY <2>5, <2>6 DEF CdrRefers
    <3>3. g_free \in Int /\ g_free' \in Int /\ g_free < g_free'  BY <2>2, <2>5
    <3> QED  BY <3>1, <3>2, <3>3, <2>5, SmallSound
  <2>8. \A k \in 1 .. Len(block) : Sound(mem', id', g_free + k - 1, 1, g_free' - 1, g_free')
    <3>1. \A k \in 1 .. Len(block) : g_free + k - 1 = g_free  BY <1>3, <2>2
    <3> QED  BY <3>1, <2>7
  <2>9. Refers(mem', id', g_free, 1, g_free' - 1)
    <3>1. g_free \in 1 .. g_free' - 1 /\ NoId \notin Ids  BY <2>2, <2>5, Layout DEF NoId, Ids
    <3> QED  BY <3>1, <2>5 DEF Refers
  <2> QED  BY <1>1, <2>1, <2>8, <2>9, MakeIInv
<1> QED  BY <1>1, <1>2, <1>3, CellMade

LEMMA ConsIInv ==
  ASSUME IInv, NEW r \in Regs, NEW a \in Regs, NEW d \in Regs, cons(r, a, d)
  PROVE  IInv'
<1>1. Types /\ phase = "run" /\ Run  BY DEF IInv, cons, MakeCell
<1> DEFINE c == Cell("TPAIR", regs[a], regs[d])
<1>2. c \in Cells /\ c.type = "TPAIR" /\ c.car = regs[a] /\ c.cdr = regs[d]
  <2>1. "TPAIR" \in CellTypes /\ regs[a] \in Int /\ regs[d] \in Int  BY <1>1, Layout DEF Types, CellTypes
  <2> QED  BY <2>1, MadeCell
<1>3. Allocate(r, <<c>>, FreshIds(1), g_free)  BY DEF cons, MakeCell
<1>4. Refers(mem, id, regs[a], 1, g_free - 1) /\ Refers(mem, id, regs[d], 1, g_free - 1)
  BY <1>1 DEF Run, RunRoots
<1> HIDE DEF c
<1> QED  BY <1>1, <1>2, <1>3, <1>4, MakeCellIInv DEF VectorTypes

LEMMA MakeBindingIInv ==
  ASSUME IInv, NEW r \in Regs, NEW a \in Regs, NEW lexical_p \in {0, 1}, make_binding_(r, a, lexical_p)
  PROVE  IInv'
<1>1. Types /\ phase = "run" /\ Run  BY DEF IInv, make_binding_, MakeCell
<1> DEFINE c == Cell("TBINDING", regs[a], lexical_p)
<1>2. c \in Cells /\ c.type = "TBINDING" /\ c.car = regs[a]
  <2>1. "TBINDING" \in CellTypes /\ regs[a] \in Int /\ lexical_p \in Int  BY <1>1, Layout DEF Types, CellTypes
  <2> QED  BY <2>1, MadeCell
<1>3. Allocate(r, <<c>>, FreshIds(1), g_free)  BY DEF make_binding_, MakeCell
<1>4. Refers(mem, id, regs[a], 1, g_free - 1)  BY <1>1 DEF Run, RunRoots
<1> HIDE DEF c
<1> QED  BY <1>1, <1>2, <1>3, <1>4, MakeCellIInv DEF VectorTypes, CdrTypes

LEMMA MakeClosureIInv ==
  ASSUME IInv, NEW r \in Regs, NEW d \in Regs, make_closure_(r, d)
  PROVE  IInv'
<1>1. Types /\ phase = "run" /\ Run  BY DEF IInv, make_closure_, MakeCell
<1> DEFINE c == Cell("TCLOSURE", cell_f, regs[d])
<1>2. c \in Cells /\ c.type = "TCLOSURE" /\ c.cdr = regs[d]
  <2>1. "TCLOSURE" \in CellTypes /\ cell_f \in Int /\ regs[d] \in Int  BY <1>1, Layout DEF Types, CellTypes, cell_f
  <2> QED  BY <2>1, MadeCell
<1>3. Allocate(r, <<c>>, FreshIds(1), g_free)  BY DEF make_closure_, MakeCell
<1>4. Refers(mem, id, regs[d], 1, g_free - 1)  BY <1>1 DEF Run, RunRoots
<1> HIDE DEF c
<1> QED  BY <1>1, <1>2, <1>3, <1>4, MakeCellIInv DEF VectorTypes, CarTypes

LEMMA MakeNumberIInv ==
  ASSUME IInv, NEW r \in Regs, NEW v \in Values, make_number(r, v)
  PROVE  IInv'
<1>1. phase = "run"  BY DEF make_number, MakeCell
<1> DEFINE c == Cell("TNUMBER", 0, v)
<1>2. c \in Cells /\ c.type = "TNUMBER"
  <2>1. "TNUMBER" \in CellTypes /\ 0 \in Int /\ v \in Int  BY SizesAssumption DEF CellTypes
  <2> QED  BY <2>1, MadeCell
<1>3. Allocate(r, <<c>>, FreshIds(1), g_free)  BY DEF make_number, MakeCell
<1> HIDE DEF c
<1> QED  BY <1>1, <1>2, <1>3, MakeCellIInv DEF VectorTypes, CarTypes, CdrTypes

\* A step of the program that changes no cell.
LEMMA QuietIInv ==
  ASSUME IInv, phase = "run", UNCHANGED <<mem, history, g_free, Collector>>,
         g_stack' \in 0 .. STACK_SIZE, g_stack_array' \in [0 .. STACK_SIZE - 1 -> 0 .. g_free],
         \A k \in 0 .. g_stack' - 1 : g_stack_array'[k] = 0,
         regs' \in [Regs -> Addr], globals' \in [Globals -> 0 .. g_free],
         \A r \in Regs : Refers(mem, id, regs'[r], 1, g_free - 1),
         \A g \in Globals : Refers(mem, id, globals'[g], 1, g_free - 1),
         \A k \in g_stack' .. STACK_SIZE - 1 : Refers(mem, id, g_stack_array'[k], 1, g_free - 1)
  PROVE  IInv'
<1>1. Types /\ Run  BY DEF IInv
<1>2. mem' \in [Addr -> Cells] /\ RunCells(mem', id, g_free) /\ \A s \in Symbols : mem'[s] = mem[s]
  BY <1>1 DEF Types, Run
<1>3. RunRoots(mem, id, g_free)'  BY DEF RunRoots, history
<1> QED  BY <1>2, <1>3, RunIInv

\* A register takes what a cell or a register refers to.
LEMMA ReadIInv ==
  ASSUME IInv, NEW r \in Regs, NEW a, Refers(mem, id, a, 1, g_free - 1), Read(r, a)
  PROVE  IInv'
<1>1. Types /\ Run /\ phase = "run"  BY DEF IInv, Read
<1>2. a \in Addr  BY <1>1, Layout DEF Refers, Types
<1>3. regs' \in [Regs -> Addr] /\ \A q \in Regs : Refers(mem, id, regs'[q], 1, g_free - 1)
  BY <1>1, <1>2 DEF Read, Types, Run, RunRoots
<1>4. UNCHANGED <<mem, history, g_free, Collector, g_stack, g_stack_array, globals>>  BY DEF Read
<1> QED  BY <1>1, <1>3, <1>4, QuietIInv DEF Types, Run, RunRoots

\* What a register holds is a sound cell.
LEMMA RegisterIsSound ==
  ASSUME Types, Run, NEW x \in Regs
  PROVE  /\ regs[x] \in 1 .. g_free - 1 /\ regs[x] \in Addr
         /\ Sound(mem, id, regs[x], 1, g_free - 1, g_free)
<1>1. regs[x] \in 1 .. g_free - 1  BY DEF Run, RunRoots, Refers
<1>2. regs[x] \in 0 .. g_free - 1  BY <1>1
<1> QED  BY <1>1, <1>2 DEF Run, RunCells, Types

LEMMA CarIInv ==
  ASSUME IInv, NEW r \in Regs, NEW x \in Regs, car(r, x)
  PROVE  IInv'
<1>1. Types /\ Run  BY DEF IInv, car, Read
<1>2. Refers(mem, id, mem[regs[x]].car, 1, g_free - 1)
  BY <1>1, RegisterIsSound DEF Sound, CarRefers, CarTypes, car
<1> QED  BY <1>2, ReadIInv DEF car

LEMMA CdrIInv ==
  ASSUME IInv, NEW r \in Regs, NEW x \in Regs, cdr(r, x)
  PROVE  IInv'
<1>1. Types /\ Run  BY DEF IInv, cdr, Read
<1>2. Refers(mem, id, mem[regs[x]].cdr, 1, g_free - 1)
  BY <1>1, RegisterIsSound DEF Sound, CdrRefers, CdrTypes, cdr
<1> QED  BY <1>2, ReadIInv DEF cdr

\* A cell that is alone, or in a vector, is replaced by one of its kind.
LEMMA RewrittenCells ==
  ASSUME Types, Run, NEW c \in 0 .. g_free - 1, NEW new \in Cells,
         \/ mem[c].type \notin EntryTypes \cup VectorTypes \cup {"raw", "TBYTES"} /\ new.type = mem[c].type
         \/ mem[c].type \in EntryTypes /\ new.type \in EntryTypes,
         new.type \in CarTypes => Refers(mem, id, new.car, 1, g_free - 1),
         new.type \in CdrTypes => Refers(mem, id, new.cdr, 1, g_free - 1),
         NEW m, m = [mem EXCEPT ![c] = new]
  PROVE  m \in [Addr -> Cells] /\ Alike(mem, id, m, id, g_free) /\ RunCells(m, id, g_free)
<1>1. c \in Addr /\ m \in [Addr -> Cells] /\ m[c] = new /\ (\A a \in Addr : a # c => m[a] = mem[a])
      /\ mem \in [Addr -> Cells]
  BY Layout DEF Types
<1>2. Sound(mem, id, c, 1, g_free - 1, g_free) /\ mem[c].type \notin {"free", "TBROKEN_HEART"}
  BY DEF Run, RunCells, Sound
<1>3. g_free \in Int /\ g_free - 1 \in Int /\ c \in Int /\ c < g_free /\ g_free - 1 < g_free
      /\ g_free <= g_free /\ g_free - 1 <= g_free - 1
  BY Layout DEF Types
<1>4. new.type \notin {"free", "TBROKEN_HEART", "raw", "TBYTES"} \cup VectorTypes
  BY <1>2 DEF EntryTypes, VectorTypes
<1>5. Alike(mem, id, m, id, g_free)
  <2>1. SUFFICES ASSUME NEW j \in 0 .. g_free - 1
                 PROVE  /\ m[j].type = "raw" <=> mem[j].type = "raw"
                        /\ mem[j].type \in EntryTypes \cup {"TBROKEN_HEART"} =>
                              m[j].type \in EntryTypes \cup {"TBROKEN_HEART"}
    BY DEF Alike
  <2>2. CASE j = c  BY <2>2, <1>1, <1>2, <1>4 DEF EntryTypes
  <2>3. CASE j # c  BY <2>3, <1>1, Layout DEF Types
  <2> QED  BY <2>2, <2>3
<1>6. \A p : Refers(mem, id, p, 1, g_free - 1) => Refers(m, id, p, 1, g_free - 1)
  BY <1>3, <1>5, KeepsReference
<1>7. ASSUME NEW a \in 0 .. g_free - 1 PROVE Sound(m, id, a, 1, g_free - 1, g_free)
  <2>1. CASE a = c
    <3>1. CarRefers(m, id, c, 1, g_free - 1)  BY <1>1, <1>6 DEF CarRefers
    <3>2. CdrRefers(m, id, c, 1, g_free - 1)  BY <1>1, <1>6 DEF CdrRefers
    <3>3. m[c].type \notin {"free", "TBROKEN_HEART", "TBYTES"} \cup VectorTypes  BY <1>1, <1>4
    <3> QED  BY <2>1, <3>1, <3>2, <3>3, <1>3, SmallSound
  <2>2. CASE a # c
    <3>1. a \in Addr /\ a < g_free /\ Sound(mem, id, a, 1, g_free - 1, g_free) /\ m[a] = mem[a]
      BY <2>2, <1>1, Layout DEF Run, RunCells, Types
    <3> QED  BY <3>1, <1>1, <1>3, <1>5, KeepsSound
  <2> QED  BY <2>1, <2>2
<1> QED  BY <1>1, <1>5, <1>7 DEF RunCells

\* The program writes cells that are not static symbols.
LEMMA WriteIInv ==
  ASSUME IInv, NEW c \in 0 .. g_free - 1, NEW new \in Cells, c \notin Symbols,
         \/ mem[c].type \notin EntryTypes \cup VectorTypes \cup {"raw", "TBYTES"} /\ new.type = mem[c].type
         \/ mem[c].type \in EntryTypes /\ new.type \in EntryTypes,
         new.type \in CarTypes => Refers(mem, id, new.car, 1, g_free - 1),
         new.type \in CdrTypes => Refers(mem, id, new.cdr, 1, g_free - 1),
         Write([mem EXCEPT ![c] = new])
  PROVE  IInv'
<1>1. Types /\ Run /\ phase = "run"  BY DEF IInv, Write
<1>2. mem' = [mem EXCEPT ![c] = new]  BY DEF Write
<1>3. mem' \in [Addr -> Cells] /\ Alike(mem, id, mem', id, g_free) /\ RunCells(mem', id, g_free)
  BY <1>1, <1>2, RewrittenCells
<1>4. \A s \in Symbols : mem'[s] = mem[s]
  <2>1. \A s \in Symbols : s \in Addr
    BY <1>1, Layout, SizesAssumption DEF Symbols, Types, Run
  <2> QED  BY <1>1, <1>2, <2>1 DEF Types
<1>5. UNCHANGED <<history, g_free, Collector, regs, g_stack, g_stack_array, globals>>  BY DEF Write
<1>6. RunRoots(mem, id, g_free)'
  <2>1. g_free \in Int /\ g_free - 1 \in Int /\ g_free - 1 < g_free /\ g_free - 1 <= g_free - 1
    BY <1>1, Layout DEF Types
  <2>2. \A p : Refers(mem, id, p, 1, g_free - 1) => Refers(mem', id, p, 1, g_free - 1)
    BY <2>1, <1>3, KeepsReference
  <2> QED  BY <2>2, <1>1, <1>5 DEF Run, RunRoots, history
<1> QED  BY <1>1, <1>3, <1>4, <1>5, <1>6, RunIInv DEF Types

\* A pair is no symbol.
LEMMA SymbolsAreSpecial ==
  ASSUME Run, NEW s \in Symbols
  PROVE  mem[s].type = "TSPECIAL"
  BY DEF Run, SymbolAt

LEMMA SetCarIInv ==
  ASSUME IInv, NEW x \in Regs, NEW e \in Regs, set_car_x(x, e)
  PROVE  IInv'
<1>1. Types /\ Run  BY DEF IInv, set_car_x, Write
<1>2. /\ regs[x] \in 1 .. g_free - 1 /\ regs[x] \in Addr /\ mem[regs[x]].type = "TPAIR"
      /\ Sound(mem, id, regs[x], 1, g_free - 1, g_free)
  BY <1>1, RegisterIsSound DEF set_car_x
<1>3. PICK new : new = [mem[regs[x]] EXCEPT !.car = regs[e]]  OBVIOUS
<1>4. new \in Cells /\ new.type = "TPAIR" /\ new.car = regs[e] /\ new.cdr = mem[regs[x]].cdr
  <2>1. mem[regs[x]] \in Cells /\ regs[e] \in Int  BY <1>1, <1>2, Layout DEF Types
  <2> QED  BY <2>1, <1>2, <1>3 DEF Cells
<1>5. [mem EXCEPT ![regs[x]].car = regs[e]] = [mem EXCEPT ![regs[x]] = new]  BY <1>3
<1>6. Write([mem EXCEPT ![regs[x]] = new])  BY <1>5 DEF set_car_x
<1>7. Refers(mem, id, new.car, 1, g_free - 1) /\ Refers(mem, id, new.cdr, 1, g_free - 1)
  BY <1>1, <1>2, <1>4 DEF Run, RunRoots, Sound, CdrRefers, CdrTypes
<1>8. regs[x] \notin Symbols  BY <1>1, <1>2, SymbolsAreSpecial
<1>9. regs[x] \in 0 .. g_free - 1  BY <1>2
<1>10. "TPAIR" \notin EntryTypes \cup VectorTypes \cup {"raw", "TBYTES"}  BY DEF EntryTypes, VectorTypes
<1> QED  BY <1>2, <1>4, <1>6, <1>7, <1>8, <1>9, <1>10, WriteIInv

LEMMA SetCdrIInv ==
  ASSUME IInv, NEW x \in Regs, NEW e \in Regs, set_cdr_x(x, e)
  PROVE  IInv'
<1>1. Types /\ Run  BY DEF IInv, set_cdr_x, Write
<1>2. /\ regs[x] \in 1 .. g_free - 1 /\ regs[x] \in Addr /\ mem[regs[x]].type = "TPAIR"
      /\ Sound(mem, id, regs[x], 1, g_free - 1, g_free)
  BY <1>1, RegisterIsSound DEF set_cdr_x
<1>3. PICK new : new = [mem[regs[x]] EXCEPT !.cdr = regs[e]]  OBVIOUS
<1>4. new \in Cells /\ new.type = "TPAIR" /\ new.cdr = regs[e] /\ new.car = mem[regs[x]].car
  <2>1. mem[regs[x]] \in Cells /\ regs[e] \in Int  BY <1>1, <1>2, Layout DEF Types
  <2> QED  BY <2>1, <1>2, <1>3 DEF Cells
<1>5. [mem EXCEPT ![regs[x]].cdr = regs[e]] = [mem EXCEPT ![regs[x]] = new]  BY <1>3
<1>6. Write([mem EXCEPT ![regs[x]] = new])  BY <1>5 DEF set_cdr_x
<1>7. Refers(mem, id, new.car, 1, g_free - 1) /\ Refers(mem, id, new.cdr, 1, g_free - 1)
  BY <1>1, <1>2, <1>4 DEF Run, RunRoots, Sound, CarRefers, CarTypes
<1>8. regs[x] \notin Symbols  BY <1>1, <1>2, SymbolsAreSpecial
<1>9. regs[x] \in 0 .. g_free - 1  BY <1>2
<1>10. "TPAIR" \notin EntryTypes \cup VectorTypes \cup {"raw", "TBYTES"}  BY DEF EntryTypes, VectorTypes
<1> QED  BY <1>2, <1>4, <1>6, <1>7, <1>8, <1>9, <1>10, WriteIInv

LEMMA SetGlobalIInv ==
  ASSUME IInv, NEW g \in Assigned, NEW r \in Regs, SetGlobal(g, r)
  PROVE  IInv'
<1>1. Types /\ Run /\ phase = "run"  BY DEF IInv, SetGlobal
<1>2. regs[r] \in 1 .. g_free - 1 /\ Refers(mem, id, regs[r], 1, g_free - 1)
  BY <1>1, RegisterIsSound DEF Run, RunRoots
<1>3. regs[r] \in 0 .. g_free  BY <1>1, <1>2, Layout DEF Types
<1>4. globals' = [globals EXCEPT ![g] = regs[r]]  BY DEF SetGlobal
<1>5. globals' \in [Globals -> 0 .. g_free] /\ \A q \in Globals : Refers(mem, id, globals'[q], 1, g_free - 1)
  BY <1>1, <1>2, <1>3, <1>4 DEF Types, Run, RunRoots
<1>6. UNCHANGED <<mem, history, g_free, Collector, regs, g_stack, g_stack_array>>  BY DEF SetGlobal
<1> QED  BY <1>1, <1>5, <1>6, QuietIInv DEF Types, Run, RunRoots

\* The constant #f.
LEMMA FalseIsASymbol ==
  ASSUME Types, Run
  PROVE  Refers(mem, id, cell_f, 1, g_free - 1) /\ Refers(mem, id, cell_nil, 1, g_free - 1)
<1>1. cell_f \in Symbols /\ cell_nil \in Symbols  BY SizesAssumption DEF cell_f, cell_nil, Symbols
<1>2. \A s \in Symbols : Refers(mem, id, s, 1, g_free - 1)
  <2>1. \A s \in Symbols : s \in 1 .. g_free - 1 /\ mem[s].type = "TSPECIAL" /\ id[s] = s /\ s # NoId
    BY Layout, SizesAssumption DEF Types, Run, Symbols, SymbolAt, NoId
  <2> QED  BY <2>1 DEF Refers
<1> QED  BY <1>1, <1>2

\* What a frame with the registers leaves on the stack.
LEMMA PushedFrame ==
  ASSUME Types, Run, ~(g_stack < GC_FRAME_SIZE)
  PROVE  /\ g_stack - GC_FRAME_SIZE \in 0 .. STACK_SIZE
         /\ g_stack - GC_FRAME_SIZE + GC_FRAME_SIZE <= STACK_SIZE
         /\ Pushed \in [0 .. STACK_SIZE - 1 -> 0 .. g_free]
         /\ \A k \in 0 .. g_stack - GC_FRAME_SIZE - 1 : Pushed[k] = 0
         /\ \A k \in g_stack - GC_FRAME_SIZE .. STACK_SIZE - 1 : Refers(mem, id, Pushed[k], 1, g_free - 1)
<1> DEFINE s == g_stack - GC_FRAME_SIZE
<1>1. /\ NRegs \in Nat \ {0} /\ GC_FRAME_SIZE = NRegs + 1 /\ STACK_SIZE \in Nat /\ g_stack \in 0 .. STACK_SIZE
      /\ g_stack_array \in [0 .. STACK_SIZE - 1 -> 0 .. g_free] /\ g_free \in Nat
      /\ DOMAIN g_stack_array = 0 .. STACK_SIZE - 1
  BY SizesAssumption, Layout DEF Types, GC_FRAME_SIZE
<1>2. s \in 0 .. STACK_SIZE /\ s + GC_FRAME_SIZE <= STACK_SIZE /\ s + NRegs = g_stack - 1  BY <1>1
<1>3. \A p : Refers(mem, id, p, 1, g_free - 1) => p \in 0 .. g_free  BY <1>1 DEF Refers
<1> HIDE DEF s
<1>4. ASSUME NEW k \in s .. g_stack - 1
      PROVE  Refers(mem, id, FrameAt(s)[k], 1, g_free - 1)
  <2>1. k \in s .. s + NRegs  BY <1>1, <1>2
  <2>2. CASE k = s + NRegs  BY <2>1, <2>2, FalseIsASymbol DEF FrameAt
  <2>3. CASE k # s + NRegs
    <3>1. s + NRegs - 1 - k \in Regs  BY <2>1, <2>3, <1>1, <1>2 DEF Regs
    <3>2. FrameAt(s)[k] = regs[s + NRegs - 1 - k]  BY <2>1, <2>3 DEF FrameAt
    <3> QED  BY <3>1, <3>2 DEF Run, RunRoots
  <2> QED  BY <2>2, <2>3
<1>5. Pushed = [k \in 0 .. STACK_SIZE - 1 |-> IF k \in s .. g_stack - 1 THEN FrameAt(s)[k] ELSE g_stack_array[k]]
  BY <1>1 DEF Pushed, s
<1>6. \A k \in 0 .. STACK_SIZE - 1 : Pushed[k] \in 0 .. g_free  BY <1>1, <1>3, <1>4, <1>5
<1>7. Pushed \in [0 .. STACK_SIZE - 1 -> 0 .. g_free]  BY <1>5, <1>6
<1>8. \A k \in 0 .. s - 1 : Pushed[k] = 0  BY <1>1, <1>2, <1>5 DEF Types
<1>9. ASSUME NEW k \in s .. STACK_SIZE - 1 PROVE Refers(mem, id, Pushed[k], 1, g_free - 1)
  <2>1. k \in 0 .. STACK_SIZE - 1  BY <1>1, <1>2
  <2>2. CASE k \in s .. g_stack - 1  BY <2>1, <2>2, <1>4, <1>5
  <2>3. CASE k \notin s .. g_stack - 1
    <3>1. k \in g_stack .. STACK_SIZE - 1 /\ Pushed[k] = g_stack_array[k]  BY <2>1, <2>3, <1>1, <1>2, <1>5
    <3> QED  BY <3>1 DEF Run, RunRoots
  <2> QED  BY <2>2, <2>3
<1> QED  BY <1>2, <1>7, <1>8, <1>9 DEF s

LEMMA PushFrameIInv ==
  ASSUME IInv, gc_push_frame
  PROVE  IInv'
<1>1. Types /\ Run /\ phase = "run"  BY DEF IInv, gc_push_frame
<1>2. CASE g_stack < GC_FRAME_SIZE  BY <1>2, StopIInv DEF gc_push_frame
<1>3. CASE ~(g_stack < GC_FRAME_SIZE)
  <2>1. /\ g_stack_array' = Pushed /\ g_stack' = g_stack - GC_FRAME_SIZE
        /\ UNCHANGED <<mem, history, g_free, regs, globals, Collector>>
    BY <1>3 DEF gc_push_frame
  <2>2. /\ g_stack' \in 0 .. STACK_SIZE /\ g_stack_array' \in [0 .. STACK_SIZE - 1 -> 0 .. g_free]
        /\ \A k \in 0 .. g_stack' - 1 : g_stack_array'[k] = 0
        /\ \A k \in g_stack' .. STACK_SIZE - 1 : Refers(mem, id, g_stack_array'[k], 1, g_free - 1)
    BY <1>1, <1>3, <2>1, PushedFrame
  <2> QED  BY <1>1, <2>1, <2>2, QuietIInv DEF Types, Run, RunRoots
<1> QED  BY <1>2, <1>3

\* Popping a frame from stack a takes registers that are in it.
LEMMA PoppedFrame ==
  ASSUME g_stack \in 0 .. STACK_SIZE, g_stack + GC_FRAME_SIZE <= STACK_SIZE, NEW top \in Nat,
         NEW a, DOMAIN a = 0 .. STACK_SIZE - 1, \A k \in g_stack .. STACK_SIZE - 1 : a[k] \in 0 .. top
  PROVE  /\ g_stack + GC_FRAME_SIZE \in 0 .. STACK_SIZE
         /\ \A r \in Regs : g_stack + NRegs - 1 - r \in g_stack .. STACK_SIZE - 1
                            /\ Popped(a)[r] = a[g_stack + NRegs - 1 - r]
         /\ Cleared(a) \in [0 .. STACK_SIZE - 1 -> 0 .. top]
         /\ \A k \in 0 .. g_stack + GC_FRAME_SIZE - 1 : Cleared(a)[k] = 0
         /\ \A k \in g_stack + GC_FRAME_SIZE .. STACK_SIZE - 1 :
              k \in g_stack .. STACK_SIZE - 1 /\ Cleared(a)[k] = a[k]
<1>1. NRegs \in Nat \ {0} /\ GC_FRAME_SIZE = NRegs + 1 /\ STACK_SIZE \in Nat
  BY SizesAssumption DEF GC_FRAME_SIZE
<1>2. g_stack + GC_FRAME_SIZE \in 0 .. STACK_SIZE  BY <1>1
<1>3. \A r \in Regs : g_stack + NRegs - 1 - r \in g_stack .. STACK_SIZE - 1
                      /\ Popped(a)[r] = a[g_stack + NRegs - 1 - r]
  BY <1>1 DEF Regs, Popped
<1>4. Cleared(a) = [k \in 0 .. STACK_SIZE - 1 |-> IF k < g_stack + GC_FRAME_SIZE THEN 0 ELSE a[k]]
  BY DEF Cleared
<1>5. \A k \in 0 .. STACK_SIZE - 1 : ~(k < g_stack + GC_FRAME_SIZE) => k \in g_stack .. STACK_SIZE - 1
  BY <1>1
<1>6. Cleared(a) \in [0 .. STACK_SIZE - 1 -> 0 .. top]  BY <1>4, <1>5
<1>7. \A k \in 0 .. g_stack + GC_FRAME_SIZE - 1 : Cleared(a)[k] = 0  BY <1>1, <1>4
<1>8. \A k \in g_stack + GC_FRAME_SIZE .. STACK_SIZE - 1 :
         k \in g_stack .. STACK_SIZE - 1 /\ Cleared(a)[k] = a[k]
  BY <1>1, <1>4
<1> QED  BY <1>2, <1>3, <1>6, <1>7, <1>8

LEMMA PopFrameIInv ==
  ASSUME IInv, gc_pop_frame
  PROVE  IInv'
<1>1. Types /\ Run /\ phase = "run"  BY DEF IInv, gc_pop_frame
<1>2. /\ regs' = Popped(g_stack_array) /\ g_stack_array' = Cleared(g_stack_array)
      /\ g_stack' = g_stack + GC_FRAME_SIZE /\ g_stack + GC_FRAME_SIZE <= STACK_SIZE
      /\ UNCHANGED <<mem, history, g_free, globals, Collector>>
  BY DEF gc_pop_frame
<1>3. /\ g_stack \in 0 .. STACK_SIZE /\ DOMAIN g_stack_array = 0 .. STACK_SIZE - 1 /\ g_free \in Nat
      /\ \A k \in g_stack .. STACK_SIZE - 1 : g_stack_array[k] \in 0 .. g_free
  BY <1>1, SizesAssumption, Layout DEF Types
<1>4. /\ g_stack' \in 0 .. STACK_SIZE /\ g_stack_array' \in [0 .. STACK_SIZE - 1 -> 0 .. g_free]
      /\ \A k \in 0 .. g_stack' - 1 : g_stack_array'[k] = 0
      /\ \A k \in g_stack' .. STACK_SIZE - 1 : Refers(mem, id, g_stack_array'[k], 1, g_free - 1)
      /\ \A r \in Regs : Refers(mem, id, regs'[r], 1, g_free - 1)
  <2>1. /\ g_stack + GC_FRAME_SIZE \in 0 .. STACK_SIZE
        /\ \A r \in Regs : g_stack + NRegs - 1 - r \in g_stack .. STACK_SIZE - 1
                           /\ Popped(g_stack_array)[r] = g_stack_array[g_stack + NRegs - 1 - r]
        /\ Cleared(g_stack_array) \in [0 .. STACK_SIZE - 1 -> 0 .. g_free]
        /\ \A k \in 0 .. g_stack + GC_FRAME_SIZE - 1 : Cleared(g_stack_array)[k] = 0
        /\ \A k \in g_stack + GC_FRAME_SIZE .. STACK_SIZE - 1 :
             k \in g_stack .. STACK_SIZE - 1 /\ Cleared(g_stack_array)[k] = g_stack_array[k]
    BY <1>2, <1>3, PoppedFrame
  <2>2. \A k \in g_stack .. STACK_SIZE - 1 : Refers(mem, id, g_stack_array[k], 1, g_free - 1)
    BY <1>1 DEF Run, RunRoots
  <2>3. ASSUME NEW r \in Regs PROVE Refers(mem, id, regs'[r], 1, g_free - 1)
    BY <1>2, <2>1, <2>2
  <2>4. ASSUME NEW k \in g_stack' .. STACK_SIZE - 1 PROVE Refers(mem, id, g_stack_array'[k], 1, g_free - 1)
    BY <1>2, <2>1, <2>2
  <2>5. g_stack' \in 0 .. STACK_SIZE /\ g_stack_array' \in [0 .. STACK_SIZE - 1 -> 0 .. g_free]
    BY <1>2, <2>1
  <2>6. ASSUME NEW k \in 0 .. g_stack' - 1 PROVE g_stack_array'[k] = 0
    <3>1. g_stack' = g_stack + GC_FRAME_SIZE /\ g_stack \in Int /\ GC_FRAME_SIZE \in Int
      BY <1>2, <1>3, SizesAssumption DEF GC_FRAME_SIZE
    <3>2. k \in 0 .. g_stack + GC_FRAME_SIZE - 1  BY <3>1
    <3> QED  BY <3>2, <1>2, <2>1
  <2> QED  BY <2>3, <2>4, <2>5, <2>6
<1>5. regs' \in [Regs -> Addr]
  <2>1. \A p : Refers(mem, id, p, 1, g_free - 1) => p \in Addr  BY <1>1, Layout DEF Types, Refers
  <2> QED  BY <1>2, <1>4, <2>1 DEF Popped
<1> QED  BY <1>1, <1>2, <1>4, <1>5, QuietIInv DEF Types, Run, RunRoots

\* The identities of a block of n objects with l other cells behind them.
Identities(ids, n, l) ==
  /\ ids \in Seq(Ids \cup {NoId}) /\ Len(ids) = n + l
  /\ \A k \in 1 .. n : ids[k] \in Ids /\ ids[k] \in Fresh
  /\ \A k \in n + 1 .. n + l : ids[k] = NoId
  /\ \A k \in 1 .. Len(ids) : ids[k] = NoId \/ ids[k] \in Fresh
  /\ \A j, k \in 1 .. Len(ids) : ids[j] = ids[k] /\ ids[j] # NoId => j = k

\* The same with cells that have no identity behind them.
LEMMA FreshPadded ==
  ASSUME Types, Homes(id, home, g_free), NEW n \in Nat, NEW l \in Nat, g_free + n <= ARENA_SIZE,
         NEW p \in [1 .. l -> {NoId}]
  PROVE  Identities(FreshIds(n) \o p, n, l)
<1> DEFINE ids == FreshIds(n) \o p
           f == FreshIds(n)
           S == Ids \cup {NoId}
<1>1. f \in [1 .. n -> Fresh] /\ \A j, k \in 1 .. n : f[j] = f[k] => j = k
  BY FreshIdsExist
<1>2. Fresh \subseteq Ids  BY DEF Fresh
<1>3. f \in [1 .. n -> S]  BY <1>1, <1>2
<1>4. NoId \in S /\ ids = f \o p  OBVIOUS
<1> HIDE DEF f, S, ids
<1>5. f \in Seq(S)  BY <1>3, SeqDef
<1>6. Len(f) = n  BY <1>3, <1>5, LenProperties
<1>7. /\ ids \in Seq(S) /\ Len(ids) = n + l
      /\ \A i \in 1 .. n : ids[i] = f[i]
      /\ \A i \in n + 1 .. n + l : ids[i] = NoId
  <2>1. p \in [1 .. l -> S] /\ \A k \in 1 .. l : p[k] = NoId  BY <1>4
  <2>2. p \in Seq(S) /\ Len(p) = l  BY <2>1, FunctionIsSeq
  <2>p. \A k \in 1 .. Len(p) : p[k] = NoId  BY <2>1, <2>2
  <2>3. /\ f \o p \in Seq(S) /\ Len(f \o p) = Len(f) + Len(p)
        /\ \A i \in 1 .. Len(f) : (f \o p)[i] = f[i]
        /\ \A i \in Len(f) + 1 .. Len(f) + Len(p) : i - Len(f) \in 1 .. Len(p) /\ (f \o p)[i] = p[i - Len(f)]
    BY <1>5, <2>2, Joined
  <2> QED  BY <2>p, <2>2, <2>3, <1>4, <1>6
<1>8. \A k \in 1 .. n : ids[k] \in Ids /\ ids[k] \in Fresh  BY <1>1, <1>2, <1>7
<1>9. \A k \in 1 .. Len(ids) : k \in 1 .. n \/ ids[k] = NoId  BY <1>7
<1>10. \A k \in 1 .. Len(ids) : ids[k] = NoId \/ ids[k] \in Fresh  BY <1>8, <1>9
<1>11. \A j, k \in 1 .. Len(ids) : ids[j] = ids[k] /\ ids[j] # NoId => j = k
  BY <1>1, <1>7, <1>9
<1> QED  BY <1>7, <1>8, <1>10, <1>11 DEF S, ids, Identities

LEMMA StringMade ==
  ASSUME Types, Homes(id, home, g_free), NEW r, NEW v \in Values, make_string(r, v)
  PROVE  \/ Stop("out of memory")
         \/ \E block, ids : /\ Allocates(r, block, ids, g_free) /\ Identities(ids, 2, 2)
                            /\ Len(block) = 4
                            /\ block[1] = Cell("TSTRING", 1, g_free + 1) /\ block[2] = Cell("TBYTES", 2, v)
                            /\ block[3] = RawCell /\ block[4] = RawCell
<1>2. g_free \in Nat \ {0} /\ ARENA_SIZE \in Nat  BY Layout DEF Types
<1> DEFINE head == <<Cell("TSTRING", 1, g_free + 1), Cell("TBYTES", 2, v)>>
           raws == [k \in 1 .. 2 |-> RawCell]
           noIds == [k \in 1 .. 2 |-> NoId]
           block == head \o raws
           ids == FreshIds(2) \o noIds
<1>3. /\ Cell("TSTRING", 1, g_free + 1) \in Cells /\ Cell("TSTRING", 1, g_free + 1).type = "TSTRING"
      /\ Cell("TSTRING", 1, g_free + 1).cdr = g_free + 1
  <2>1. "TSTRING" \in CellTypes /\ 1 \in Int /\ g_free + 1 \in Int  BY <1>2 DEF CellTypes
  <2> QED  BY <2>1, MadeCell
<1>4. /\ Cell("TBYTES", 2, v) \in Cells /\ Cell("TBYTES", 2, v).type = "TBYTES"
      /\ Cell("TBYTES", 2, v).car = 2
  <2>1. "TBYTES" \in CellTypes /\ 2 \in Int /\ v \in Int  BY SizesAssumption DEF CellTypes
  <2> QED  BY <2>1, MadeCell
<1>5. RawCell \in Cells /\ RawCell.type = "raw"
  <2>1. "raw" \in CellTypes /\ 0 \in Int  BY DEF CellTypes
  <2> QED  BY <2>1, MadeCell DEF RawCell
<1>6. head \in Seq(Cells) /\ Len(head) = 2 /\ head[1] = Cell("TSTRING", 1, g_free + 1) /\ head[2] = Cell("TBYTES", 2, v)
  BY <1>3, <1>4
<1>7. bytes_cells(2) - 1 = 2  BY TwoBytes
<1>8. Allocate(r, block, ids, g_free)  BY <1>7 DEF make_string
<1>b. raws \in [1 .. 2 -> {RawCell}] /\ noIds \in [1 .. 2 -> {NoId}]  OBVIOUS
<1>c. block = head \o raws /\ ids = FreshIds(2) \o noIds  OBVIOUS
<1> HIDE DEF head, raws, noIds, block, ids
<1>9. /\ block \in Seq(Cells) /\ Len(block) = 4
      /\ block[1] = Cell("TSTRING", 1, g_free + 1) /\ block[2] = Cell("TBYTES", 2, v)
      /\ block[3] = RawCell /\ block[4] = RawCell
  <2>1. raws \in [1 .. 2 -> Cells] /\ \A k \in 1 .. 2 : raws[k] = RawCell  BY <1>b, <1>5
  <2>2. raws \in Seq(Cells) /\ Len(raws) = 2  BY <2>1, FunctionIsSeq
  <2>p. \A k \in 1 .. Len(raws) : raws[k] = RawCell  BY <2>1, <2>2
  <2>3. /\ head \o raws \in Seq(Cells) /\ Len(head \o raws) = Len(head) + Len(raws)
        /\ \A i \in 1 .. Len(head) : (head \o raws)[i] = head[i]
        /\ \A i \in Len(head) + 1 .. Len(head) + Len(raws) :
             i - Len(head) \in 1 .. Len(raws) /\ (head \o raws)[i] = raws[i - Len(head)]
    BY <1>6, <2>2, Joined
  <2> QED  BY <2>p, <2>2, <2>3, <1>c, <1>6
<1>10. CASE g_free + Len(block) > ARENA_SIZE
  BY <1>8, <1>10 DEF Allocate
<1>11. CASE ~(g_free + Len(block) > ARENA_SIZE)
  <2>1. g_free + Len(block) <= ARENA_SIZE /\ g_free + 4 <= ARENA_SIZE  BY <1>2, <1>9, <1>11
  <2>2. Identities(ids, 2, 2)
    <3>1. g_free + 2 <= ARENA_SIZE  BY <1>2, <2>1
    <3> QED  BY <1>b, <1>c, <3>1, FreshPadded
  <2>3. Put(block, ids, mem) /\ regs' = [regs EXCEPT ![r] = g_free]
        /\ UNCHANGED <<g_stack, g_stack_array, globals, Collector>>
    BY <1>8, <1>11 DEF Allocate
  <2>4. Makes(block, ids, mem)  BY <1>9, <2>1, <2>2, <2>3 DEF Makes, Identities
  <2> QED  BY <1>9, <2>2, <2>3, <2>4 DEF Allocates
<1> QED  BY <1>10, <1>11

LEMMA MakeStringIInv ==
  ASSUME IInv, NEW r \in Regs, NEW v \in Values, make_string(r, v)
  PROVE  IInv'
<1>1. Types /\ Run /\ phase = "run" /\ Homes(id, home, g_free) /\ mem \in [Addr -> Cells]
  BY DEF IInv, Run, Types, make_string
<1>2. g_free \in Nat \ {0}  BY <1>1 DEF Types
<1>3. /\ Cell("TSTRING", 1, g_free + 1) \in Cells /\ Cell("TSTRING", 1, g_free + 1).type = "TSTRING"
      /\ Cell("TSTRING", 1, g_free + 1).cdr = g_free + 1
  <2>1. "TSTRING" \in CellTypes /\ 1 \in Int /\ g_free + 1 \in Int  BY <1>2 DEF CellTypes
  <2> QED  BY <2>1, MadeCell
<1>4. /\ Cell("TBYTES", 2, v) \in Cells /\ Cell("TBYTES", 2, v).type = "TBYTES"
      /\ Cell("TBYTES", 2, v).car = 2
  <2>1. "TBYTES" \in CellTypes /\ 2 \in Int /\ v \in Int  BY SizesAssumption DEF CellTypes
  <2> QED  BY <2>1, MadeCell
<1>5. RawCell \in Cells /\ RawCell.type = "raw"
  <2>1. "raw" \in CellTypes /\ 0 \in Int  BY DEF CellTypes
  <2> QED  BY <2>1, MadeCell DEF RawCell
<1>6. CASE Stop("out of memory")  BY <1>6, StopIInv
<1>7. ASSUME NEW block, NEW ids, Allocates(r, block, ids, g_free), Identities(ids, 2, 2), Len(block) = 4,
             block[1] = Cell("TSTRING", 1, g_free + 1), block[2] = Cell("TBYTES", 2, v),
             block[3] = RawCell, block[4] = RawCell
      PROVE  IInv'
  <2>2. Len(ids) = 4 /\ ids[1] \in Ids /\ ids[2] \in Ids /\ ids[3] = NoId /\ ids[4] = NoId
    BY <1>7 DEF Identities
  <2>3. regs' = [regs EXCEPT ![r] = g_free] /\ UNCHANGED <<g_stack, g_stack_array, globals, Collector>>
    BY <1>7 DEF Allocates
  <2>4. Makes(block, ids, mem)  BY <1>7 DEF Allocates
  <2>5. /\ g_free' = g_free + Len(block) /\ mem' \in [Addr -> Cells]
        /\ \A k \in 1 .. Len(block) : mem'[g_free + k - 1] = block[k] /\ id'[g_free + k - 1] = ids[k]
    BY <1>1, <2>4, PutMemory
  <2>6. /\ g_free' = g_free + 4
        /\ mem'[g_free] = Cell("TSTRING", 1, g_free + 1) /\ id'[g_free] \in Ids
        /\ mem'[g_free + 1] = Cell("TBYTES", 2, v) /\ id'[g_free + 1] \in Ids
        /\ mem'[g_free + 2].type = "raw" /\ id'[g_free + 2] = NoId
        /\ mem'[g_free + 3].type = "raw" /\ id'[g_free + 3] = NoId
    <3>1. 1 \in 1 .. Len(block) /\ 2 \in 1 .. Len(block) /\ 3 \in 1 .. Len(block) /\ 4 \in 1 .. Len(block)
      BY <1>7
    <3>2. g_free + 1 - 1 = g_free /\ g_free + 2 - 1 = g_free + 1 /\ g_free + 3 - 1 = g_free + 2 /\ g_free + 4 - 1 = g_free + 3
      BY <1>2
    <3> QED  BY <3>1, <3>2, <1>5, <1>7, <2>2, <2>5
  <2>7. NoId \notin Ids  BY Layout DEF NoId, Ids
  <2>8. Refers(mem', id', g_free, 1, g_free' - 1) /\ Refers(mem', id', g_free + 1, 1, g_free' - 1)
    <3>1. g_free \in 1 .. g_free' - 1 /\ g_free + 1 \in 1 .. g_free' - 1  BY <1>2, <2>6
    <3> QED  BY <3>1, <1>3, <1>4, <2>6, <2>7 DEF Refers
  <2>9. Sound(mem', id', g_free, 1, g_free' - 1, g_free')
    <3>1. CarRefers(mem', id', g_free, 1, g_free' - 1)  BY <1>3, <2>6 DEF CarRefers, CarTypes
    <3>2. CdrRefers(mem', id', g_free, 1, g_free' - 1)  BY <1>3, <2>6, <2>8 DEF CdrRefers
    <3>3. mem'[g_free].type \notin {"free", "TBROKEN_HEART", "TBYTES"} \cup VectorTypes
      BY <1>3, <2>6 DEF VectorTypes
    <3>4. g_free \in Int /\ g_free' \in Int /\ g_free < g_free'  BY <1>2, <2>6
    <3> QED  BY <3>1, <3>2, <3>3, <3>4, SmallSound
  <2>10. Sound(mem', id', g_free + 1, 1, g_free' - 1, g_free')
    <3>1. Size(mem'[g_free + 1]) = 3  BY <1>4, <2>6, TwoBytes DEF Size, VectorTypes
    <3>2. Rest(mem', g_free + 1) = {g_free + 2, g_free + 3}  BY <3>1, <1>2 DEF Rest
    <3>3. Shaped(mem', id', g_free + 1, g_free')
      BY <3>1, <3>2, <1>2, <1>4, <2>6 DEF Shaped, VectorTypes
    <3> QED  BY <3>3, <1>4, <2>6 DEF Sound, CarRefers, CdrRefers, CarTypes, CdrTypes
  <2>11. ASSUME NEW a \in {g_free + 2, g_free + 3} PROVE Sound(mem', id', a, 1, g_free' - 1, g_free')
    <3>1. a \in Int /\ g_free' \in Int /\ a < g_free' /\ mem'[a].type = "raw"  BY <1>2, <2>6
    <3>2. CarRefers(mem', id', a, 1, g_free' - 1) /\ CdrRefers(mem', id', a, 1, g_free' - 1)
      BY <3>1 DEF CarRefers, CdrRefers, CarTypes, CdrTypes
    <3>3. mem'[a].type \notin {"free", "TBROKEN_HEART", "TBYTES"} \cup VectorTypes  BY <3>1 DEF VectorTypes
    <3> QED  BY <3>1, <3>2, <3>3, SmallSound
  <2>12. \A k \in 1 .. Len(block) : Sound(mem', id', g_free + k - 1, 1, g_free' - 1, g_free')
    <3>1. \A k \in 1 .. Len(block) : g_free + k - 1 \in {g_free, g_free + 1, g_free + 2, g_free + 3}
      BY <1>2, <1>7
    <3> QED  BY <3>1, <2>9, <2>10, <2>11
  <2> QED  BY <1>1, <2>3, <2>4, <2>8, <2>12, MakeIInv
<1> QED  BY <1>1, <1>6, <1>7, StringMade

\* What a vector stores for an object is a cell that may be in a vector.
LEMMA EntryOfObject ==
  ASSUME Types, Run, NEW x \in Regs
  PROVE  /\ vector_entry(regs[x]) \in Cells
         /\ vector_entry(regs[x]).type \in EntryTypes
         /\ vector_entry(regs[x]).type \in CarTypes =>
              Refers(mem, id, vector_entry(regs[x]).car, 1, g_free - 1)
         /\ vector_entry(regs[x]).type \notin CdrTypes
<1>1. /\ regs[x] \in Addr /\ regs[x] \in Int /\ mem[regs[x]] \in Cells
      /\ Refers(mem, id, regs[x], 1, g_free - 1)
  BY RegisterIsSound, Layout DEF Types, Run, RunRoots
<1>2. CASE IsNumber(regs[x])
  <2>1. mem[regs[x]].type \in {"TCHAR", "TNUMBER"} /\ vector_entry(regs[x]) = mem[regs[x]]
    BY <1>2 DEF IsNumber, vector_entry
  <2> QED  BY <2>1, <1>1 DEF EntryTypes, CarTypes, CdrTypes
<1>3. CASE ~IsNumber(regs[x])
  <2>1. vector_entry(regs[x]) = Cell("TREF", regs[x], 0)  BY <1>3 DEF vector_entry
  <2>2. "TREF" \in CellTypes /\ 0 \in Int  BY DEF CellTypes
  <2>3. /\ Cell("TREF", regs[x], 0) \in Cells /\ Cell("TREF", regs[x], 0).type = "TREF"
        /\ Cell("TREF", regs[x], 0).car = regs[x]
    BY <1>1, <2>2, MadeCell
  <2> QED  BY <2>1, <2>3, <1>1 DEF EntryTypes, CdrTypes
<1> QED  BY <1>2, <1>3

\* A cell of a vector is sound.
LEMMA EntrySound ==
  ASSUME NEW m, NEW i, NEW a \in Int, NEW hi, NEW top \in Int, a < top,
         m[a].type \in EntryTypes, CarRefers(m, i, a, 1, hi)
  PROVE  Sound(m, i, a, 1, hi, top)
<1>1. m[a].type \notin {"free", "TBROKEN_HEART", "TBYTES"} \cup VectorTypes  BY DEF EntryTypes, VectorTypes
<1>2. CdrRefers(m, i, a, 1, hi)  BY DEF EntryTypes, CdrRefers, CdrTypes
<1> QED  BY <1>1, <1>2, SmallSound

\* A vector with room for k elements, and behind it as many cells again when
\* they are made for the elements.
LEMMA VectorMade ==
  ASSUME Types, Run, NEW r, NEW e \in Regs, NEW k \in Lengths, make_vector_(r, k, e)
  PROVE  \/ Stop("out of memory")
         \/ \E block, ids : \E n \in Nat :
              /\ Allocates(r, block, ids, g_free) /\ Identities(ids, 1, n)
              /\ k <= n /\ Len(block) = 1 + n
              /\ block[1] = Cell("TVECTOR", k, g_free + 1)
              /\ \A j \in 2 .. n + 1 : block[j] = vector_entry(regs[e])
<1>1. Homes(id, home, g_free) /\ phase = "run"  BY DEF Run, make_vector_
<1>2. g_free \in Nat \ {0} /\ ARENA_SIZE \in Nat /\ k \in Nat
  BY Layout, SizesAssumption DEF Types
<1> DEFINE n == k + EntryCells(regs[e], k)
           entry == vector_entry(regs[e])
           head == <<Cell("TVECTOR", k, g_free + 1)>>
           entries == [j \in 1 .. n |-> entry]
           noIds == [j \in 1 .. n |-> NoId]
           block == head \o entries
           ids == FreshIds(1) \o noIds
<1>3. n \in Nat /\ k <= n  BY <1>2 DEF EntryCells
<1>4. /\ Cell("TVECTOR", k, g_free + 1) \in Cells /\ Cell("TVECTOR", k, g_free + 1).type = "TVECTOR"
      /\ Cell("TVECTOR", k, g_free + 1).car = k /\ Cell("TVECTOR", k, g_free + 1).cdr = g_free + 1
  <2>1. "TVECTOR" \in CellTypes /\ k \in Int /\ g_free + 1 \in Int  BY <1>2 DEF CellTypes
  <2> QED  BY <2>1, MadeCell
<1>5. /\ entry \in Cells /\ entry.type \in EntryTypes /\ entry.type \notin CdrTypes
      /\ entry.type \in CarTypes => Refers(mem, id, entry.car, 1, g_free - 1)
  BY <1>1, EntryOfObject
<1>6. head \in Seq(Cells) /\ Len(head) = 1 /\ head[1] = Cell("TVECTOR", k, g_free + 1)  BY <1>4
<1>7. Allocate(r, block, ids, g_free)  BY DEF make_vector_
<1> HIDE DEF entry
<1>8. /\ entries \in [1 .. n -> Cells] /\ \A j \in 1 .. n : entries[j] = entry
  BY <1>5
<1>9. noIds \in [1 .. n -> {NoId}]  OBVIOUS
<1>10. block = head \o entries /\ ids = FreshIds(1) \o noIds  OBVIOUS
<1> HIDE DEF n, head, entries, noIds, block, ids
<1>11. /\ block \in Seq(Cells) /\ Len(block) = 1 + n
       /\ block[1] = Cell("TVECTOR", k, g_free + 1)
       /\ \A j \in 2 .. n + 1 : block[j] = entry
  <2>1. entries \in Seq(Cells) /\ Len(entries) = n  BY <1>3, <1>8, FunctionIsSeq
  <2>2. /\ head \o entries \in Seq(Cells) /\ Len(head \o entries) = Len(head) + Len(entries)
        /\ \A i \in 1 .. Len(head) : (head \o entries)[i] = head[i]
        /\ \A i \in Len(head) + 1 .. Len(head) + Len(entries) :
             i - Len(head) \in 1 .. Len(entries) /\ (head \o entries)[i] = entries[i - Len(head)]
    BY <1>6, <2>1, Joined
  <2>3. \A j \in 2 .. n + 1 : j \in 1 + 1 .. 1 + n /\ j - 1 \in 1 .. n  BY <1>3
  <2>4. block \in Seq(Cells) /\ Len(block) = 1 + n /\ block[1] = head[1]  BY <2>1, <2>2, <1>6, <1>10
  <2>5. \A j \in 2 .. n + 1 : block[j] = entries[j - 1]  BY <2>1, <2>2, <2>3, <1>6, <1>10
  <2> QED  BY <2>3, <2>4, <2>5, <1>6, <1>8
<1>12. CASE g_free + Len(block) > ARENA_SIZE
  BY <1>7, <1>12 DEF Allocate
<1>13. CASE ~(g_free + Len(block) > ARENA_SIZE)
  <2>1. g_free + Len(block) <= ARENA_SIZE /\ g_free + 1 <= ARENA_SIZE  BY <1>2, <1>3, <1>11, <1>13
  <2>2. Identities(ids, 1, n)  BY <2>1, <1>1, <1>3, <1>9, <1>10, FreshPadded
  <2>3. Put(block, ids, mem) /\ regs' = [regs EXCEPT ![r] = g_free]
        /\ UNCHANGED <<g_stack, g_stack_array, globals, Collector>>
    BY <1>7, <1>13 DEF Allocate
  <2>4. Makes(block, ids, mem)  BY <1>3, <1>11, <2>1, <2>2, <2>3 DEF Makes, Identities
  <2> QED  BY <1>3, <1>11, <2>2, <2>3, <2>4 DEF Allocates, entry
<1> QED  BY <1>12, <1>13

LEMMA MakeVectorIInv ==
  ASSUME IInv, NEW r \in Regs, NEW e \in Regs, NEW k \in Lengths, make_vector_(r, k, e)
  PROVE  IInv'
<1>1. Types /\ Run /\ phase = "run" /\ Homes(id, home, g_free) /\ mem \in [Addr -> Cells]
  BY DEF IInv, Run, Types, make_vector_
<1>2. g_free \in Nat \ {0} /\ k \in Nat  BY <1>1, SizesAssumption DEF Types
<1> DEFINE entry == vector_entry(regs[e])
<1>4. /\ Cell("TVECTOR", k, g_free + 1) \in Cells /\ Cell("TVECTOR", k, g_free + 1).type = "TVECTOR"
      /\ Cell("TVECTOR", k, g_free + 1).car = k /\ Cell("TVECTOR", k, g_free + 1).cdr = g_free + 1
  <2>1. "TVECTOR" \in CellTypes /\ k \in Int /\ g_free + 1 \in Int  BY <1>2 DEF CellTypes
  <2> QED  BY <2>1, MadeCell
<1>5. /\ entry \in Cells /\ entry.type \in EntryTypes /\ entry.type \notin CdrTypes
      /\ entry.type \in CarTypes => Refers(mem, id, entry.car, 1, g_free - 1)
  BY <1>1, EntryOfObject
<1> HIDE DEF entry
<1>6. CASE Stop("out of memory")  BY <1>6, StopIInv
<1>7. ASSUME NEW block, NEW ids, NEW n \in Nat, Allocates(r, block, ids, g_free), Identities(ids, 1, n), k <= n,
             Len(block) = 1 + n, block[1] = Cell("TVECTOR", k, g_free + 1), \A j \in 2 .. n + 1 : block[j] = entry
      PROVE  IInv'
  <2>2. Identities(ids, 1, n)  BY <1>7
  <2>3. regs' = [regs EXCEPT ![r] = g_free] /\ UNCHANGED <<g_stack, g_stack_array, globals, Collector>>
    BY <1>7 DEF Allocates
  <2>4. Makes(block, ids, mem)  BY <1>7 DEF Allocates
  <2>5. /\ g_free' = g_free + Len(block) /\ mem' \in [Addr -> Cells]
        /\ \A j \in 1 .. Len(block) : mem'[g_free + j - 1] = block[j] /\ id'[g_free + j - 1] = ids[j]
    BY <1>1, <2>4, PutMemory
  <2>6. g_free' = g_free + 1 + n /\ g_free' \in Int  BY <1>2, <1>7, <1>7, <2>5
  <2>7. mem'[g_free] = Cell("TVECTOR", k, g_free + 1) /\ id'[g_free] \in Ids
    <3>1. 1 \in 1 .. Len(block) /\ g_free + 1 - 1 = g_free /\ 1 \in 1 .. 1  BY <1>2, <1>7, <1>7
    <3> QED  BY <3>1, <1>7, <2>2, <2>5 DEF Identities
  <2>8. ASSUME NEW a \in g_free + 1 .. g_free + n PROVE mem'[a] = entry /\ id'[a] = NoId
    <3>1. a - g_free + 1 \in 1 .. Len(block) /\ a - g_free + 1 \in 2 .. n + 1
          /\ g_free + (a - g_free + 1) - 1 = a
      BY <1>2, <1>7, <1>7
    <3>2. a - g_free + 1 \in 1 + 1 .. 1 + n  BY <1>2, <1>7
    <3> QED  BY <3>1, <3>2, <1>7, <2>2, <2>5 DEF Identities
  <2>9. \A p : Refers(mem, id, p, 1, g_free - 1) => Refers(mem', id', p, 1, g_free' - 1)
    <3>1. Alike(mem, id, mem, id, g_free)  BY DEF Alike
    <3> QED  BY <3>1, <1>1, <2>4, PutReference
  <2>10. NoId \notin Ids  BY Layout DEF NoId, Ids
  <2>11. Refers(mem', id', g_free, 1, g_free' - 1)
    <3>1. g_free \in 1 .. g_free' - 1  BY <1>2, <1>7, <2>6
    <3> QED  BY <3>1, <1>4, <2>7, <2>10 DEF Refers
  <2>12. Sound(mem', id', g_free, 1, g_free' - 1, g_free')
    <3>1. Size(mem'[g_free]) = 1 + k  BY <1>4, <2>7 DEF Size, VectorTypes
    <3>2. \A j \in Rest(mem', g_free) : j \in g_free + 1 .. g_free + n
      BY <3>1, <1>2, <1>7 DEF Rest
    <3>3. \A j \in Rest(mem', g_free) : mem'[j].type \in EntryTypes /\ id'[j] = NoId
      BY <3>2, <2>8, <1>5
    <3>4. g_free + Size(mem'[g_free]) <= g_free'  BY <3>1, <2>6, <1>2, <1>7
    <3>5. Shaped(mem', id', g_free, g_free')
      BY <3>3, <3>4, <1>2, <1>4, <2>7 DEF Shaped
    <3> QED  BY <3>5, <1>4, <2>7 DEF Sound, CarRefers, CdrRefers, CarTypes, CdrTypes
  <2>13. ASSUME NEW a \in g_free + 1 .. g_free + n PROVE Sound(mem', id', a, 1, g_free' - 1, g_free')
    <3>1. CarRefers(mem', id', a, 1, g_free' - 1)  BY <2>8, <2>9, <1>5 DEF CarRefers
    <3>2. a \in Int /\ a < g_free' /\ mem'[a].type \in EntryTypes  BY <2>6, <2>8, <1>2, <1>7, <1>5
    <3> QED  BY <3>1, <3>2, <2>6, EntrySound
  <2>14. \A j \in 1 .. Len(block) : Sound(mem', id', g_free + j - 1, 1, g_free' - 1, g_free')
    <3>1. \A j \in 1 .. Len(block) : g_free + j - 1 = g_free \/ g_free + j - 1 \in g_free + 1 .. g_free + n
      BY <1>2, <1>7, <1>7
    <3> QED  BY <3>1, <2>12, <2>13
  <2> QED  BY <1>1, <2>3, <2>4, <2>11, <2>14, MakeIInv
<1> QED  BY <1>1, <1>6, <1>7, VectorMade DEF entry

\* An element of a vector in a register.
LEMMA ElementIsEntry ==
  ASSUME Types, Run, NEW x \in Regs, IsVector(regs[x]), NEW i \in Nat, i < mem[regs[x]].car
  PROVE  /\ mem[regs[x]].cdr + i \in 1 .. g_free - 1 /\ mem[regs[x]].cdr + i \in 0 .. g_free - 1
         /\ mem[regs[x]].cdr + i \in Addr
         /\ Element(regs[x], i) \in Cells /\ Element(regs[x], i).type \in EntryTypes
         /\ Element(regs[x], i).type \in CarTypes =>
              Refers(mem, id, Element(regs[x], i).car, 1, g_free - 1)
<1> DEFINE v == regs[x]
           c == mem[regs[x]].cdr + i
<1>1. v \in 1 .. g_free - 1 /\ v \in Addr /\ Sound(mem, id, v, 1, g_free - 1, g_free) /\ g_free \in 1 .. MemTop
  BY RegisterIsSound DEF Types
<1>2. mem[v].type \in VectorTypes  BY DEF IsVector, VectorTypes
<1>3. mem[v].cdr = v + 1 /\ mem[v].car \in Nat /\ Size(mem[v]) = 1 + mem[v].car
      /\ v + Size(mem[v]) <= g_free
  BY <1>1, <1>2 DEF Sound, Shaped, Size
<1>4. c \in Rest(mem, v) /\ c \in 1 .. g_free - 1 /\ c \in 0 .. g_free - 1
  BY <1>1, <1>3 DEF Rest
<1>5. c \in Addr /\ mem[c] \in Cells
  <2>1. \A f \in 1 .. MemTop : \A p \in 1 .. f - 1 : p \in 0 .. MemTop - 1  BY Layout
  <2> QED  BY <2>1, <1>1, <1>4, Layout DEF Types
<1>6. Sound(mem, id, c, 1, g_free - 1, g_free)  BY <1>4 DEF Run, RunCells
<1>7. mem[c].type \in EntryTypes
  <2>1. mem[c].type \in EntryTypes \cup {"TBROKEN_HEART"}  BY <1>1, <1>2, <1>4 DEF Sound, Shaped
  <2> QED  BY <2>1, <1>6 DEF Sound
<1> QED  BY <1>4, <1>5, <1>6, <1>7 DEF Element, Sound, CarRefers

LEMMA VectorRefIInv ==
  ASSUME IInv, NEW r \in Regs, NEW x \in Regs, NEW i \in 0 .. ARENA_SIZE, vector_ref_(r, x, i)
  PROVE  IInv'
<1>1. Types /\ Run /\ phase = "run"  BY DEF IInv, vector_ref_
<1>2. IsVector(regs[x]) /\ i < mem[regs[x]].car /\ i \in Nat  BY Layout DEF vector_ref_
<1> DEFINE e == Element(regs[x], i)
<1>3. e \in Cells /\ e.type \in EntryTypes /\ (e.type \in CarTypes => Refers(mem, id, e.car, 1, g_free - 1))
  BY <1>1, <1>2, ElementIsEntry
<1>4. CASE e.type = "TREF"
  <2>1. Refers(mem, id, e.car, 1, g_free - 1)  BY <1>3, <1>4 DEF CarTypes
  <2>2. Read(r, e.car)  BY <1>1, <1>4 DEF vector_ref_, Read
  <2> QED  BY <2>1, <2>2, ReadIInv
<1>5. CASE e.type # "TREF"
  <2> DEFINE c == Cell("TNUMBER", 0, e.cdr)
  <2>1. c \in Cells /\ c.type = "TNUMBER"
    <3>1. "TNUMBER" \in CellTypes /\ 0 \in Int /\ e.cdr \in Int  BY <1>3 DEF CellTypes, Cells
    <3> QED  BY <3>1, MadeCell
  <2>2. Allocate(r, <<c>>, FreshIds(1), g_free)  BY <1>5 DEF vector_ref_
  <2> HIDE DEF c
  <2> QED  BY <1>1, <2>1, <2>2, MakeCellIInv DEF VectorTypes, CarTypes, CdrTypes
<1> QED  BY <1>4, <1>5

\* Element i of the vector in x becomes the object in e, in memory m, and a
\* cell may be made for that.
SetsElement(x, i, e, m, block, ids) ==
  /\ m = [mem EXCEPT ![mem[regs[x]].cdr + i] = vector_entry(regs[e])]
  /\ m \in [Addr -> Cells] /\ Alike(mem, id, m, id, g_free) /\ RunCells(m, id, g_free)
  /\ Makes(block, ids, m)
  /\ \A k \in 1 .. Len(block) : block[k] = vector_entry(regs[e]) /\ ids[k] = NoId
  /\ UNCHANGED <<regs, g_stack, g_stack_array, globals, Collector>>

LEMMA VectorSetMade ==
  ASSUME Types, Run, NEW x \in Regs, NEW e \in Regs, NEW i \in 0 .. ARENA_SIZE, vector_set_x_(x, i, e)
  PROVE  Stop("out of memory") \/ \E m, block, ids : SetsElement(x, i, e, m, block, ids)
<1>2. IsVector(regs[x]) /\ i < mem[regs[x]].car /\ i \in Nat
  <2>1. i \in Nat  BY Layout
  <2>2. IsVector(regs[x]) /\ i < mem[regs[x]].car  BY DEF vector_set_x_
  <2> QED  BY <2>1, <2>2
<1>3. g_free \in Nat \ {0} /\ ARENA_SIZE \in Nat  BY Layout DEF Types
<1> DEFINE entry == vector_entry(regs[e])
           n == EntryCells(regs[e], 1)
           c == mem[regs[x]].cdr + i
           m == [mem EXCEPT ![c] = entry]
           block == [j \in 1 .. n |-> entry]
           ids == [j \in 1 .. n |-> NoId]
<1>4. n \in {0, 1}  BY DEF EntryCells
<1>5. /\ entry \in Cells /\ entry.type \in EntryTypes /\ entry.type \notin CdrTypes
      /\ entry.type \in CarTypes => Refers(mem, id, entry.car, 1, g_free - 1)
  BY EntryOfObject
<1>6. c \in 0 .. g_free - 1 /\ c \in Addr /\ mem[c].type \in EntryTypes
  BY <1>2, ElementIsEntry DEF Element
<1>7. IF g_free + n > ARENA_SIZE THEN Stop("out of memory")
      ELSE Put(block, ids, m) /\ UNCHANGED <<regs, g_stack, g_stack_array, globals, Collector>>
  BY DEF vector_set_x_
<1>8. m = [mem EXCEPT ![c] = entry]  OBVIOUS
<1>9. /\ block \in [1 .. n -> Cells] /\ \A j \in 1 .. n : block[j] = entry
      /\ ids \in [1 .. n -> Ids \cup {NoId}] /\ \A j \in 1 .. n : ids[j] = NoId
  BY <1>5
<1> HIDE DEF entry, n, c, m, block, ids
<1>10. m \in [Addr -> Cells] /\ Alike(mem, id, m, id, g_free) /\ RunCells(m, id, g_free)
  BY <1>5, <1>6, <1>8, RewrittenCells
<1>13. CASE ~(g_free + n > ARENA_SIZE)
  <2>1. Put(block, ids, m) /\ UNCHANGED <<regs, g_stack, g_stack_array, globals, Collector>>
    BY <1>7, <1>13
  <2>2. /\ block \in Seq(Cells) /\ Len(block) = n /\ ids \in Seq(Ids \cup {NoId}) /\ Len(ids) = n
        /\ g_free + n <= ARENA_SIZE
    BY <1>3, <1>4, <1>9, <1>13, FunctionIsSeq
  <2>3. Makes(block, ids, m)  BY <1>9, <2>1, <2>2 DEF Makes
  <2>4. \A k \in 1 .. Len(block) : block[k] = entry /\ ids[k] = NoId  BY <1>9, <2>2
  <2> QED  BY <1>8, <1>10, <2>1, <2>3, <2>4 DEF entry, c, SetsElement
<1> QED  BY <1>7, <1>13

LEMMA VectorSetIInv ==
  ASSUME IInv, NEW x \in Regs, NEW e \in Regs, NEW i \in 0 .. ARENA_SIZE, vector_set_x_(x, i, e)
  PROVE  IInv'
<1>1. Types /\ Run /\ phase = "run" /\ Homes(id, home, g_free)  BY DEF IInv, Run, vector_set_x_
<1>2. IsVector(regs[x]) /\ i < mem[regs[x]].car /\ i \in Nat
  <2>1. i \in Nat  BY Layout
  <2>2. IsVector(regs[x]) /\ i < mem[regs[x]].car  BY DEF vector_set_x_
  <2> QED  BY <2>1, <2>2
<1> DEFINE entry == vector_entry(regs[e])
           c == mem[regs[x]].cdr + i
<1>3. /\ entry.type \in EntryTypes
      /\ entry.type \in CarTypes => Refers(mem, id, entry.car, 1, g_free - 1)
  BY <1>1, EntryOfObject
<1>4. c \in 0 .. g_free - 1 /\ mem[c].type \in EntryTypes
  BY <1>1, <1>2, ElementIsEntry DEF Element
<1> HIDE DEF entry, c
<1>5. CASE Stop("out of memory")  BY <1>5, StopIInv
<1>6. ASSUME NEW m, NEW block, NEW ids, SetsElement(x, i, e, m, block, ids) PROVE IInv'
  <2>m. m = [mem EXCEPT ![c] = entry] /\ \A k \in 1 .. Len(block) : block[k] = entry
    BY <1>6 DEF SetsElement, c, entry
  <2>a. m \in [Addr -> Cells] /\ Alike(mem, id, m, id, g_free) /\ Makes(block, ids, m)  BY <1>6 DEF SetsElement
  <2>b. UNCHANGED <<regs, g_stack, g_stack_array, globals, Collector>> /\ RunCells(m, id, g_free)  BY <1>6 DEF SetsElement
  <2>1. \A s \in Symbols : m[s] = mem[s]
    <3>1. \A s \in Symbols : s \in Addr /\ s # c
      BY <1>1, <1>4, SymbolsAreSpecial, Layout, SizesAssumption DEF Symbols, Types, Run, EntryTypes
    <3> QED  BY <1>1, <2>m, <3>1 DEF Types
  <2>2. Len(block) \in Nat /\ g_free \in Nat \ {0}  BY <1>1, <2>a, LenProperties DEF Makes, Types
  <2>3. /\ g_free' = g_free + Len(block)
        /\ \A k \in 1 .. Len(block) : mem'[g_free + k - 1] = block[k]
    BY <1>1, <2>a, PutMemory
  <2>4. \A p : Refers(mem, id, p, 1, g_free - 1) => Refers(mem', id', p, 1, g_free' - 1)
    BY <1>1, <2>a, PutReference
  <2>5. ASSUME NEW k \in 1 .. Len(block) PROVE Sound(mem', id', g_free + k - 1, 1, g_free' - 1, g_free')
    <3>1. mem'[g_free + k - 1] = entry  BY <2>m, <2>3
    <3>2. CarRefers(mem', id', g_free + k - 1, 1, g_free' - 1)  BY <3>1, <2>4, <1>3 DEF CarRefers
    <3>3. g_free + k - 1 \in Int /\ g_free' \in Int /\ g_free + k - 1 < g_free'  BY <2>2, <2>3
    <3> QED  BY <3>1, <3>2, <3>3, <1>3, EntrySound
  <2>6. regs' \in [Regs -> Addr] /\ \A r \in Regs : Refers(mem', id', regs'[r], 1, g_free' - 1)
    BY <1>1, <2>b, <2>4 DEF Types, Run, RunRoots
  <2>7. phase = "run" /\ UNCHANGED <<g_stack, g_stack_array, globals, Collector>>  BY <1>1, <2>b
  <2>8. \A k \in 1 .. Len(block) : Sound(mem', id', g_free + k - 1, 1, g_free' - 1, g_free')  BY <2>5
  <2>9. RunCells(m, id, g_free) /\ Alike(mem, id, m, id, g_free) /\ Makes(block, ids, m) /\ m \in [Addr -> Cells]
    BY <2>a, <2>b
  <2> QED  BY <2>1, <2>6, <2>7, <2>8, <2>9, AllocatedIInv
<1>7. Stop("out of memory") \/ \E m, block, ids : SetsElement(x, i, e, m, block, ids)  BY <1>1, VectorSetMade
<1> QED  BY <1>5, <1>6, <1>7

\* The pair for element k, counted from 0, and the one behind the j-th pair.
ListItem(x, k) == IF Element(regs[x], k).type = "TREF" THEN Element(regs[x], k).car ELSE mem[regs[x]].cdr + k
ListRest(j) == IF j = 1 THEN cell_nil ELSE g_free + j - 2
ListHead(n) == IF n = 0 THEN cell_nil ELSE g_free + n - 1

LEMMA ListMade ==
  ASSUME Types, Run, NEW r, NEW x \in Regs, vector_to_list(r, x)
  PROVE  /\ mem[regs[x]].car \in Nat
         /\ \A k \in 0 .. mem[regs[x]].car - 1 :
              /\ Element(regs[x], k).type # "TREF" => Interior
              /\ Refers(mem, id, ListItem(x, k), 1, g_free - 1)
         /\ \/ Stop("out of memory")
            \/ \E block, ids : /\ Allocates(r, block, ids, ListHead(mem[regs[x]].car))
                               /\ Identities(ids, mem[regs[x]].car, 0) /\ Len(block) = mem[regs[x]].car
                               /\ \A j \in 1 .. mem[regs[x]].car :
                                    /\ block[j].type = "TPAIR" /\ block[j].car = ListItem(x, mem[regs[x]].car - j)
                                    /\ block[j].cdr = ListRest(j)
<1>1. phase = "run" /\ Homes(id, home, g_free)  BY DEF Run, vector_to_list
<1>2. IsVector(regs[x])  BY DEF vector_to_list
<1>3. g_free \in Nat \ {0} /\ ARENA_SIZE \in Nat  BY <1>1, Layout DEF Types
<1> DEFINE v == mem[regs[x]]
           n == v.car
           Item(i) == IF Element(regs[x], i).type = "TREF" THEN Element(regs[x], i).car ELSE v.cdr + i
           cell(j) == Cell("TPAIR", Item(n - j), IF j = 1 THEN cell_nil ELSE g_free + j - 2)
           block == [j \in 1 .. n |-> cell(j)]
           ids == FreshIds(n)
           at == IF n = 0 THEN cell_nil ELSE g_free + n - 1
<1>4. n \in Nat
  <2>1. Sound(mem, id, regs[x], 1, g_free - 1, g_free) /\ v.type \in VectorTypes
    BY <1>1, <1>2, RegisterIsSound DEF IsVector, VectorTypes
  <2> QED  BY <2>1 DEF Sound, Shaped
<1>5. /\ \A i \in 0 .. n - 1 : Element(regs[x], i).type # "TREF" => Interior
      /\ Allocate(r, block, ids, at)
  BY DEF vector_to_list
<1>6. ASSUME NEW i \in 0 .. n - 1 PROVE Refers(mem, id, Item(i), 1, g_free - 1)
  <2>1. /\ v.cdr + i \in 1 .. g_free - 1 /\ Element(regs[x], i).type \in EntryTypes
        /\ Element(regs[x], i).type \in CarTypes => Refers(mem, id, Element(regs[x], i).car, 1, g_free - 1)
    <3>1. i \in Nat /\ i < mem[regs[x]].car  BY <1>4
    <3> HIDE DEF v, n, Item, cell, block, ids, at
    <3>2. /\ mem[regs[x]].cdr + i \in 1 .. g_free - 1 /\ Element(regs[x], i).type \in EntryTypes
          /\ Element(regs[x], i).type \in CarTypes => Refers(mem, id, Element(regs[x], i).car, 1, g_free - 1)
      BY <1>2, <3>1, ElementIsEntry
    <3> QED  BY <3>2 DEF v
  <2>2. CASE Element(regs[x], i).type = "TREF"  BY <2>1, <2>2 DEF CarTypes
  <2>3. CASE Element(regs[x], i).type # "TREF"
    BY <2>1, <2>3, <1>5 DEF Refers, Element, EntryTypes
  <2> QED  BY <2>2, <2>3
<1>7. ASSUME NEW j \in 1 .. n
      PROVE  /\ cell(j) \in Cells /\ cell(j).type = "TPAIR" /\ cell(j).car = Item(n - j)
             /\ cell(j).cdr = (IF j = 1 THEN cell_nil ELSE g_free + j - 2)
             /\ Refers(mem, id, Item(n - j), 1, g_free - 1)
  <2>1. n - j \in 0 .. n - 1  BY <1>4
  <2>2. Refers(mem, id, Item(n - j), 1, g_free - 1)  BY <1>6, <2>1
  <2>3. /\ "TPAIR" \in CellTypes /\ Item(n - j) \in Int
        /\ (IF j = 1 THEN cell_nil ELSE g_free + j - 2) \in Int
    BY <2>2, <1>3, <1>4 DEF CellTypes, Refers, cell_nil
  <2> HIDE DEF Item, n
  <2> QED  BY <2>2, <2>3, MadeCell
<1>i. \A k : ListItem(x, k) = Item(k)  BY DEF ListItem
<1> HIDE DEF Item
<1>8. block \in [1 .. n -> Cells] /\ \A j \in 1 .. n : block[j] = cell(j)
  BY <1>7
<1> HIDE DEF v, n, cell, block, ids, at
<1> DEFINE Made == \E b, i : /\ Allocates(r, b, i, at) /\ Identities(i, n, 0) /\ Len(b) = n
                               /\ \A j \in 1 .. n : /\ b[j].type = "TPAIR" /\ b[j].car = ListItem(x, n - j)
                                                    /\ b[j].cdr = ListRest(j)
<1>9. block \in Seq(Cells) /\ Len(block) = n  BY <1>4, <1>8, FunctionIsSeq
<1>10. ASSUME g_free + Len(block) > ARENA_SIZE PROVE Stop("out of memory")
  BY <1>5, <1>10 DEF Allocate
<1>11. ASSUME ~(g_free + Len(block) > ARENA_SIZE) PROVE Made
  <2>1. g_free + Len(block) <= ARENA_SIZE /\ g_free + n <= ARENA_SIZE  BY <1>3, <1>4, <1>9, <1>11
  <2>2. ids \in [1 .. n -> Fresh] /\ \A j, k \in 1 .. n : ids[j] = ids[k] => j = k
    BY <1>1, <1>4, <2>1, FreshIdsExist DEF ids
  <2>3. ids \in [1 .. n -> Ids \cup {NoId}] /\ (\A k \in 1 .. n : ids[k] \in Ids /\ ids[k] \in Fresh)
    BY <2>2 DEF Fresh
  <2>4. Identities(ids, n, 0)
    <3>1. ids \in Seq(Ids \cup {NoId}) /\ Len(ids) = n /\ n + 0 = n  BY <1>4, <2>3, FunctionIsSeq
    <3>2. n + 1 .. n = {}  BY <1>4
    <3> QED  BY <3>1, <3>2, <2>2, <2>3 DEF Identities
  <2>5. Put(block, ids, mem) /\ regs' = [regs EXCEPT ![r] = at]
        /\ UNCHANGED <<g_stack, g_stack_array, globals, Collector>>
    BY <1>5, <1>11 DEF Allocate
  <2>6. Makes(block, ids, mem)
    <3>1. Len(ids) = n  BY <1>4, <2>4 DEF Identities
    <3> QED  BY <3>1, <1>9, <2>1, <2>4, <2>5 DEF Makes, Identities
  <2>7. Allocates(r, block, ids, at)  BY <2>5, <2>6 DEF Allocates
  <2>8. \A j \in 1 .. n : /\ block[j].type = "TPAIR" /\ block[j].car = ListItem(x, n - j)
                         /\ block[j].cdr = ListRest(j)
    BY <1>7, <1>8, <1>i DEF ListRest
  <2> QED  BY <1>9, <2>4, <2>7, <2>8
<1>12. \A k \in 0 .. n - 1 : Element(regs[x], k).type # "TREF" => Interior  BY <1>5
<1>13. \A k \in 0 .. n - 1 : Refers(mem, id, ListItem(x, k), 1, g_free - 1)  BY <1>6, <1>i
<1>14. at = ListHead(n) /\ n = mem[regs[x]].car  BY DEF at, ListHead, n, v
<1>15. Stop("out of memory") \/ Made  BY <1>10, <1>11
<1> HIDE DEF Made
<1>16. \A k \in 0 .. n - 1 : /\ Element(regs[x], k).type # "TREF" => Interior
                             /\ Refers(mem, id, ListItem(x, k), 1, g_free - 1)
  BY <1>12, <1>13
<1> QED  BY <1>4, <1>14, <1>15, <1>16, Zenon DEF Made

LEMMA VectorToListIInv ==
  ASSUME IInv, NEW r \in Regs, NEW x \in Regs, vector_to_list(r, x)
  PROVE  IInv'
<1>1. Types /\ Run /\ phase = "run" /\ Homes(id, home, g_free) /\ mem \in [Addr -> Cells]
  BY DEF IInv, Run, Types, vector_to_list
<1>3. g_free \in Nat \ {0}  BY <1>1 DEF Types
<1> DEFINE n == mem[regs[x]].car
           at == ListHead(n)
<1>4. n \in Nat /\ \A k \in 0 .. n - 1 : Refers(mem, id, ListItem(x, k), 1, g_free - 1)  BY <1>1, ListMade
<1> HIDE DEF n, at
<1>5. CASE Stop("out of memory")  BY <1>5, StopIInv
<1>6. ASSUME NEW block, NEW ids, Allocates(r, block, ids, at), Identities(ids, n, 0), Len(block) = n,
             \A j \in 1 .. n : /\ block[j].type = "TPAIR" /\ block[j].car = ListItem(x, n - j)
                               /\ block[j].cdr = ListRest(j)
      PROVE  IInv'
  <2>3. \A k \in 1 .. n : ids[k] \in Ids  BY <1>6 DEF Identities
  <2>5. regs' = [regs EXCEPT ![r] = at] /\ UNCHANGED <<g_stack, g_stack_array, globals, Collector>>
    BY <1>6 DEF Allocates
  <2>6. Makes(block, ids, mem)  BY <1>6 DEF Allocates
  <2>7. /\ g_free' = g_free + n /\ mem' \in [Addr -> Cells]
        /\ \A k \in 1 .. n : mem'[g_free + k - 1] = block[k] /\ id'[g_free + k - 1] = ids[k]
    BY <1>1, <1>6, <2>6, PutMemory
  <2>8. \A p : Refers(mem, id, p, 1, g_free - 1) => Refers(mem', id', p, 1, g_free' - 1)
    <3>1. Alike(mem, id, mem, id, g_free)  BY DEF Alike
    <3> QED  BY <3>1, <1>1, <2>6, PutReference
  <2>9. NoId \notin Ids  BY Layout DEF NoId, Ids
  <2>10. ASSUME NEW k \in 1 .. n
         PROVE  Refers(mem', id', g_free + k - 1, 1, g_free' - 1)
    <3>1. g_free + k - 1 \in 1 .. g_free' - 1  BY <1>3, <1>4, <2>7
    <3>2. mem'[g_free + k - 1].type = "TPAIR" /\ id'[g_free + k - 1] \in Ids  BY <1>6, <2>3, <2>7
    <3> QED  BY <3>1, <3>2, <2>9 DEF Refers
  <2>11. Refers(mem', id', cell_nil, 1, g_free' - 1)  BY <1>1, <2>8, FalseIsASymbol
  <2>12. ASSUME NEW k \in 1 .. n
         PROVE  Sound(mem', id', g_free + k - 1, 1, g_free' - 1, g_free')
    <3> DEFINE a == g_free + k - 1
    <3>1. mem'[a].type = "TPAIR" /\ mem'[a].car = ListItem(x, n - k)
          /\ mem'[a].cdr = IF k = 1 THEN cell_nil ELSE g_free + k - 2
      BY <1>6, <2>7 DEF ListRest
    <3>2. CarRefers(mem', id', a, 1, g_free' - 1)
      <4>1. n - k \in 0 .. n - 1  BY <1>4
      <4> QED  BY <4>1, <3>1, <1>4, <2>8 DEF CarRefers
    <3>4. ASSUME k # 1 PROVE CdrRefers(mem', id', a, 1, g_free' - 1)
      <4>1. k - 1 \in 1 .. n /\ g_free + (k - 1) - 1 = g_free + k - 2  BY <3>4, <1>3, <1>4
      <4>2. Refers(mem', id', g_free + (k - 1) - 1, 1, g_free' - 1)  BY <4>1, <2>10
      <4> QED  BY <4>1, <4>2, <3>1, <3>4 DEF CdrRefers
    <3>5. CdrRefers(mem', id', a, 1, g_free' - 1)  BY <3>1, <3>4, <2>11 DEF CdrRefers
    <3>6. a \in Int /\ g_free' \in Int /\ a < g_free'  BY <1>3, <1>4, <2>7
    <3>7. mem'[a].type \notin {"free", "TBROKEN_HEART", "TBYTES"} \cup VectorTypes  BY <3>1 DEF VectorTypes
    <3> QED  BY <3>2, <3>5, <3>6, <3>7, SmallSound
  <2>13. Refers(mem', id', at, 1, g_free' - 1)
    <3>1. CASE n = 0  BY <3>1, <2>11 DEF at, ListHead
    <3>2. CASE n # 0
      <4>1. n \in 1 .. n  BY <3>2, <1>4
      <4> QED  BY <4>1, <3>2, <2>10 DEF at, ListHead
    <3> QED  BY <3>1, <3>2
  <2>14. \A k \in 1 .. Len(block) : Sound(mem', id', g_free + k - 1, 1, g_free' - 1, g_free')
    BY <1>6, <2>12
  <2> QED  BY <1>1, <2>5, <2>6, <2>13, <2>14, MakeIInv
<1> QED  BY <1>1, <1>5, <1>6, ListMade DEF at, n

-----------------------------------------------------------------------------
(***************************************************************************)
(* The arena when the program begins.                                      *)
(***************************************************************************)
LEMMA StaticLayout ==
  /\ NSymbols \in Nat \ {0}
  /\ TableAt = NSymbols + 1 /\ BucketsAt = NSymbols + 3
  /\ \A n \in Symbols : n \in Nat \ {0} /\ n <= NSymbols /\ NameAt(n) = 1 + 2 * NSymbols + 3 * n
  /\ StaticTop = 4 + 5 * NSymbols /\ StaticTop <= ARENA_SIZE
<1>1. NSymbols \in Nat \ {0}  BY SizesAssumption
<1>2. NameCells = 3  BY TwoBytes DEF NameCells
<1>3. TableAt = NSymbols + 1 /\ BucketsAt = NSymbols + 3  BY <1>1 DEF TableAt, BucketsAt
<1>4. \A n \in Int : NameAt(n) = 1 + 2 * NSymbols + 3 * n  BY <1>1, <1>2, <1>3 DEF NameAt
<1>5. StaticTop = 4 + 5 * NSymbols  BY <1>1, <1>4 DEF StaticTop
<1> QED  BY <1>1, <1>3, <1>4, <1>5, StaticAssumption DEF Symbols

\* The cells of Init, region by region.
LEMMA StaticCells ==
  ASSUME Init
  PROVE  /\ mem \in [Addr -> Cells]
         /\ mem[0].type = "TCHAR"
         /\ \A s \in Symbols : mem[s].type = "TSPECIAL" /\ mem[s].cdr = NameAt(s)
         /\ mem[TableAt].type = "TSTRUCT" /\ mem[TableAt].car = 1 /\ mem[TableAt].cdr = TableAt + 1
         /\ mem[TableAt + 1].type = "TREF" /\ mem[TableAt + 1].car = BucketsAt
         /\ mem[BucketsAt].type = "TVECTOR" /\ mem[BucketsAt].car = NSymbols /\ mem[BucketsAt].cdr = BucketsAt + 1
         /\ \A s \in Symbols : mem[BucketsAt + s].type = "TREF" /\ mem[BucketsAt + s].car = s
         /\ \A n \in Symbols : mem[NameAt(n)].type = "TBYTES" /\ mem[NameAt(n)].car = 2
         /\ \A a \in BucketsAt + NSymbols + 1 .. StaticTop - 1 :
              (\A n \in Symbols : a # NameAt(n)) => mem[a].type = "raw"
<1> USE StaticLayout
<1>1. Symbols = 1 .. NSymbols /\ cell_zero = 0 /\ NameCells = 3 BY TwoBytes DEF Symbols, cell_zero, NameCells
<1>2. Addr = 0 .. MemTop - 1 /\ MemTop \in Nat /\ StaticTop <= MemTop  BY Layout
<1> DEFINE cell(a) ==
       CASE a = cell_zero     -> Cell("TCHAR", 0, 0)
         [] a \in Symbols     -> Cell("TSPECIAL", 1, NameAt(a))
         [] a = TableAt       -> Cell("TSTRUCT", 1, TableAt + 1)
         [] a = TableAt + 1   -> Cell("TREF", BucketsAt, 0)
         [] a = BucketsAt     -> Cell("TVECTOR", NSymbols, BucketsAt + 1)
         [] a - BucketsAt \in Symbols -> Cell("TREF", a - BucketsAt, 0)
         [] \E n \in Symbols : a = NameAt(n) -> Cell("TBYTES", 2, 0)
         [] OTHER -> IF a < StaticTop THEN RawCell ELSE FreeCell
<1>3. mem = [a \in Addr |-> cell(a)]  BY DEF Init
<1>4. \A t \in CellTypes, a \in Int, d \in Int :
        /\ Cell(t, a, d) \in Cells /\ Cell(t, a, d).type = t /\ Cell(t, a, d).car = a /\ Cell(t, a, d).cdr = d
  BY MadeCell
<1>5. cell(0) = Cell("TCHAR", 0, 0)  BY <1>1
<1>6. ASSUME NEW s \in Symbols PROVE cell(s) = Cell("TSPECIAL", 1, NameAt(s))
  BY <1>1
<1>7. cell(TableAt) = Cell("TSTRUCT", 1, TableAt + 1)  BY <1>1
<1>8. cell(TableAt + 1) = Cell("TREF", BucketsAt, 0)  BY <1>1
<1>9. cell(BucketsAt) = Cell("TVECTOR", NSymbols, BucketsAt + 1)  BY <1>1
<1>10. ASSUME NEW s \in Symbols PROVE cell(BucketsAt + s) = Cell("TREF", s, 0)
  BY <1>1
<1>11. ASSUME NEW n \in Symbols PROVE cell(NameAt(n)) = Cell("TBYTES", 2, 0)
  BY <1>1
<1>12. ASSUME NEW a \in BucketsAt + NSymbols + 1 .. StaticTop - 1, \A n \in Symbols : a # NameAt(n)
       PROVE  cell(a) = RawCell
  BY <1>1, <1>12
<1>13. ASSUME NEW a \in Addr PROVE cell(a) \in Cells
  <2>1. \A n \in Symbols : NameAt(n) \in Int  OBVIOUS
  <2>2. {"TCHAR", "TSPECIAL", "TSTRUCT", "TREF", "TVECTOR", "TBYTES", "raw", "free"} \subseteq CellTypes
    BY DEF CellTypes
  <2>3. RawCell \in Cells /\ FreeCell \in Cells  BY <1>4, <2>2 DEF RawCell, FreeCell
  <2>4. a \in Int  BY <1>2
  <2>5. \/ cell(a) \in {RawCell, FreeCell, Cell("TCHAR", 0, 0), Cell("TSTRUCT", 1, TableAt + 1),
                        Cell("TREF", BucketsAt, 0), Cell("TVECTOR", NSymbols, BucketsAt + 1), Cell("TBYTES", 2, 0)}
        \/ a \in Symbols /\ cell(a) = Cell("TSPECIAL", 1, NameAt(a))
        \/ cell(a) = Cell("TREF", a - BucketsAt, 0)
    OBVIOUS
  <2> HIDE DEF cell
  <2> QED  BY <1>4, <2>1, <2>2, <2>3, <2>4, <2>5
<1>14. mem \in [Addr -> Cells]  BY <1>3, <1>13
<1>15. \A a \in Addr : mem[a] = cell(a)  BY <1>3
<1> HIDE DEF cell
<1>16. /\ 0 \in Addr /\ TableAt \in Addr /\ TableAt + 1 \in Addr /\ BucketsAt \in Addr
       /\ \A s \in Symbols : s \in Addr /\ BucketsAt + s \in Addr /\ NameAt(s) \in Addr /\ s \in Int /\ NameAt(s) \in Int
       /\ \A a \in BucketsAt + NSymbols + 1 .. StaticTop - 1 : a \in Addr
       /\ TableAt + 1 \in Int /\ BucketsAt \in Int /\ BucketsAt + 1 \in Int /\ NSymbols \in Int
       /\ {0, 1, 2} \subseteq Int
  BY <1>1, <1>2
<1>17. {"TCHAR", "TSPECIAL", "TSTRUCT", "TREF", "TVECTOR", "TBYTES", "raw", "free"} \subseteq CellTypes
  BY DEF CellTypes
<1>18. mem[0].type = "TCHAR"  BY <1>4, <1>5, <1>15, <1>16, <1>17
<1>19. \A s \in Symbols : mem[s].type = "TSPECIAL" /\ mem[s].cdr = NameAt(s)
  BY <1>4, <1>6, <1>15, <1>16, <1>17
<1>20. mem[TableAt].type = "TSTRUCT" /\ mem[TableAt].car = 1 /\ mem[TableAt].cdr = TableAt + 1
  BY <1>4, <1>7, <1>15, <1>16, <1>17
<1>21. mem[TableAt + 1].type = "TREF" /\ mem[TableAt + 1].car = BucketsAt
  BY <1>4, <1>8, <1>15, <1>16, <1>17
<1>22. mem[BucketsAt].type = "TVECTOR" /\ mem[BucketsAt].car = NSymbols /\ mem[BucketsAt].cdr = BucketsAt + 1
  BY <1>4, <1>9, <1>15, <1>16, <1>17
<1>23. \A s \in Symbols : mem[BucketsAt + s].type = "TREF" /\ mem[BucketsAt + s].car = s
  BY <1>4, <1>10, <1>15, <1>16, <1>17
<1>24. \A n \in Symbols : mem[NameAt(n)].type = "TBYTES" /\ mem[NameAt(n)].car = 2
  BY <1>4, <1>11, <1>15, <1>16, <1>17
<1>25. \A a \in BucketsAt + NSymbols + 1 .. StaticTop - 1 :
         (\A n \in Symbols : a # NameAt(n)) => mem[a].type = "raw"
  BY <1>4, <1>12, <1>15, <1>16, <1>17 DEF RawCell
<1> QED  BY <1>14, <1>18, <1>19, <1>20, <1>21, <1>22, <1>23, <1>24, <1>25

\* Every cell below StaticTop is in one of the regions of Init.
LEMMA StaticRegions ==
  ASSUME NEW a \in 0 .. StaticTop - 1
  PROVE  \/ a = 0 \/ a \in Symbols \/ a = TableAt \/ a = TableAt + 1 \/ a = BucketsAt
         \/ \E s \in Symbols : a = BucketsAt + s
         \/ \E n \in Symbols : a = NameAt(n)
         \/ a \in BucketsAt + NSymbols + 1 .. StaticTop - 1 /\ \A n \in Symbols : a # NameAt(n)
<1>1. a - BucketsAt \in Symbols => a = BucketsAt + (a - BucketsAt)  BY StaticLayout
<1> QED  BY StaticLayout, <1>1 DEF Symbols

\* The identities of Init.
LEMMA StaticIds ==
  ASSUME Init
  PROVE  /\ id \in [Addr -> Ids \cup {NoId}]
         /\ DOMAIN home \subseteq 1 .. StaticTop - 1
         /\ \A o \in DOMAIN home : home[o] = o /\ id[o] = o
         /\ \A s \in Symbols : id[s] = s /\ id[NameAt(s)] = NameAt(s) /\ id[BucketsAt + s] = NoId
         /\ id[TableAt] = TableAt /\ id[BucketsAt] = BucketsAt /\ id[TableAt + 1] = NoId /\ id[0] = NoId
         /\ \A a \in BucketsAt + NSymbols + 1 .. StaticTop - 1 :
              (\A n \in Symbols : a # NameAt(n)) => id[a] = NoId
         /\ \A a \in Addr : a >= StaticTop => id[a] = NoId
<1> USE StaticLayout
<1> DEFINE H == Symbols \cup {TableAt, BucketsAt} \cup {NameAt(n) : n \in Symbols}
<1>1. home = [a \in H |-> a]  BY DEF Init
<1>2. id = [a \in Addr |-> IF a \in H THEN a ELSE NoId]  BY <1>1 DEF Init
<1>3. Addr = 0 .. MemTop - 1 /\ MemTop \in Nat /\ StaticTop <= MemTop /\ Symbols = 1 .. NSymbols
      /\ ARENA_SIZE \in Nat
  BY Layout DEF Symbols
<1>4. H \subseteq 1 .. StaticTop - 1  BY <1>3
<1>5. \A a \in 0 .. StaticTop - 1 : a \in Addr /\ a \in Ids  BY <1>3 DEF Ids
<1>6. \A a \in H : a \in Addr /\ a \in Ids
  <2>1. \A a \in 1 .. StaticTop - 1 : a \in 0 .. StaticTop - 1  BY <1>3
  <2> QED  BY <1>4, <1>5, <2>1
<1>7. \A s \in Symbols : BucketsAt + s \notin H /\ BucketsAt + s \in 0 .. StaticTop - 1  BY <1>3
<1>8. TableAt + 1 \notin H /\ 0 \notin H /\ TableAt + 1 \in 0 .. StaticTop - 1 /\ 0 \in 0 .. StaticTop - 1
  BY <1>3
<1>9. \A a \in BucketsAt + NSymbols + 1 .. StaticTop - 1 :
         a \in 0 .. StaticTop - 1 /\ ((\A n \in Symbols : a # NameAt(n)) => a \notin H)
  BY <1>3
<1>10. \A a \in Addr : a >= StaticTop => a \notin H  BY <1>3
<1>11. Symbols \subseteq H /\ TableAt \in H /\ BucketsAt \in H /\ \A n \in Symbols : NameAt(n) \in H
  OBVIOUS
<1> HIDE DEF H
<1>12. id \in [Addr -> Ids \cup {NoId}]  BY <1>2, <1>6
<1>13. DOMAIN home = H /\ \A o \in H : home[o] = o /\ id[o] = o  BY <1>1, <1>2, <1>6
<1> QED  BY <1>2, <1>4, <1>5, <1>7, <1>8, <1>9, <1>10, <1>11, <1>12, <1>13

\* Every cell of Init is sound.
LEMMA StaticSound ==
  ASSUME Init
  PROVE  RunCells(mem, id, StaticTop)
<1> USE StaticLayout
<1>1. SUFFICES ASSUME NEW a \in 0 .. StaticTop - 1
               PROVE  Sound(mem, id, a, 1, StaticTop - 1, StaticTop)
  BY DEF RunCells
<1>2. a \in Int /\ StaticTop \in Int /\ a < StaticTop /\ Symbols = 1 .. NSymbols  BY DEF Symbols
<1>3. NoId = -1  BY DEF NoId
<1>4. ASSUME NEW n \in Symbols PROVE Refers(mem, id, NameAt(n), 1, StaticTop - 1)
  <2>1. NameAt(n) \in 1 .. StaticTop - 1 /\ NameAt(n) # NoId  BY <1>2, <1>3
  <2>2. mem[NameAt(n)].type = "TBYTES" /\ id[NameAt(n)] = NameAt(n)  BY StaticCells, StaticIds
  <2> QED  BY <2>1, <2>2 DEF Refers
<1>5. ASSUME NEW s \in Symbols PROVE Refers(mem, id, s, 1, StaticTop - 1)
  BY <1>2, <1>3, StaticCells, StaticIds DEF Refers
<1>6. Refers(mem, id, BucketsAt, 1, StaticTop - 1)
  BY <1>2, <1>3, StaticCells, StaticIds DEF Refers
<1>7. CASE a = 0
  <2>1. mem[a].type = "TCHAR"  BY <1>7, StaticCells
  <2> QED  BY <2>1, <1>2, SmallSound DEF CarRefers, CdrRefers, CarTypes, CdrTypes, VectorTypes
<1>8. CASE a \in Symbols
  <2>1. mem[a].type = "TSPECIAL" /\ mem[a].cdr = NameAt(a)  BY <1>8, StaticCells
  <2> QED  BY <2>1, <1>2, <1>4, <1>8, SmallSound DEF CarRefers, CdrRefers, CarTypes, VectorTypes
<1>9. CASE a = TableAt
  <2>1. mem[a].type = "TSTRUCT" /\ mem[a].car = 1 /\ mem[a].cdr = a + 1  BY <1>9, StaticCells
  <2>2. Size(mem[a]) = 2  BY <2>1 DEF Size, VectorTypes
  <2>3. Rest(mem, a) = {TableAt + 1}  BY <2>2, <1>9 DEF Rest
  <2>4. mem[TableAt + 1].type = "TREF" /\ id[TableAt + 1] = NoId  BY StaticCells, StaticIds
  <2>5. a + Size(mem[a]) <= StaticTop  BY <2>2, <1>9
  <2> QED  BY <2>1, <2>3, <2>4, <2>5 DEF Sound, Shaped, CarRefers, CdrRefers, CarTypes, CdrTypes, VectorTypes, EntryTypes
<1>10. CASE a = TableAt + 1
  <2>1. mem[a].type = "TREF" /\ mem[a].car = BucketsAt  BY <1>10, StaticCells
  <2> QED  BY <2>1, <1>2, <1>6, EntrySound DEF CarRefers, EntryTypes
<1>11. CASE a = BucketsAt
  <2>1. mem[a].type = "TVECTOR" /\ mem[a].car = NSymbols /\ mem[a].cdr = a + 1  BY <1>11, StaticCells
  <2>2. Size(mem[a]) = 1 + NSymbols  BY <2>1 DEF Size, VectorTypes
  <2>3. \A j \in Rest(mem, a) : j - BucketsAt \in Symbols /\ j = BucketsAt + (j - BucketsAt)
    BY <2>2, <1>2, <1>11 DEF Rest
  <2>4. \A s \in Symbols : mem[BucketsAt + s].type = "TREF" /\ id[BucketsAt + s] = NoId
    BY StaticCells, StaticIds
  <2>5. \A j \in Rest(mem, a) : mem[j].type = "TREF" /\ id[j] = NoId  BY <2>3, <2>4
  <2>6. a + Size(mem[a]) <= StaticTop  BY <2>2, <1>11
  <2> QED  BY <2>1, <2>5, <2>6 DEF Sound, Shaped, CarRefers, CdrRefers, CarTypes, CdrTypes, VectorTypes, EntryTypes
<1>12. ASSUME NEW s \in Symbols, a = BucketsAt + s PROVE Sound(mem, id, a, 1, StaticTop - 1, StaticTop)
  <2>1. mem[a].type = "TREF" /\ mem[a].car = s  BY <1>12, StaticCells
  <2> QED  BY <2>1, <1>2, <1>5, EntrySound DEF CarRefers, EntryTypes
<1>13. ASSUME NEW n \in Symbols, a = NameAt(n) PROVE Sound(mem, id, a, 1, StaticTop - 1, StaticTop)
  <2>1. mem[a].type = "TBYTES" /\ mem[a].car = 2  BY <1>13, StaticCells
  <2>2. Size(mem[a]) = 3  BY <2>1, TwoBytes DEF Size, VectorTypes
  <2>3. a + Size(mem[a]) <= StaticTop  BY <2>2, <1>13
  <2>4. ASSUME NEW j \in Rest(mem, a) PROVE mem[j].type = "raw" /\ id[j] = NoId
    <3>1. j \in BucketsAt + NSymbols + 1 .. StaticTop - 1 /\ \A q \in Symbols : j # NameAt(q)
      BY <2>2, <1>2, <1>13 DEF Rest
    <3> QED  BY <3>1, StaticCells, StaticIds
  <2> QED  BY <2>1, <2>3, <2>4 DEF Sound, Shaped, CarRefers, CdrRefers, CarTypes, CdrTypes, VectorTypes
<1>14. ASSUME a \in BucketsAt + NSymbols + 1 .. StaticTop - 1, \A n \in Symbols : a # NameAt(n)
       PROVE  Sound(mem, id, a, 1, StaticTop - 1, StaticTop)
  <2>1. mem[a].type = "raw"  BY <1>14, StaticCells
  <2> QED  BY <2>1, <1>2, SmallSound DEF CarRefers, CdrRefers, CarTypes, CdrTypes, VectorTypes
<1> QED  BY <1>1, <1>7, <1>8, <1>9, <1>10, <1>11, <1>12, <1>13, <1>14, StaticRegions

\* The program begins in a state of the invariant.
LEMMA InitIInv ==
  ASSUME Init
  PROVE  IInv
<1> USE StaticLayout
<1>1. /\ g_free = StaticTop /\ g_news = 0 /\ scan = 0 /\ phase = "run" /\ g_stack = STACK_SIZE
      /\ g_stack_array = [k \in 0 .. STACK_SIZE - 1 |-> 0]
      /\ regs = [r \in Regs |-> cell_nil]
      /\ globals = [g \in Globals |-> IF g = "g_symbols" THEN TableAt ELSE cell_nil]
  BY DEF Init
<1>2. Addr = 0 .. MemTop - 1 /\ MemTop \in Nat /\ StaticTop <= MemTop /\ Symbols = 1 .. NSymbols
      /\ STACK_SIZE \in Nat /\ ARENA_SIZE \in Nat
  BY Layout, SizesAssumption DEF Symbols
<1>3. RunCells(mem, id, g_free)  BY <1>1, StaticSound
<1>4. \A a \in 0 .. g_free - 1 : mem[a].type # "free"  BY <1>3 DEF RunCells, Sound
<1>5. cell_nil = 1 /\ cell_nil \in Addr /\ TableAt \in Addr  BY <1>2 DEF cell_nil
<1>6. Types
  <2>1. mem \in [Addr -> Cells] /\ id \in [Addr -> Ids \cup {NoId}]  BY StaticCells, StaticIds
  <2>2. \A a \in Addr : a >= g_free => id[a] = NoId  BY <1>1, StaticIds
  <2>3. DOMAIN home \subseteq Ids
    <3>1. 1 .. StaticTop - 1 \subseteq Ids  BY <1>2 DEF Ids
    <3> QED  BY <3>1, StaticIds
  <2>4. g_free \in 1 .. MemTop /\ g_news \in 0 .. g_free /\ scan \in 0 .. g_free /\ g_stack \in 0 .. STACK_SIZE
    BY <1>1, <1>2
  <2>5. /\ g_stack_array \in [0 .. STACK_SIZE - 1 -> 0 .. g_free]
        /\ \A k \in 0 .. g_stack - 1 : g_stack_array[k] = 0
    BY <1>1, <1>2, <2>4
  <2>6. regs \in [Regs -> Addr]  BY <1>1, <1>5
  <2>7. globals \in [Globals -> 0 .. g_free]  BY <1>1, <1>2, <1>5
  <2>8. phase \in Phases  BY <1>1 DEF Phases
  <2> QED  BY <2>1, <2>2, <2>3, <2>4, <2>5, <2>6, <2>7, <2>8, <1>4 DEF Types
<1>7. Refers(mem, id, 1, 1, g_free - 1) /\ Refers(mem, id, TableAt, 1, g_free - 1)
  <2>1. 1 \in Symbols /\ 1 \in 1 .. g_free - 1 /\ TableAt \in 1 .. g_free - 1  BY <1>1, <1>2
  <2>2. mem[1].type # "raw" /\ id[1] = 1 /\ mem[TableAt].type # "raw" /\ id[TableAt] = TableAt
    BY <2>1, StaticCells, StaticIds
  <2>3. NoId \notin Nat  BY DEF NoId
  <2> QED  BY <2>1, <2>2, <2>3 DEF Refers
<1>8. RunRoots(mem, id, g_free)
  <2>1. g_stack .. STACK_SIZE - 1 = {}  BY <1>1, <1>2
  <2>2. \A r \in Regs : Refers(mem, id, regs[r], 1, g_free - 1)  BY <1>1, <1>5, <1>7
  <2>3. \A g \in Globals : Refers(mem, id, globals[g], 1, g_free - 1)  BY <1>1, <1>5, <1>7
  <2> QED  BY <2>1, <2>2, <2>3 DEF RunRoots
<1>9. \A s \in Symbols : SymbolAt(mem, id, s, s)  BY StaticCells, StaticIds DEF SymbolAt
<1>10. Homes(id, home, g_free)
  <2>1. 1 .. StaticTop - 1 \subseteq 0 .. g_free - 1  BY <1>1
  <2> QED  BY <2>1, StaticIds DEF Homes
<1>11. Run
  <2>1. NSymbols < g_free  BY <1>1
  <2>2. id[0] = NoId  BY StaticIds
  <2> QED  BY <2>1, <2>2, <1>3, <1>8, <1>9, <1>10 DEF Run
<1> QED  BY <1>1, <1>6, <1>11 DEF IInv, Collecting

-----------------------------------------------------------------------------
(***************************************************************************)
(* A collection begins.                                                    *)
(***************************************************************************)
\* The C globals are seven different ones.
LEMMA SevenGlobals ==
  /\ Len(GlobalNames) = 7
  /\ \A k \in 1 .. 7 : GlobalNames[k] \in Globals
  /\ \A g \in Globals : \E k \in 1 .. 7 : g = GlobalNames[k]
  /\ \A j, k \in 1 .. 7 : GlobalNames[j] = GlobalNames[k] => j = k
<1>1. DOMAIN GlobalNames = 1 .. 7 /\ Len(GlobalNames) = 7  BY DEF GlobalNames
<1>2. \A j, k \in 1 .. 7 : GlobalNames[j] = GlobalNames[k] => j = k  BY DEF GlobalNames
<1> QED  BY <1>1, <1>2 DEF Globals

\* gc_check starts a collection, with the new space behind the old one.
LEMMA GcCheckIInv ==
  ASSUME IInv, gc_check
  PROVE  IInv'
<1>1. Types /\ Run /\ phase = "run" /\ gc  BY DEF IInv, gc_check
<1>2. CASE g_stack < GC_FRAME_SIZE  BY <1>1, <1>2, StopIInv DEF gc
<1>3. CASE ~(g_stack < GC_FRAME_SIZE) /\ g_free + 2 > MemTop  BY <1>1, <1>3, StopIInv DEF gc
<1>4. CASE ~(g_stack < GC_FRAME_SIZE) /\ ~(g_free + 2 > MemTop)
  <2>1. /\ g_stack_array' = Pushed /\ g_stack' = g_stack - GC_FRAME_SIZE
        /\ mem' = [mem EXCEPT ![g_free] = Cell("TVECTOR", 1000, g_free + 1), ![g_free + 1] = Cell("TCHAR", 0, 0)]
        /\ g_news' = g_free + 1 /\ g_free' = g_free + 2 /\ scan' = g_free + 2
        /\ next' = 1 /\ phase' = "roots" /\ UNCHANGED <<regs, globals, uses, history>>
    BY <1>1, <1>4 DEF gc, gc_init_news
  <2>2. /\ g_free \in Nat \ {0} /\ MemTop \in Nat /\ g_free + 2 <= MemTop /\ Addr = 0 .. MemTop - 1
        /\ g_free \in Addr /\ g_free + 1 \in Addr /\ mem \in [Addr -> Cells]
        /\ NSymbols \in Nat \ {0} /\ STACK_SIZE \in Nat /\ GC_FRAME_SIZE \in Nat /\ g_stack \in Nat
    BY <1>1, <1>4, Layout, SizesAssumption DEF Types, GC_FRAME_SIZE
  <2>3. /\ mem' \in [Addr -> Cells] /\ mem'[g_free].type = "TVECTOR" /\ mem'[g_free + 1].type = "TCHAR"
        /\ \A a \in 0 .. g_free - 1 : a \in Addr /\ mem'[a] = mem[a]
    <3>1. "TVECTOR" \in CellTypes /\ "TCHAR" \in CellTypes /\ 1000 \in Int /\ g_free + 1 \in Int /\ 0 \in Int
      BY <2>2 DEF CellTypes
    <3>2. /\ Cell("TVECTOR", 1000, g_free + 1) \in Cells /\ Cell("TVECTOR", 1000, g_free + 1).type = "TVECTOR"
          /\ Cell("TCHAR", 0, 0) \in Cells /\ Cell("TCHAR", 0, 0).type = "TCHAR"
      BY <3>1, MadeCell
    <3> QED  BY <2>1, <2>2, <3>2
  <2>4. /\ g_stack' \in 0 .. STACK_SIZE /\ g_stack' + GC_FRAME_SIZE <= STACK_SIZE
        /\ g_stack_array' \in [0 .. STACK_SIZE - 1 -> 0 .. g_free]
        /\ \A k \in 0 .. g_stack' - 1 : g_stack_array'[k] = 0
        /\ \A k \in g_stack' .. STACK_SIZE - 1 : Refers(mem, id, g_stack_array'[k], 1, g_free - 1)
    BY <1>1, <1>4, <2>1, PushedFrame
  <2>5. Alike(mem, id, mem', id', g_free)  BY <2>1, <2>3 DEF Alike, history
  <2>6. \A p : Refers(mem, id, p, 1, g_free - 1) => Refers(mem', id', p, 1, g_free - 1)
    <3>1. g_free \in Int /\ g_free - 1 \in Int /\ g_free - 1 < g_free /\ g_free - 1 <= g_free - 1  BY <2>2
    <3> QED  BY <3>1, <2>5, KeepsReference
  <2>7. ASSUME NEW a \in 0 .. g_free - 1 PROVE Sound(mem', id', a, 1, g_free - 1, g_free)
    <3>1. g_free \in Int /\ g_free <= g_free /\ a < g_free  BY <2>2
    <3>2. Sound(mem, id, a, 1, g_free - 1, g_free) /\ mem'[a] = mem[a] /\ a \in Addr  BY <1>1, <2>3 DEF Run, RunCells
    <3> QED  BY <3>1, <3>2, <2>2, <2>3, <2>5, KeepsSound
  <2>8. g_news' - 2 = g_free - 1 /\ g_news' - 1 = g_free  BY <2>1, <2>2
  <2>9. \A a \in 0 .. g_free - 1 : mem'[a].type \notin {"free", "TBROKEN_HEART"}  BY <2>7 DEF Sound
  <2>10. Types'
    <3>1. \A a \in 0 .. g_free' - 1 : mem'[a].type # "free"
      <4>1. \A a \in 0 .. g_free' - 1 : a \in 0 .. g_free - 1 \/ a = g_free \/ a = g_free + 1  BY <2>1, <2>2
      <4> QED  BY <4>1, <2>3, <2>9
    <3>2. \A a \in Addr : a >= g_free' => id'[a] = NoId  BY <1>1, <2>1, <2>2 DEF Types, history
    <3>3. 0 .. g_free \subseteq 0 .. g_free'  BY <2>1, <2>2
    <3>4. g_free' \in 1 .. MemTop /\ g_news' \in 0 .. g_free' /\ scan' \in 0 .. g_free'  BY <2>1, <2>2
    <3>5. g_stack_array' \in [0 .. STACK_SIZE - 1 -> 0 .. g_free'] /\ globals' \in [Globals -> 0 .. g_free']
      BY <1>1, <2>1, <2>4, <3>3 DEF Types
    <3> QED  BY <1>1, <2>1, <2>3, <2>4, <3>1, <3>2, <3>4, <3>5 DEF Types, Phases, history
  <2>11. \A a \in 0 .. g_news' - 2 : OldCell(mem', id', a, g_news', g_free')
    BY <2>7, <2>8, <2>9 DEF OldCell
  <2>12. g_news' + 1 .. g_free' - 1 = {}  BY <2>1, <2>2
  <2>13. \A k \in Nat \ {0} : ~RootDone(k)'  BY <2>1 DEF RootDone
  <2>14. Roots(mem, id, g_news, g_free)'
    <3>1. ASSUME NEW k \in 1 .. 7
          PROVE  Root(mem, id, GlobalRoot(k), globals[GlobalNames[k]], g_news, g_free)'
      <4>1. ~RootDone(GlobalRoot(k))'  BY <2>2, <2>13 DEF GlobalRoot
      <4>2. Refers(mem', id', globals'[GlobalNames[k]], 1, g_free - 1)
        <5>1. GlobalNames[k] \in Globals  BY SevenGlobals
        <5>2. Refers(mem, id, globals[GlobalNames[k]], 1, g_free - 1)  BY <5>1, <1>1 DEF Run, RunRoots
        <5>3. globals'[GlobalNames[k]] = globals[GlobalNames[k]]  BY <2>1
        <5> QED  BY <5>2, <5>3, <2>6
      <4> QED  BY <4>1, <4>2, <2>8 DEF Root
    <3>2. ASSUME NEW k \in g_stack' .. STACK_SIZE - 1
          PROVE  Root(mem, id, StackRoot(k), g_stack_array[k], g_news, g_free)'
      <4>1. StackRoot(k)' \in Nat \ {0}
        <5>1. g_stack' \in Int /\ k \in Int /\ k >= g_stack'  BY <2>1, <2>2
        <5>2. \A n, x, y \in Int : n > 0 /\ x >= y => n + 7 + 1 + x - y \in Nat \ {0}  OBVIOUS
        <5>3. NSymbols \in Int /\ NSymbols > 0  BY <2>2
        <5>4. NSymbols + 7 + 1 + k - g_stack' \in Nat \ {0}  BY <5>1, <5>2, <5>3
        <5> QED  BY <5>4, SevenGlobals DEF StackRoot
      <4>2. ~RootDone(StackRoot(k))'  BY <4>1, <2>1 DEF RootDone
      <4>3. Refers(mem', id', g_stack_array'[k], 1, g_free - 1)  BY <2>4, <2>6
      <4> QED  BY <4>2, <4>3, <2>8 DEF Root
    <3> QED  BY <3>1, <3>2, SevenGlobals DEF Roots
  <2>15. SymbolsInOrder'
    <3>1. SUFFICES ASSUME NEW s \in Symbols PROVE ~RootDone(s)' /\ SymbolAt(mem', id', s, s)
      BY DEF SymbolsInOrder
    <3>2. s \in Nat \ {0} /\ s \in 0 .. g_free - 1  BY <1>1, <2>2 DEF Run, Symbols
    <3>3. SymbolAt(mem, id, s, s)  BY <1>1 DEF Run
    <3> QED  BY <3>2, <3>3, <2>1, <2>3, <2>13 DEF SymbolAt, history
  <2>16. OnlySymbols'
    <3>1. \A a \in 1 .. g_news' - 2 : mem'[a].type # "TBROKEN_HEART"  BY <2>2, <2>8, <2>9
    <3> QED  BY <3>1, <2>1, <2>2 DEF OnlySymbols
  <2>17. Homes(id', home', g_free')  BY <1>1, <2>1, <2>2 DEF Run, Homes, history
  <2>18. id'[0] = NoId /\ id'[g_news' - 1] = NoId /\ id'[g_news'] = NoId
    BY <1>1, <2>1, <2>2, <2>8 DEF Run, Types, history
  <2>19. next' \in 1 .. NRoots'
    <3>1. NRoots' = NSymbols + 7 + STACK_SIZE - g_stack'  BY SevenGlobals DEF NRoots
    <3>2. g_stack' \in 0 .. STACK_SIZE  BY <2>4
    <3> QED  BY <3>1, <3>2, <2>1, <2>2
  <2>20. NSymbols < g_news' - 1  BY <1>1, <2>8 DEF Run
  <2>21. g_news' + 1 <= g_free' /\ scan' \in g_news' + 1 .. g_free' /\ scan' = g_news' + 1  BY <2>1, <2>2
  <2>22. Collection'
    <3>1. \A a \in g_news' + 1 .. g_free' - 1 : NewCell(mem', id', a, g_news', g_free', scan', phase')
      BY <2>12
    <3>2. mem'[g_news'].type = "TCHAR"  BY <2>1, <2>3
    <3> QED  BY <2>1, <2>4, <2>11, <3>1, <3>2, <2>14, <2>15, <2>16, <2>17, <2>18, <2>19, <2>20, <2>21 DEF Collection
  <2>23. Fits'
    <3>1. Hearts(mem', g_news') = {}  BY <2>2, <2>8, <2>9 DEF Hearts
    <3>2. Covered(mem', g_news') = {}  BY <3>1 DEF Covered
    <3>3. Cardinality(Covered(mem', g_news')) = 0  BY <3>2, FS_EmptySet
    <3> QED  BY <3>3, <2>1, <2>2 DEF Fits
  <2> QED  BY <2>1, <2>10, <2>22, <2>23 DEF IInv
<1> QED  BY <1>2, <1>3, <1>4

-----------------------------------------------------------------------------
(***************************************************************************)
(* gc_copy.                                                                *)
(***************************************************************************)
\* The memory, the identities and the homes after the cell at old is copied.
Copies(old, M, I, H, F) ==
  /\ M = Copied(old)
  /\ I = IF Forwarded(old) THEN id ELSE [id EXCEPT ![g_free] = id[old]]
  /\ H = IF Forwarded(old) THEN home
         ELSE [i \in DOMAIN home |-> IF i = id[old] THEN g_free ELSE home[i]]
  /\ F = g_free + Taken(old)
  /\ F <= MemTop

\* A symbol that has been copied stays one.
KeepsSymbols(M, I, F) ==
  \A s \in Symbols :
    g_news + s < g_free /\ SymbolAt(mem, id, s, g_news + s) => g_news + s < F /\ SymbolAt(M, I, s, g_news + s)

\* What a step of the collector leaves as it was: what refers to the old or
\* to the new space still does, and the cells of the old space are in order.
Keeps(M, I, H, F) ==
  /\ M \in [Addr -> Cells] /\ I \in [Addr -> Ids \cup {NoId}]
  /\ F \in g_free .. MemTop
  /\ \A a \in Addr : a >= F => I[a] = NoId
  /\ DOMAIN H = DOMAIN home /\ Homes(I, H, F)
  /\ \A a \in 0 .. g_free - 1 : I[a] = id[a]
  /\ \A p : Refers(mem, id, p, 1, g_news - 2) => Refers(M, I, p, 1, g_news - 2)
  /\ \A p : Refers(mem, id, p, g_news + 1, g_free - 1) => Refers(M, I, p, g_news + 1, F - 1)
  /\ \A a \in 0 .. g_news - 2 : OldCell(M, I, a, g_news, F)
  /\ M[g_news].type = "TCHAR" /\ M[g_news - 1] = mem[g_news - 1]
  /\ KeepsSymbols(M, I, F)

\* The sizes of the spaces.
LEMMA Spaces ==
  ASSUME Types, Collection
  PROVE  /\ g_news \in Nat /\ g_news > 2 /\ g_free \in Nat /\ g_news < g_free
         /\ g_free <= MemTop /\ MemTop \in Nat /\ Addr = 0 .. MemTop - 1
         /\ mem \in [Addr -> Cells] /\ id \in [Addr -> Ids \cup {NoId}]
<1>1. NSymbols \in Nat \ {0} /\ NSymbols < g_news - 1 /\ g_news + 1 <= g_free /\ g_news \in Int /\ g_free \in 1 .. MemTop
  BY SizesAssumption, Layout DEF Types, Collection
<1> QED  BY <1>1, Layout DEF Types

\* An object that has not been copied.
LEMMA Unforwarded ==
  ASSUME Types, Collection, NEW old, Refers(mem, id, old, 1, g_news - 2), ~Forwarded(old)
  PROVE  /\ old \in Addr /\ old \in Nat /\ old \in 0 .. g_news - 2 /\ old # 0
         /\ mem[old] \in Cells /\ mem[old].type \notin {"free", "TBROKEN_HEART", "raw"}
         /\ Sound(mem, id, old, 1, g_news - 2, g_news - 1)
         /\ Size(mem[old]) \in Nat \ {0} /\ old + Size(mem[old]) <= g_news - 1
<1>1. old \in 1 .. g_news - 2 /\ mem[old].type # "raw"  BY DEF Refers
<1>2. old \in Addr /\ old \in Nat /\ old \in 0 .. g_news - 2 /\ old # 0  BY <1>1, Spaces
<1>3. OldCell(mem, id, old, g_news, g_free)  BY <1>2 DEF Collection
<1>4. Sound(mem, id, old, 1, g_news - 2, g_news - 1)  BY <1>3 DEF OldCell, Forwarded
<1>5. Size(mem[old]) \in Nat \ {0}  BY <1>2, <1>4, Spaces, ShapedSize DEF Sound
<1> QED  BY <1>1, <1>2, <1>4, <1>5, Spaces DEF Sound, Shaped

\* The memory after an object is copied that was not before.
LEMMA CopiedCells ==
  ASSUME Types, Collection, NEW old, Refers(mem, id, old, 1, g_news - 2), ~Forwarded(old),
         NEW M, NEW I, NEW H, NEW F, Copies(old, M, I, H, F)
  PROVE  /\ M \in [Addr -> Cells] /\ I \in [Addr -> Ids \cup {NoId}]
         /\ F = g_free + Size(mem[old]) /\ F \in g_free + 1 .. MemTop
         /\ M[old].type = "TBROKEN_HEART" /\ M[old].car = g_free
         /\ M[g_free].type = mem[old].type /\ M[g_free].car = mem[old].car
         /\ mem[old].type \notin VectorTypes => M[g_free] = mem[old]
         /\ mem[old].type \in VectorTypes => M[g_free].cdr = g_free + 1
         /\ \A a \in g_free + 1 .. F - 1 : M[a] = mem[old + a - g_free]
         /\ \A a \in Addr : a # old /\ a \notin g_free .. F - 1 => M[a] = mem[a]
         /\ I[g_free] = id[old] /\ \A a \in Addr : a # g_free => I[a] = id[a]
<1> DEFINE c == mem[old]
           vector == c.type \in VectorTypes
           from == IF vector THEN c.cdr - 1 ELSE old
           head == IF vector THEN [c EXCEPT !.cdr = g_free + 1] ELSE c
           heart == Cell("TBROKEN_HEART", g_free, c.cdr)
           k == Size(c)
<1>1. /\ g_news \in Nat /\ g_news > 2 /\ g_free \in Nat /\ g_news < g_free
      /\ g_free <= MemTop /\ MemTop \in Nat /\ Addr = 0 .. MemTop - 1
      /\ mem \in [Addr -> Cells] /\ id \in [Addr -> Ids \cup {NoId}]
  BY Spaces
<1>2. /\ old \in Addr /\ old \in Nat /\ c \in Cells /\ k \in Nat \ {0} /\ old + k <= g_news - 1
      /\ Sound(mem, id, old, 1, g_news - 2, g_news - 1)
  BY Unforwarded
<1>3. F = g_free + k /\ F <= MemTop  BY DEF Copies, Taken
<1>4. from = old
  <2>1. vector => c.cdr = old + 1  BY <1>2 DEF Sound, Shaped
  <2>2. c.cdr = old + 1 => c.cdr - 1 = old  BY <1>2
  <2> QED  BY <2>1, <2>2
<1>5. heart \in Cells /\ heart.type = "TBROKEN_HEART" /\ heart.car = g_free
  <2>1. "TBROKEN_HEART" \in CellTypes /\ g_free \in Int /\ c.cdr \in Int  BY <1>1, <1>2 DEF CellTypes, Cells
  <2> QED  BY <2>1, MadeCell
<1>6. head \in Cells /\ head.type = c.type /\ head.car = c.car /\ (vector => head.cdr = g_free + 1)
      /\ (~vector => head = c)
  <2>1. \A r \in Cells, x \in Int :
          LET e == [r EXCEPT !.cdr = x] IN e \in Cells /\ e.type = r.type /\ e.car = r.car /\ e.cdr = x
    BY DEF Cells
  <2>2. c \in Cells /\ g_free + 1 \in Int  BY <1>1, <1>2
  <2> HIDE DEF c
  <2> QED  BY <2>1, <2>2
<1>7. M = [a \in Addr |-> IF a = old THEN heart ELSE IF a = g_free THEN head
                          ELSE IF a \in g_free + 1 .. F - 1 THEN mem[old + a - g_free] ELSE mem[a]]
  <2>1. M = [a \in Addr |-> CASE a = old        -> heart
                              [] a = g_free     -> head
                              [] a \in g_free + 1 .. g_free + k - 1 -> mem[from + a - g_free]
                              [] OTHER          -> mem[a]]
    BY DEF Copies, Copied
  <2> HIDE DEF heart, head, k, from
  <2>2. \A a \in Addr :
          (CASE a = old        -> heart
             [] a = g_free     -> head
             [] a \in g_free + 1 .. g_free + k - 1 -> mem[from + a - g_free]
             [] OTHER          -> mem[a])
          = IF a = old THEN heart ELSE IF a = g_free THEN head
            ELSE IF a \in g_free + 1 .. F - 1 THEN mem[old + a - g_free] ELSE mem[a]
    BY <1>1, <1>2, <1>3, <1>4
  <2> QED  BY <2>1, <2>2
<1>8. I = [id EXCEPT ![g_free] = id[old]]  BY DEF Copies
<1> HIDE DEF c, vector, from, head, heart, k
<1>9. old < g_free /\ g_free \in Addr /\ F \in g_free + 1 .. MemTop  BY <1>1, <1>2, <1>3
<1>10. \A a \in g_free + 1 .. F - 1 : a \in Addr /\ a # old /\ a # g_free /\ old + a - g_free \in Addr
  BY <1>1, <1>2, <1>3, <1>9
<1>11. M \in [Addr -> Cells]  BY <1>1, <1>5, <1>6, <1>7, <1>10
<1>12. I \in [Addr -> Ids \cup {NoId}]  BY <1>1, <1>2, <1>8
<1>13. M[old] = heart /\ M[g_free] = head  BY <1>2, <1>7, <1>9, <1>1
<1>14. \A a \in g_free + 1 .. F - 1 : M[a] = mem[old + a - g_free]  BY <1>7, <1>10
<1>15. \A a \in Addr : a # old /\ a \notin g_free .. F - 1 => M[a] = mem[a]  BY <1>1, <1>7, <1>9
<1>16. I[g_free] = id[old] /\ \A a \in Addr : a # g_free => I[a] = id[a]  BY <1>1, <1>8, <1>9
<1> QED  BY <1>3, <1>5, <1>6, <1>9, <1>11, <1>12, <1>13, <1>14, <1>15, <1>16 DEF c, vector, k

\* The references and the cells of the old space, after a step that changes
\* cells below g_free only in ways that do not matter.
LEMMA AlikeReferences ==
  ASSUME Types, Collection, NEW M, NEW I, NEW F \in Nat, g_free <= F, Alike(mem, id, M, I, g_free)
  PROVE  /\ \A p : Refers(mem, id, p, 1, g_news - 2) => Refers(M, I, p, 1, g_news - 2)
         /\ \A p : Refers(mem, id, p, g_news + 1, g_free - 1) => Refers(M, I, p, g_news + 1, F - 1)
<1>1. g_news \in Nat /\ g_free \in Nat /\ g_news < g_free  BY Spaces
<1>2. ASSUME NEW p, Refers(mem, id, p, 1, g_news - 2) PROVE Refers(M, I, p, 1, g_news - 2)
  <2>1. p \in 0 .. g_free - 1 /\ p \in 1 .. g_news - 2  BY <1>1, <1>2 DEF Refers
  <2> QED  BY <2>1, <1>2 DEF Refers, Alike
<1>3. ASSUME NEW p, Refers(mem, id, p, g_news + 1, g_free - 1) PROVE Refers(M, I, p, g_news + 1, F - 1)
  <2>1. p \in 0 .. g_free - 1 /\ p \in g_news + 1 .. F - 1  BY <1>1, <1>3 DEF Refers
  <2> QED  BY <2>1, <1>3 DEF Refers, Alike
<1> QED  BY <1>2, <1>3

\* A cell of the old space that a step leaves alone stays in order, when the
\* copies of the new space keep their sizes.
LEMMA OldCellKept ==
  ASSUME Types, Collection, NEW M \in [Addr -> Cells], NEW I, NEW F \in Nat, g_free <= F,
         Alike(mem, id, M, I, g_free),
         \A a \in g_news + 1 .. g_free - 1 : Size(M[a]) = Size(mem[a]),
         NEW a \in 0 .. g_news - 2, M[a] = mem[a]
  PROVE  OldCell(M, I, a, g_news, F)
<1>1. /\ g_news \in Nat /\ g_news > 2 /\ g_free \in Nat /\ g_news < g_free
      /\ g_free <= MemTop /\ MemTop \in Nat /\ Addr = 0 .. MemTop - 1
      /\ mem \in [Addr -> Cells] /\ id \in [Addr -> Ids \cup {NoId}]
  BY Spaces
<1>2. OldCell(mem, id, a, g_news, g_free) /\ a \in Addr /\ a \in Nat  BY <1>1 DEF Collection
<1>3. CASE mem[a].type = "TBROKEN_HEART"
  <2>1. Heart(mem, id, a, g_news, g_free)  BY <1>2, <1>3 DEF OldCell
  <2>2. mem[a].car \in g_news + 1 .. g_free - 1  BY <2>1 DEF Heart, Refers
  <2>3. Size(M[M[a].car]) = Size(mem[mem[a].car]) /\ M[a].car = mem[a].car  BY <2>2
  <2>4. mem[a].car \in 0 .. g_free - 1 /\ a \in 0 .. g_free - 1  BY <1>1, <2>2
  <2>5. I[mem[a].car] = id[mem[a].car] /\ I[a] = id[a]  BY <2>4 DEF Alike
  <2>6. Refers(M, I, M[a].car, g_news + 1, F - 1)  BY <2>1, AlikeReferences DEF Heart
  <2>7. \A j \in a + 1 .. a + Size(mem[mem[a].car]) - 1 : j \in 0 .. g_free - 1 /\ I[j] = NoId
    <3>1. a + Size(mem[mem[a].car]) <= g_news - 1 /\ mem[mem[a].car] \in Cells
      BY <2>1, <2>2, <1>1 DEF Heart
    <3>2. Size(mem[mem[a].car]) \in Nat
      <4>1. NewCell(mem, id, mem[a].car, g_news, g_free, scan, phase) /\ mem[a].car \in Addr
        BY <2>2, <1>1 DEF Collection
      <4> QED  BY <4>1, <1>1, ShapedSize DEF NewCell
    <3>3. \A j \in a + 1 .. a + Size(mem[mem[a].car]) - 1 : j \in 0 .. g_free - 1  BY <1>1, <1>2, <3>1, <3>2
    <3> QED  BY <3>3, <2>1 DEF Heart, Alike
  <2> QED  BY <1>3, <2>1, <2>3, <2>5, <2>6, <2>7 DEF OldCell, Heart
<1>4. CASE mem[a].type # "TBROKEN_HEART"
  <2>1. Sound(mem, id, a, 1, g_news - 2, g_news - 1)  BY <1>2, <1>4 DEF OldCell
  <2>2. Alike(mem, id, M, I, g_news - 1)
    <3>1. \A j \in 0 .. g_news - 1 - 1 : j \in 0 .. g_free - 1  BY <1>1
    <3> QED  BY <3>1 DEF Alike
  <2>3. g_news - 1 \in Int /\ g_news - 1 <= g_news - 1 /\ a < g_news - 1 /\ (g_news - 1) - 1 = g_news - 2
    BY <1>1
  <2>4. Sound(M, I, a, 1, (g_news - 1) - 1, g_news - 1)
    BY <2>1, <2>2, <2>3, <1>1, <1>2, KeepsSound
  <2> QED  BY <2>3, <2>4, <1>4 DEF OldCell
<1> QED  BY <1>3, <1>4

\* What a cell of the new space refers to, in either space.
LEMMA CopiedTargets ==
  ASSUME Types, Collection, NEW a \in g_news + 1 .. g_free - 1
  PROVE  /\ mem[a].type \in CarTypes => mem[a].car \in 0 .. g_free - 1
         /\ mem[a].type \in CdrTypes => mem[a].cdr \in 0 .. g_free - 1
<1>1. g_news \in Nat /\ g_free \in Nat /\ g_news < g_free /\ scan \in Int /\ a \in Int
  BY Spaces DEF Types
<1>2. NewCell(mem, id, a, g_news, g_free, scan, phase)  BY DEF Collection
<1>3. mem[a].type \in CarTypes => mem[a].car \in 1 .. g_news - 2 \/ mem[a].car \in g_news + 1 .. g_free - 1
  BY <1>2 DEF NewCell, CarRefers, Refers
<1>4. mem[a].type \in CdrTypes => mem[a].cdr \in 1 .. g_news - 2 \/ mem[a].cdr \in g_news + 1 .. g_free - 1
  BY <1>1, <1>2 DEF NewCell, CdrRefers, Refers
<1> QED  BY <1>1, <1>3, <1>4

\* gc_copy disturbs no reference and no cell but the one it copies.
LEMMA CopyKeeps ==
  ASSUME Types, Collection, NEW old, Refers(mem, id, old, 1, g_news - 2),
         NEW M, NEW I, NEW H, NEW F, Copies(old, M, I, H, F)
  PROVE  /\ Keeps(M, I, H, F)
         /\ Alike(mem, id, M, I, g_free)
         /\ \A a \in 0 .. g_free - 1 : a # old => M[a] = mem[a]
<1>1. /\ g_news \in Nat /\ g_news > 2 /\ g_free \in Nat /\ g_news < g_free
      /\ g_free <= MemTop /\ MemTop \in Nat /\ Addr = 0 .. MemTop - 1
      /\ mem \in [Addr -> Cells] /\ id \in [Addr -> Ids \cup {NoId}]
  BY Spaces
<1>2. old \in 1 .. g_news - 2 /\ mem[old].type # "raw" /\ old \in Nat /\ old \in Addr  BY <1>1 DEF Refers
<1>3. /\ mem[g_news].type = "TCHAR" /\ g_news # old /\ g_news \in 0 .. g_free - 1
      /\ g_news - 1 # old /\ g_news - 1 \in 0 .. g_free - 1
  BY <1>1, <1>2 DEF Collection
<1>4. Homes(id, home, g_free) /\ \A a \in Addr : a >= g_free => id[a] = NoId  BY DEF Collection, Types
<1>5. CASE Forwarded(old)
  <2>1. M = mem /\ I = id /\ H = home /\ F = g_free
    <3>1. F = g_free  BY <1>5, <1>1 DEF Copies, Taken
    <3>2. M = mem  BY <1>5 DEF Copies, Copied
    <3> QED  BY <3>1, <3>2, <1>5 DEF Copies
  <2>2. Alike(mem, id, M, I, g_free)  BY <2>1 DEF Alike
  <2>3. \A a \in 0 .. g_news - 2 : OldCell(M, I, a, g_news, F)  BY <2>1 DEF Collection
  <2>4. F \in g_free .. MemTop  BY <2>1, <1>1
  <2>5. KeepsSymbols(M, I, F)  BY <2>1 DEF KeepsSymbols
  <2> QED  BY <2>1, <2>2, <2>3, <2>4, <2>5, <1>1, <1>3, <1>4 DEF Keeps
<1>6. CASE ~Forwarded(old)
  <2>1. /\ M \in [Addr -> Cells] /\ I \in [Addr -> Ids \cup {NoId}]
        /\ F = g_free + Size(mem[old]) /\ F \in g_free + 1 .. MemTop
        /\ M[old].type = "TBROKEN_HEART" /\ M[old].car = g_free
        /\ M[g_free].type = mem[old].type /\ M[g_free].car = mem[old].car
        /\ \A a \in Addr : a # old /\ a \notin g_free .. F - 1 => M[a] = mem[a]
        /\ I[g_free] = id[old] /\ \A a \in Addr : a # g_free => I[a] = id[a]
    BY <1>6, CopiedCells
  <2>2. /\ Sound(mem, id, old, 1, g_news - 2, g_news - 1)
        /\ Size(mem[old]) \in Nat \ {0} /\ old + Size(mem[old]) <= g_news - 1
    BY <1>6, Unforwarded
  <2>3. \A a \in 0 .. g_free - 1 : a \in Addr /\ I[a] = id[a] /\ (a # old => M[a] = mem[a])
    BY <1>1, <2>1
  <2>4. Alike(mem, id, M, I, g_free)
    <3>1. \A a \in 0 .. g_free - 1 : (M[a].type = "raw" <=> mem[a].type = "raw")
            /\ (mem[a].type \in EntryTypes \cup {"TBROKEN_HEART"} =>
                  M[a].type \in EntryTypes \cup {"TBROKEN_HEART"})
      BY <2>1, <2>3, <1>2
    <3> QED  BY <3>1, <2>3 DEF Alike
  <2>5. F \in Nat /\ g_free <= F /\ F \in g_free .. MemTop  BY <1>1, <2>1
  <2>6. /\ \A p : Refers(mem, id, p, 1, g_news - 2) => Refers(M, I, p, 1, g_news - 2)
        /\ \A p : Refers(mem, id, p, g_news + 1, g_free - 1) => Refers(M, I, p, g_news + 1, F - 1)
    BY <2>4, <2>5, AlikeReferences
  <2>7. \A a \in Addr : a >= F => I[a] = NoId
    <3>1. \A a \in Addr : a >= F => a # g_free /\ a >= g_free  BY <1>1, <2>1, <2>5
    <3> QED  BY <3>1, <2>1, <1>4
  <2>8. DOMAIN H = DOMAIN home /\ Homes(I, H, F)
    <3>1. H = [o \in DOMAIN home |-> IF o = id[old] THEN g_free ELSE home[o]]  BY <1>6 DEF Copies
    <3>2. ASSUME NEW o \in DOMAIN home PROVE H[o] \in 0 .. F - 1 /\ I[H[o]] = o
      <4>1. CASE o = id[old]
        <5>1. g_free \in 0 .. F - 1  BY <1>1, <2>1
        <5> QED  BY <4>1, <5>1, <3>1, <2>1
      <4>2. CASE o # id[old]
        <5>1. home[o] \in 0 .. g_free - 1 /\ id[home[o]] = o  BY <1>4 DEF Homes
        <5>2. home[o] \in 0 .. F - 1  BY <5>1, <1>1, <2>5
        <5> QED  BY <4>2, <5>1, <5>2, <3>1, <2>3
      <4> QED  BY <4>1, <4>2
    <3> QED  BY <3>1, <3>2 DEF Homes
  <2>9. ASSUME NEW a \in 0 .. g_news - 2 PROVE OldCell(M, I, a, g_news, F)
    <3>1. CASE a = old
      <4>1. Refers(M, I, g_free, g_news + 1, F - 1)
        <5>1. g_free \in g_news + 1 .. F - 1  BY <1>1, <2>1
        <5> QED  BY <5>1, <2>1, <1>2 DEF Refers
      <4>2. I[M[old].car] = I[old] /\ I[old] = id[old]
        <5>1. old \in 0 .. g_free - 1  BY <1>1, <1>2
        <5> QED  BY <5>1, <2>1, <2>3
      <4>3. ~Interior => I[old] # NoId  BY <4>2 DEF Refers
      <4>4. Size(M[M[old].car]) = Size(mem[old])  BY <2>1 DEF Size
      <4>5. \A j \in old + 1 .. old + Size(mem[old]) - 1 : I[j] = NoId
        <5>1. \A j \in old + 1 .. old + Size(mem[old]) - 1 : j \in 0 .. g_free - 1 /\ j \in Rest(mem, old)
          BY <1>1, <1>2, <2>2 DEF Rest
        <5> QED  BY <5>1, <2>2, <2>3 DEF Sound, Shaped
      <4> QED  BY <3>1, <4>1, <4>2, <4>3, <4>4, <4>5, <2>1, <2>2 DEF OldCell, Heart
    <3>2. CASE a # old
      <4>1. a \in 0 .. g_free - 1 /\ M[a] = mem[a]  BY <1>1, <2>3, <3>2
      <4>2. \A b \in g_news + 1 .. g_free - 1 : b \in 0 .. g_free - 1 /\ b # old  BY <1>1, <1>2
      <4>3. \A b \in g_news + 1 .. g_free - 1 : Size(M[b]) = Size(mem[b])  BY <4>2, <2>3
      <4> QED  BY <4>1, <4>3, <2>1, <2>4, <2>5, OldCellKept
    <3> QED  BY <3>1, <3>2
  <2>10. M[g_news].type = "TCHAR" /\ M[g_news - 1] = mem[g_news - 1]  BY <1>3, <2>3
  <2>11. KeepsSymbols(M, I, F)
    <3>1. SUFFICES ASSUME NEW s \in Symbols, g_news + s < g_free, SymbolAt(mem, id, s, g_news + s)
                   PROVE  g_news + s < F /\ SymbolAt(M, I, s, g_news + s)
      BY DEF KeepsSymbols
    <3>2. s \in Nat \ {0}  BY DEF Symbols
    <3>3. g_news + s \in 0 .. g_free - 1 /\ g_news + s # old /\ g_news + s < F /\ g_news + s \in g_news + 1 .. g_free - 1
      BY <3>1, <3>2, <2>5, <1>1, <1>2
    <3>4. mem[g_news + s].cdr \in 0 .. g_free - 1
      BY <3>1, <3>3, <1>1, CopiedTargets DEF SymbolAt, CdrTypes
    <3> QED  BY <3>1, <3>3, <3>4, <2>3 DEF SymbolAt
  <2> QED  BY <2>1, <2>3, <2>4, <2>5, <2>6, <2>7, <2>8, <2>9, <2>10, <2>11 DEF Keeps
<1> QED  BY <1>5, <1>6

\* A cell of the new space that a step leaves alone stays in order.
LEMMA NewCellKept ==
  ASSUME Types, Collection, NEW M \in [Addr -> Cells], NEW I, NEW F \in Nat, g_free <= F,
         Alike(mem, id, M, I, g_free), NEW sc, NEW ph,
         \A a \in g_news + 1 .. g_free - 1 :
           mem[a].type \in EntryTypes \cup {"TBROKEN_HEART", "raw"} => M[a].type = mem[a].type,
         NEW a \in g_news + 1 .. g_free - 1, M[a] = mem[a],
         CarDone(a, sc, ph) <=> CarDone(a, scan, phase), a < sc <=> a < scan, a >= sc <=> a >= scan
  PROVE  NewCell(M, I, a, g_news, F, sc, ph)
<1>1. /\ g_news \in Nat /\ g_news > 2 /\ g_free \in Nat /\ g_news < g_free
      /\ g_free <= MemTop /\ MemTop \in Nat /\ Addr = 0 .. MemTop - 1
      /\ mem \in [Addr -> Cells] /\ id \in [Addr -> Ids \cup {NoId}]
  BY Spaces
<1>2. NewCell(mem, id, a, g_news, g_free, scan, phase) /\ a \in Addr /\ a \in Nat  BY <1>1 DEF Collection
<1>3. Shaped(M, I, a, F)
  <2>1. Shaped(mem, id, a, g_free)  BY <1>2 DEF NewCell
  <2>2. \A j \in a + 1 .. g_free - 1 :
           /\ I[j] = id[j]
           /\ mem[j].type = "raw" => M[j].type = "raw"
           /\ mem[j].type \in EntryTypes \cup {"TBROKEN_HEART"} =>
                M[j].type \in EntryTypes \cup {"TBROKEN_HEART"}
    <3>1. \A j \in a + 1 .. g_free - 1 : j \in 0 .. g_free - 1  BY <1>1
    <3> QED  BY <3>1 DEF Alike
  <2>3. g_free \in Int /\ F \in Int  BY <1>1
  <2> QED  BY <2>1, <2>2, <2>3, <1>1, <1>2, KeepsShape
<1>4. /\ \A p : Refers(mem, id, p, 1, g_news - 2) => Refers(M, I, p, 1, g_news - 2)
      /\ \A p : Refers(mem, id, p, g_news + 1, g_free - 1) => Refers(M, I, p, g_news + 1, F - 1)
  BY AlikeReferences
<1> QED  BY <1>2, <1>3, <1>4 DEF NewCell, CarRefers, CdrRefers

\* The cells a copy makes have not been scanned.
LEMMA Unscanned ==
  ASSUME Types, Collection, Collecting, NEW a \in Int, a >= g_free
  PROVE  ~CarDone(a, scan, phase) /\ ~(a < scan) /\ a >= scan
<1>1. scan \in Int /\ g_free \in Int /\ scan <= g_free /\ (phase = "cdr" => scan < g_free)
  BY Spaces DEF Collection
<1> QED  BY <1>1 DEF CarDone

\* The new space after a copy.
LEMMA CopyNewCells ==
  ASSUME Types, Collection, Collecting, NEW old, Refers(mem, id, old, 1, g_news - 2),
         NEW M, NEW I, NEW H, NEW F, Copies(old, M, I, H, F)
  PROVE  \A a \in g_news + 1 .. F - 1 : NewCell(M, I, a, g_news, F, scan, phase)
<1>1. /\ g_news \in Nat /\ g_news > 2 /\ g_free \in Nat /\ g_news < g_free
      /\ g_free <= MemTop /\ MemTop \in Nat /\ Addr = 0 .. MemTop - 1
      /\ mem \in [Addr -> Cells] /\ id \in [Addr -> Ids \cup {NoId}]
  BY Spaces
<1>2. /\ Keeps(M, I, H, F) /\ Alike(mem, id, M, I, g_free)
      /\ \A a \in 0 .. g_free - 1 : a # old => M[a] = mem[a]
  BY CopyKeeps
<1>3. F \in g_free .. MemTop /\ F \in Nat /\ g_free <= F /\ M \in [Addr -> Cells]  BY <1>1, <1>2 DEF Keeps
<1>4. \A a \in g_news + 1 .. g_free - 1 : M[a] = mem[a]
  <2>1. \A a \in g_news + 1 .. g_free - 1 : a \in 0 .. g_free - 1 /\ a # old  BY <1>1 DEF Refers
  <2> QED  BY <2>1, <1>2
<1>5. ASSUME NEW a \in g_news + 1 .. g_free - 1 PROVE NewCell(M, I, a, g_news, F, scan, phase)
  <2>1. M[a] = mem[a] /\ \A b \in g_news + 1 .. g_free - 1 :
          mem[b].type \in EntryTypes \cup {"TBROKEN_HEART", "raw"} => M[b].type = mem[b].type
    BY <1>4
  <2> QED  BY <2>1, <1>2, <1>3, NewCellKept
<1>6. CASE Forwarded(old)
  <2>1. F = g_free  BY <1>6, <1>1 DEF Copies, Taken
  <2> QED  BY <2>1, <1>5
<1>7. CASE ~Forwarded(old)
  <2> DEFINE c == mem[old]
  <2>1. /\ F = g_free + Size(c)
        /\ M[g_free].type = c.type /\ M[g_free].car = c.car
        /\ c.type \notin VectorTypes => M[g_free] = c
        /\ c.type \in VectorTypes => M[g_free].cdr = g_free + 1
        /\ \A a \in g_free + 1 .. F - 1 : M[a] = mem[old + a - g_free]
        /\ \A a \in Addr : a # g_free => I[a] = id[a]
    BY <1>7, CopiedCells
  <2>2. /\ old \in Nat /\ old \in Addr /\ c \in Cells /\ c.type \notin {"free", "TBROKEN_HEART", "raw"}
        /\ Sound(mem, id, old, 1, g_news - 2, g_news - 1)
        /\ Size(c) \in Nat \ {0} /\ old + Size(c) <= g_news - 1
    BY <1>7, Unforwarded
  <2>3. \A p : Refers(mem, id, p, 1, g_news - 2) => Refers(M, I, p, 1, g_news - 2)  BY <1>2 DEF Keeps
  <2>4. \A a \in g_free .. F - 1 : a \in Addr /\ a \in Int /\ a >= g_free /\ (a # g_free => I[a] = NoId)
    <3>1. \A a \in g_free .. F - 1 : a \in Addr /\ a \in Int /\ a >= g_free  BY <1>1, <1>3
    <3> QED  BY <3>1, <2>1 DEF Types
  <2> HIDE DEF c
  <2>5. NewCell(M, I, g_free, g_news, F, scan, phase)
    <3>1. Size(M[g_free]) = Size(c)  BY <2>1 DEF Size
    <3>2. g_free + Size(M[g_free]) <= F  BY <2>1, <3>1, <1>1, <1>3
    <3>3. ASSUME NEW j \in Rest(M, g_free)
          PROVE  /\ M[g_free].type \in VectorTypes => M[j].type \in EntryTypes \cup {"TBROKEN_HEART"}
                 /\ M[g_free].type = "TBYTES" => M[j].type = "raw"
                 /\ I[j] = NoId
      <4>1. j \in g_free + 1 .. F - 1 /\ old + j - g_free \in Rest(mem, old)
        <5>1. j \in g_free + 1 .. g_free + Size(M[g_free]) - 1  BY <3>3 DEF Rest
        <5>2. F = g_free + Size(c)  BY <2>1
        <5>3. j \in g_free + 1 .. g_free + Size(c) - 1 /\ j \in Int  BY <5>1, <3>1
        <5>4. old + j - g_free \in old + 1 .. old + Size(c) - 1  BY <5>3, <2>2, <1>1
        <5>5. old + j - g_free \in Rest(mem, old)  BY <5>4 DEF Rest, c
        <5>6. j \in g_free + 1 .. F - 1  BY <5>2, <5>3, <1>1, <1>3, <2>2
        <5> QED  BY <5>5, <5>6
      <4>2. j \in g_free .. F - 1 /\ j # g_free  BY <4>1, <1>1
      <4> QED  BY <4>1, <4>2, <2>1, <2>2, <2>4 DEF Sound, Shaped, c
    <3>4. Shaped(M, I, g_free, F)  BY <2>1, <2>2, <3>2, <3>3 DEF Shaped, Sound, c
    <3>5. CarRefers(M, I, g_free, 1, g_news - 2)  BY <2>1, <2>2, <2>3 DEF Sound, CarRefers, c
    <3>6. CdrRefers(M, I, g_free, 1, g_news - 2)
      BY <2>1, <2>2, <2>3 DEF Sound, CdrRefers, c, CdrTypes, VectorTypes
    <3>7. ~CarDone(g_free, scan, phase) /\ ~(g_free < scan) /\ g_free >= scan  BY <1>1, Unscanned
    <3> QED  BY <2>1, <2>2, <3>4, <3>5, <3>6, <3>7 DEF NewCell
  <2>6. ASSUME NEW a \in g_free + 1 .. F - 1 PROVE NewCell(M, I, a, g_news, F, scan, phase)
    <3> DEFINE b == old + a - g_free
    <3>1. b \in Rest(mem, old) /\ b \in 0 .. g_news - 2 /\ M[a] = mem[b] /\ a \in Int /\ a < F
      <4>1. M[a] = mem[b] /\ F = g_free + Size(c)  BY <2>1
      <4>2. a \in Int /\ a >= g_free + 1 /\ a < F /\ Size(c) \in Nat /\ F \in Nat  BY <1>1, <1>3, <2>2
      <4>3. b \in old + 1 .. old + Size(c) - 1 /\ b \in 0 .. g_news - 2  BY <4>1, <4>2, <2>2, <1>1
      <4> QED  BY <4>1, <4>2, <4>3 DEF Rest, c
    <3>2. id[b] = NoId /\ mem[b].type \in EntryTypes \cup {"TBROKEN_HEART", "raw"}
      <4>1. c.type \in VectorTypes \/ c.type = "TBYTES"
        <5>1. ASSUME c.type \notin VectorTypes \cup {"TBYTES"} PROVE FALSE
          <6>1. Size(c) = 1  BY <5>1, SmallCell
          <6> QED  BY <6>1, <2>1, <1>1
        <5> QED  BY <5>1
      <4> QED  BY <4>1, <3>1, <2>2 DEF Sound, Shaped, c
    <3>3. OldCell(mem, id, b, g_news, g_free)  BY <3>1 DEF Collection
    <3>4. a \in g_free .. F - 1 /\ a \in Int /\ a >= g_free  BY <1>1
    <3>5. ~CarDone(a, scan, phase) /\ ~(a < scan) /\ a >= scan  BY <3>4, Unscanned
    <3> HIDE DEF b
    <3>6. M[a].type = "TBROKEN_HEART" => Interior  BY <3>1, <3>2, <3>3 DEF OldCell, Heart
    <3>7. M[a].type \in CarTypes => Refers(M, I, M[a].car, 1, g_news - 2)
      <4>1. ASSUME M[a].type \in CarTypes PROVE Refers(mem, id, M[a].car, 1, g_news - 2)
        BY <4>1, <3>1, <3>3 DEF OldCell, Sound, CarRefers, CarTypes
      <4> QED  BY <4>1, <2>3
    <3>8. M[a].type \notin CdrTypes \cup VectorTypes \cup {"TBYTES", "free"}
      BY <3>1, <3>2 DEF EntryTypes, CdrTypes, VectorTypes
    <3>9. Shaped(M, I, a, F)
      <4>1. Size(M[a]) = 1  BY <3>8, SmallCell
      <4>2. Rest(M, a) = {} /\ a + Size(M[a]) <= F  BY <4>1, <3>1, <1>3 DEF Rest
      <4> QED  BY <4>2, <3>8 DEF Shaped
    <3> QED  BY <3>5, <3>6, <3>7, <3>8, <3>9 DEF NewCell, CarRefers, CdrRefers
  <2>7. \A a \in g_news + 1 .. F - 1 : a \in g_news + 1 .. g_free - 1 \/ a = g_free \/ a \in g_free + 1 .. F - 1
    BY <1>1, <1>3
  <2> QED  BY <2>5, <2>6, <2>7, <1>5
<1> QED  BY <1>6, <1>7

\* The result of gc_copy: a reference to the copy, which is the same object.
LEMMA CopyResult ==
  ASSUME Types, Collection, NEW old, Refers(mem, id, old, 1, g_news - 2),
         NEW M, NEW I, NEW H, NEW F, Copies(old, M, I, H, F)
  PROVE  /\ Refers(M, I, NewOf(old), g_news + 1, F - 1)
         /\ I[NewOf(old)] = id[old]
<1>1. /\ g_news \in Nat /\ g_news > 2 /\ g_free \in Nat /\ g_news < g_free
      /\ g_free <= MemTop /\ MemTop \in Nat /\ Addr = 0 .. MemTop - 1
      /\ mem \in [Addr -> Cells] /\ id \in [Addr -> Ids \cup {NoId}]
  BY Spaces
<1>2. Keeps(M, I, H, F)  BY CopyKeeps
<1>3. CASE Forwarded(old)
  <2>1. NewOf(old) = mem[old].car  BY <1>3 DEF NewOf
  <2>2. old \in 0 .. g_news - 2  BY <1>1 DEF Refers
  <2>3. Heart(mem, id, old, g_news, g_free)  BY <1>3, <2>2 DEF Collection, OldCell, Forwarded
  <2>4. mem[old].car \in 0 .. g_free - 1  BY <2>3, <1>1 DEF Heart, Refers
  <2> QED  BY <2>1, <2>3, <2>4, <1>2 DEF Heart, Keeps
<1>4. CASE ~Forwarded(old)
  <2>1. /\ F \in g_free + 1 .. MemTop /\ M[g_free].type = mem[old].type /\ I[g_free] = id[old]
    BY <1>4, CopiedCells
  <2>2. g_free \in g_news + 1 .. F - 1  BY <2>1, <1>1
  <2>3. NewOf(old) = g_free  BY <1>4 DEF NewOf
  <2> QED  BY <2>1, <2>2, <2>3 DEF Refers
<1> QED  BY <1>3, <1>4

-----------------------------------------------------------------------------
(***************************************************************************)
(* The new space is as large as what has been copied from the old one.     *)
(***************************************************************************)
\* What the hearts of the old space cover, and that they do not overlap.
LEMMA HeartCovers ==
  ASSUME Types, Collection, NEW a \in Hearts(mem, g_news)
  PROVE  /\ a \in 0 .. g_news - 2 /\ a \in 1 .. g_news - 2 /\ Heart(mem, id, a, g_news, g_free)
         /\ mem[a].car \in g_news + 1 .. g_free - 1
         /\ Size(mem[mem[a].car]) \in Nat \ {0}
         /\ Extent(mem, a) \subseteq 1 .. g_news - 2
<1>1. /\ g_news \in Nat /\ g_news > 2 /\ g_free \in Nat /\ g_news < g_free
      /\ g_free <= MemTop /\ MemTop \in Nat /\ Addr = 0 .. MemTop - 1
      /\ mem \in [Addr -> Cells] /\ id \in [Addr -> Ids \cup {NoId}]
  BY Spaces
<1>2. a \in 0 .. g_news - 2 /\ a \in 1 .. g_news - 2 /\ mem[a].type = "TBROKEN_HEART"  BY <1>1 DEF Hearts
<1>3. Heart(mem, id, a, g_news, g_free)  BY <1>2 DEF Collection, OldCell
<1>4. mem[a].car \in g_news + 1 .. g_free - 1 /\ mem[a].car \in Addr  BY <1>1, <1>3 DEF Heart, Refers
<1>5. Size(mem[mem[a].car]) \in Nat \ {0}
  <2>1. Shaped(mem, id, mem[a].car, g_free)  BY <1>4 DEF Collection, NewCell
  <2> QED  BY <2>1, <1>1, <1>4, ShapedSize
<1>6. a + Size(mem[mem[a].car]) <= g_news - 1  BY <1>3 DEF Heart
<1>7. Extent(mem, a) \subseteq 1 .. g_news - 2  BY <1>1, <1>2, <1>5, <1>6 DEF Extent
<1> QED  BY <1>2, <1>3, <1>4, <1>5, <1>7

\* The cells that broken hearts cover are fewer than the old space has.
LEMMA CoveredBound ==
  ASSUME Types, Collection
  PROVE  /\ Covered(mem, g_news) \subseteq 1 .. g_news - 2
         /\ IsFiniteSet(Covered(mem, g_news))
         /\ Cardinality(Covered(mem, g_news)) \in Nat
         /\ Cardinality(Covered(mem, g_news)) <= g_news - 2
<1>1. g_news \in Nat /\ g_news > 2  BY Spaces
<1>2. Covered(mem, g_news) \in SUBSET (1 .. g_news - 2)  BY HeartCovers DEF Covered
<1>3. IsFiniteSet(1 .. g_news - 2) /\ Cardinality(1 .. g_news - 2) = g_news - 2
  <2>1. 1 \in Int /\ g_news - 2 \in Int /\ ~(1 > g_news - 2)  BY <1>1
  <2>2. Cardinality(1 .. g_news - 2) = (g_news - 2) - 1 + 1 /\ IsFiniteSet(1 .. g_news - 2)  BY <2>1, FS_Interval
  <2> QED  BY <2>2, <1>1
<1>4. IsFiniteSet(Covered(mem, g_news)) /\ Cardinality(Covered(mem, g_news)) <= g_news - 2
  <2> DEFINE I == 1 .. g_news - 2
             C == Covered(mem, g_news)
  <2>1. IsFiniteSet(I) /\ Cardinality(I) = g_news - 2 /\ C \in SUBSET I  BY <1>2, <1>3
  <2> HIDE DEF I, C
  <2>2. IsFiniteSet(C) /\ Cardinality(C) <= Cardinality(I)  BY <2>1, FS_Subset
  <2> QED  BY <2>1, <2>2 DEF C
<1> QED  BY <1>2, <1>4, FS_CardinalityType

\* The new space never holds more cells than the old one.
LEMMA FitsOld ==
  ASSUME Types, Collection, Fits
  PROVE  g_free - g_news <= g_news - 1
<1>1. g_news \in Nat /\ g_news > 2 /\ g_free \in Nat  BY Spaces
<1> QED  BY <1>1, CoveredBound DEF Fits

\* The heart that a copy leaves covers as many cells as it takes, and none
\* that another covers: each has an identity of its own.
LEMMA CopyFits ==
  ASSUME Types, Collection, Fits, ~Interior, NEW old, Refers(mem, id, old, 1, g_news - 2),
         NEW M, NEW I, NEW H, NEW F, Copies(old, M, I, H, F)
  PROVE  Cardinality(Covered(M, g_news)) = F - g_news - 1
<1>1. /\ g_news \in Nat /\ g_news > 2 /\ g_free \in Nat /\ g_news < g_free
      /\ g_free <= MemTop /\ MemTop \in Nat /\ Addr = 0 .. MemTop - 1
      /\ mem \in [Addr -> Cells] /\ id \in [Addr -> Ids \cup {NoId}]
  BY Spaces
<1>2. CASE Forwarded(old)
  <2>1. M = mem /\ F = g_free  BY <1>2, <1>1 DEF Copies, Taken, Copied
  <2> QED  BY <2>1 DEF Fits
<1>3. CASE ~Forwarded(old)
  <2> DEFINE k == Size(mem[old])
             E == old .. old + k - 1
             C == Covered(mem, g_news)
  <2>1. /\ F = g_free + k /\ F \in g_free + 1 .. MemTop
        /\ M[old].type = "TBROKEN_HEART" /\ M[old].car = g_free
        /\ M[g_free].type = mem[old].type /\ M[g_free].car = mem[old].car
    BY <1>3, CopiedCells
  <2>2. /\ old \in Nat /\ old \in 1 .. g_news - 2 /\ mem[old].type # "TBROKEN_HEART"
        /\ Sound(mem, id, old, 1, g_news - 2, g_news - 1)
        /\ k \in Nat \ {0} /\ old + k <= g_news - 1 /\ id[old] # NoId
    BY <1>3, Unforwarded DEF Refers
  <2>3. \A a \in 0 .. g_free - 1 : a # old => M[a] = mem[a]  BY CopyKeeps
  <2>4. Hearts(M, g_news) = Hearts(mem, g_news) \cup {old}
    <3>1. \A a \in 1 .. g_news - 2 : a \in 0 .. g_free - 1  BY <1>1
    <3> QED  BY <3>1, <2>1, <2>2, <2>3 DEF Hearts
  <2>5. Extent(M, old) = E  BY <2>1 DEF Extent, Size
  <2>6. \A a \in Hearts(mem, g_news) : Extent(M, a) = Extent(mem, a)
    <3>1. SUFFICES ASSUME NEW a \in Hearts(mem, g_news) PROVE Extent(M, a) = Extent(mem, a)
      OBVIOUS
    <3>2. a \in 0 .. g_news - 2 /\ mem[a].car \in g_news + 1 .. g_free - 1 /\ a # old
      BY HeartCovers, <2>2 DEF Hearts
    <3>3. a \in 0 .. g_free - 1 /\ mem[a].car \in 0 .. g_free - 1 /\ mem[a].car # old  BY <3>2, <2>2, <1>1
    <3> QED  BY <3>2, <3>3, <2>3 DEF Extent
  <2>7. Covered(M, g_news) = C \cup E  BY <2>4, <2>5, <2>6 DEF Covered
  <2>8. C \cap E = {}
    <3>1. SUFFICES ASSUME NEW a \in Hearts(mem, g_news), NEW x, x \in Extent(mem, a), x \in E PROVE FALSE
      BY DEF Covered
    <3>2. /\ a \in 1 .. g_news - 2 /\ Heart(mem, id, a, g_news, g_free) /\ a # old
          /\ Size(mem[mem[a].car]) \in Nat \ {0}
      BY HeartCovers, <2>2 DEF Hearts
    <3>3. x \in Int /\ x >= a /\ x < a + Size(mem[mem[a].car]) /\ x >= old /\ x < old + k
      BY <3>1, <3>2, <2>2 DEF Extent
    <3>4. CASE a < old
      <4>1. old \in a + 1 .. a + Size(mem[mem[a].car]) - 1  BY <3>2, <3>3, <3>4, <2>2
      <4> QED  BY <4>1, <3>2, <2>2 DEF Heart
    <3>5. CASE old < a
      <4>1. a \in Rest(mem, old)  BY <3>2, <3>3, <3>5, <2>2 DEF Rest
      <4>2. id[a] = NoId  BY <4>1, <2>2 DEF Sound, Shaped
      <4> QED  BY <4>2, <3>2 DEF Heart
    <3> QED  BY <3>2, <3>4, <3>5, <2>2
  <2>9. IsFiniteSet(E) /\ Cardinality(E) = k
    <3>1. old \in Int /\ old + k - 1 \in Int /\ ~(old > old + k - 1)  BY <2>2
    <3>2. Cardinality(old .. old + k - 1) = (old + k - 1) - old + 1 /\ IsFiniteSet(old .. old + k - 1)
      BY <3>1, FS_Interval
    <3> QED  BY <3>2, <2>2
  <2>10. IsFiniteSet(C) /\ Cardinality(C) = g_free - g_news - 1  BY CoveredBound DEF Fits
  <2> HIDE DEF C, E, k
  <2>11. Cardinality(C \cup E) = Cardinality(C) + Cardinality(E) - Cardinality(C \cap E)
    BY <2>9, <2>10, FS_Union
  <2>12. Cardinality(C \cap E) = 0  BY <2>8, FS_EmptySet
  <2> QED  BY <2>1, <2>2, <2>7, <2>9, <2>10, <2>11, <2>12, <1>1
<1> QED  BY <1>2, <1>3

-----------------------------------------------------------------------------
(***************************************************************************)
(* gc_loop.                                                                *)
(***************************************************************************)
\* The scan pointer goes from scan, in phase, to sc, in ph: what it passes
\* besides the cell at scan is the inside of a block of bytes.
Passes(m, F, sc, ph) ==
  \A a \in g_news + 1 .. F - 1 : a # scan =>
    \/ m[a].type = "raw"
    \/ /\ CarDone(a, sc, ph) <=> CarDone(a, scan, phase)
       /\ a < sc <=> a < scan
       /\ a >= sc <=> a >= scan

\* The cell at scan becomes new, an object of the same type and size.
Rewrites(M, I, new) ==
  /\ new \in Cells /\ new.type = mem[scan].type
  /\ new.type \in VectorTypes \cup {"TBYTES"} => new = mem[scan]
  /\ new.type = "TSPECIAL" => I[new.cdr] = id[mem[scan].cdr]

\* What a rewritten cell at scan refers to.
Relocated(M, I, F, new, sc, ph) ==
  /\ new.type = "TBROKEN_HEART" => ~CarDone(scan, sc, ph)
  /\ new.type \in CarTypes /\ CarDone(scan, sc, ph) => Refers(M, I, new.car, g_news + 1, F - 1)
  /\ new.type \in CarTypes /\ ~CarDone(scan, sc, ph) => Refers(M, I, new.car, 1, g_news - 2)
  /\ new.type \in CdrTypes /\ scan < sc => Refers(M, I, new.cdr, g_news + 1, F - 1)
  /\ new.type \in CdrTypes /\ scan >= sc => Refers(M, I, new.cdr, 1, g_news - 2)

\* The memory M that a copy leaves becomes M2 when the cell at scan does new.
ScanStepTakes(M, I, H, F, new, M2, sc, ph) ==
  /\ Keeps(M, I, H, F) /\ M[scan] = mem[scan]
  /\ \A a \in g_news + 1 .. F - 1 : NewCell(M, I, a, g_news, F, scan, phase)
  /\ Rewrites(M, I, new) /\ M2 = [M EXCEPT ![scan] = new]
  /\ Passes(M, F, sc, ph) /\ Relocated(M, I, F, new, sc, ph)

\* Rewriting the cell at scan, after a copy, keeps both spaces in order.
LEMMA ScanStep ==
  ASSUME Types, Collection, scan < g_free,
         NEW M, NEW I, NEW H, NEW F, NEW new, NEW M2, NEW sc, NEW ph,
         ScanStepTakes(M, I, H, F, new, M2, sc, ph)
  PROVE  /\ Keeps(M2, I, H, F)
         /\ \A a \in g_news + 1 .. F - 1 : NewCell(M2, I, a, g_news, F, sc, ph)
         /\ Covered(M2, g_news) = Covered(M, g_news)
<1>a. /\ Keeps(M, I, H, F) /\ M[scan] = mem[scan]
      /\ \A a \in g_news + 1 .. F - 1 : NewCell(M, I, a, g_news, F, scan, phase)
      /\ Rewrites(M, I, new) /\ M2 = [M EXCEPT ![scan] = new]
      /\ Passes(M, F, sc, ph) /\ Relocated(M, I, F, new, sc, ph)
  BY DEF ScanStepTakes
<1>1. /\ g_news \in Nat /\ g_news > 2 /\ g_free \in Nat /\ g_news < g_free
      /\ g_free <= MemTop /\ MemTop \in Nat /\ Addr = 0 .. MemTop - 1
      /\ mem \in [Addr -> Cells] /\ id \in [Addr -> Ids \cup {NoId}]
  BY Spaces
<1>2. scan \in g_news + 1 .. g_free - 1 /\ scan \in Addr /\ scan \in Nat
  <2>1. scan \in g_news + 1 .. g_free  BY DEF Collection
  <2> QED  BY <2>1, <1>1
<1>3. F \in Nat /\ g_free <= F /\ F <= MemTop /\ M \in [Addr -> Cells] /\ scan \in g_news + 1 .. F - 1
  BY <1>1, <1>2, <1>a DEF Keeps
<1>4. /\ M2 \in [Addr -> Cells] /\ M2[scan] = new /\ \A a \in Addr : a # scan => M2[a] = M[a]
  BY <1>2, <1>3, <1>a DEF Rewrites
<1>5. \A a \in Addr : M2[a].type = M[a].type
  BY <1>4, <1>a DEF Rewrites
<1>6. \A a \in Addr : Size(M2[a]) = Size(M[a])
  <2>1. Size(new) = Size(mem[scan])
    <3>1. CASE new.type \in VectorTypes \cup {"TBYTES"}  BY <3>1, <1>a DEF Rewrites
    <3>2. CASE new.type \notin VectorTypes \cup {"TBYTES"}  BY <3>2, SmallCell, <1>a DEF Rewrites
    <3> QED  BY <3>1, <3>2
  <2> QED  BY <2>1, <1>4, <1>a
<1>7. \A a \in 0 .. g_news - 2 : a \in Addr /\ a # scan /\ M2[a] = M[a]  BY <1>1, <1>2, <1>4
<1>8. \A a \in g_news + 1 .. F - 1 : a \in Addr /\ a \in Nat  BY <1>1, <1>3
<1>9. \A p : Refers(M, I, p, 1, g_news - 2) => Refers(M2, I, p, 1, g_news - 2)
  <2>1. \A p \in 1 .. g_news - 2 : p \in Addr  BY <1>1
  <2> QED  BY <2>1, <1>5 DEF Refers
<1>10. \A p : Refers(M, I, p, g_news + 1, F - 1) => Refers(M2, I, p, g_news + 1, F - 1)
  BY <1>5, <1>8 DEF Refers
<1>11. ASSUME NEW a \in 0 .. g_news - 2 PROVE OldCell(M2, I, a, g_news, F)
  <2>1. OldCell(M, I, a, g_news, F) /\ M2[a] = M[a] /\ a \in Addr  BY <1>7, <1>a DEF Keeps
  <2>2. CASE M[a].type = "TBROKEN_HEART"
    <3>1. Heart(M, I, a, g_news, F)  BY <2>1, <2>2 DEF OldCell
    <3>2. M[a].car \in Addr  BY <3>1, <1>8 DEF Heart, Refers
    <3>3. Size(M2[M2[a].car]) = Size(M[M[a].car])  BY <3>2, <2>1, <1>6
    <3>4. Refers(M2, I, M2[a].car, g_news + 1, F - 1)  BY <3>1, <2>1, <1>10 DEF Heart
    <3> QED  BY <3>1, <3>3, <3>4, <2>1, <2>2 DEF OldCell, Heart
  <2>3. CASE M[a].type # "TBROKEN_HEART"
    <3>1. Sound(M, I, a, 1, g_news - 2, g_news - 1)  BY <2>1, <2>3 DEF OldCell
    <3>2. Alike(M, I, M2, I, g_news - 1)
      <4>1. \A j \in 0 .. g_news - 1 - 1 : j \in 0 .. g_news - 2  BY <1>1
      <4> QED  BY <4>1, <1>7 DEF Alike
    <3>3. g_news - 1 \in Int /\ g_news - 1 <= g_news - 1 /\ a < g_news - 1 /\ (g_news - 1) - 1 = g_news - 2
      BY <1>1
    <3>4. Sound(M2, I, a, 1, (g_news - 1) - 1, g_news - 1)
      BY <3>1, <3>2, <3>3, <2>1, <1>3, <1>4, KeepsSound
    <3> QED  BY <3>3, <3>4, <2>1, <2>3 DEF OldCell
  <2> QED  BY <2>2, <2>3
<1>12. ASSUME NEW a \in g_news + 1 .. F - 1 PROVE NewCell(M2, I, a, g_news, F, sc, ph)
  <2>1. NewCell(M, I, a, g_news, F, scan, phase) /\ a \in Addr /\ a \in Nat  BY <1>8, <1>a
  <2>2. Shaped(M2, I, a, F)
    <3>1. Shaped(M, I, a, F)  BY <2>1 DEF NewCell
    <3>2. M[a].type \in VectorTypes \cup {"TBYTES"} => M2[a] = M[a]  BY <2>1, <1>4, <1>5, <1>a DEF Rewrites
    <3>3. \A j \in a + 1 .. F - 1 : j \in Addr  BY <1>1, <1>3, <2>1
    <3>4. F \in Int /\ F <= F  BY <1>3
    <3>5. \A j \in a + 1 .. F - 1 :
             /\ I[j] = I[j]
             /\ M[j].type = "raw" => M2[j].type = "raw"
             /\ M[j].type \in EntryTypes \cup {"TBROKEN_HEART"} =>
                  M2[j].type \in EntryTypes \cup {"TBROKEN_HEART"}
      BY <3>3, <1>5
    <3> QED  BY <3>1, <3>2, <3>4, <3>5, <2>1, <1>3, <1>4, <1>5, KeepsShape
  <2>3. CASE a = scan
    <3>1. M2[a] = new /\ new.type = M[a].type  BY <2>3, <1>4, <1>a DEF Rewrites
    <3>2. CarDone(a, sc, ph) => CarRefers(M2, I, a, g_news + 1, F - 1)
      BY <2>3, <3>1, <1>10, <1>a DEF Relocated, CarRefers
    <3>3. ~CarDone(a, sc, ph) => CarRefers(M2, I, a, 1, g_news - 2)
      BY <2>3, <3>1, <1>9, <1>a DEF Relocated, CarRefers
    <3>4. a < sc => CdrRefers(M2, I, a, g_news + 1, F - 1)
      BY <2>3, <3>1, <1>10, <1>a DEF Relocated, CdrRefers
    <3>5. a >= sc => CdrRefers(M2, I, a, 1, g_news - 2)
      BY <2>3, <3>1, <1>9, <1>a DEF Relocated, CdrRefers
    <3>6. M2[a].type # "free" /\ (M2[a].type = "TBROKEN_HEART" => Interior /\ ~CarDone(a, sc, ph))
      BY <2>1, <2>3, <3>1, <1>a DEF Relocated, NewCell
    <3> QED  BY <2>2, <3>2, <3>3, <3>4, <3>5, <3>6 DEF NewCell
  <2>4. CASE a # scan /\ M[a].type = "raw"
    <3>1. M2[a].type = "raw"  BY <2>1, <2>4, <1>5
    <3> QED  BY <3>1, <2>2 DEF NewCell, CarRefers, CdrRefers, CarTypes, CdrTypes
  <2>5. CASE a # scan /\ M[a].type # "raw"
    <3>1. M2[a] = M[a]  BY <2>1, <2>5, <1>4
    <3>2. (CarDone(a, sc, ph) <=> CarDone(a, scan, phase)) /\ (a < sc <=> a < scan) /\ (a >= sc <=> a >= scan)
      BY <2>5, <1>a DEF Passes
    <3> QED  BY <2>1, <2>2, <3>1, <3>2, <1>9, <1>10 DEF NewCell, CarRefers, CdrRefers
  <2> QED  BY <2>3, <2>4, <2>5
<1>13. Covered(M2, g_news) = Covered(M, g_news)
  <2>1. \A a \in 1 .. g_news - 2 : a \in 0 .. g_news - 2  BY <1>1
  <2>2. Hearts(M2, g_news) = Hearts(M, g_news)  BY <2>1, <1>7 DEF Hearts
  <2>3. \A a \in Hearts(M, g_news) : Extent(M2, a) = Extent(M, a)
    <3>1. SUFFICES ASSUME NEW a \in Hearts(M, g_news) PROVE Extent(M2, a) = Extent(M, a)
      OBVIOUS
    <3>2. a \in 0 .. g_news - 2 /\ M[a].type = "TBROKEN_HEART"  BY <2>1 DEF Hearts
    <3>3. Heart(M, I, a, g_news, F)  BY <3>2, <1>a DEF Keeps, OldCell
    <3>4. M[a].car \in Addr /\ M2[a] = M[a]  BY <3>2, <3>3, <1>7, <1>8 DEF Heart, Refers
    <3> QED  BY <3>4, <1>6 DEF Extent
  <2> QED  BY <2>2, <2>3 DEF Covered
<1>14. KeepsSymbols(M2, I, F)
  <2>1. SUFFICES ASSUME NEW s \in Symbols, g_news + s < g_free, SymbolAt(mem, id, s, g_news + s)
                 PROVE  g_news + s < F /\ SymbolAt(M2, I, s, g_news + s)
    BY DEF KeepsSymbols
  <2>2. g_news + s < F /\ SymbolAt(M, I, s, g_news + s)  BY <2>1, <1>a DEF Keeps, KeepsSymbols
  <2>3. g_news + s \in Addr  BY <2>2, <1>1, <1>3 DEF Symbols
  <2>4. CASE g_news + s = scan
    <3>1. new.type = "TSPECIAL" /\ I[new.cdr] = NameAt(s)  BY <2>1, <2>4, <1>a DEF Rewrites, SymbolAt
    <3> QED  BY <2>2, <2>4, <3>1, <1>4 DEF SymbolAt
  <2>5. CASE g_news + s # scan  BY <2>2, <2>3, <2>5, <1>4 DEF SymbolAt
  <2> QED  BY <2>4, <2>5
<1>15. M2[g_news].type = "TCHAR" /\ M2[g_news - 1] = mem[g_news - 1]
  <2>1. g_news \in Addr /\ g_news - 1 \in Addr /\ g_news - 1 # scan  BY <1>1, <1>2
  <2> QED  BY <2>1, <1>4, <1>5, <1>a DEF Keeps
<1>16. /\ \A p : Refers(mem, id, p, 1, g_news - 2) => Refers(M2, I, p, 1, g_news - 2)
       /\ \A p : Refers(mem, id, p, g_news + 1, g_free - 1) => Refers(M2, I, p, g_news + 1, F - 1)
  BY <1>9, <1>10, <1>a DEF Keeps
<1> QED  BY <1>4, <1>11, <1>12, <1>13, <1>14, <1>15, <1>16, <1>a DEF Keeps

-----------------------------------------------------------------------------
(***************************************************************************)
(* The steps of a collection.                                              *)
(***************************************************************************)
\* A step that copies, and keeps the collection going.
LEMMA CollectedIInv ==
  ASSUME IInv, Collecting, Collecting', UNCHANGED <<g_news, g_stack, regs>>,
         Keeps(mem', id', home', g_free'),
         \A a \in g_news + 1 .. g_free' - 1 : NewCell(mem', id', a, g_news, g_free', scan', phase'),
         g_stack_array' \in [0 .. STACK_SIZE - 1 -> 0 .. g_free'],
         \A k \in 0 .. g_stack - 1 : g_stack_array'[k] = 0,
         globals' \in [Globals -> 0 .. g_free'],
         scan' \in g_news + 1 .. g_free', phase' = "cdr" => scan' < g_free',
         phase' = "roots" => scan' = g_news + 1 /\ next' \in 1 .. NRoots,
         Roots(mem, id, g_news, g_free)', SymbolsInOrder', OnlySymbols',
         ~Interior => Cardinality(Covered(mem', g_news)) = g_free' - g_news - 1
  PROVE  IInv'
<1>1. Types /\ Collection  BY DEF IInv
<1>2. /\ g_news \in Nat /\ g_news > 2 /\ g_free \in Nat /\ g_news < g_free
      /\ g_free <= MemTop /\ MemTop \in Nat /\ Addr = 0 .. MemTop - 1
      /\ mem \in [Addr -> Cells] /\ id \in [Addr -> Ids \cup {NoId}]
  BY <1>1, Spaces
<1>3. g_free' \in g_free .. MemTop /\ g_free' \in Nat /\ g_free <= g_free' /\ g_free' \in 1 .. MemTop
  BY <1>2 DEF Keeps
<1>4. \A a \in 0 .. g_free' - 1 : mem'[a].type # "free"
  <2>1. \A a \in 0 .. g_news - 2 : mem'[a].type # "free"
    BY DEF Keeps, OldCell, Sound
  <2>2. mem'[g_news - 1].type # "free" /\ mem'[g_news].type # "free"
    <3>1. g_news - 1 \in 0 .. g_free - 1  BY <1>2
    <3> QED  BY <3>1, <1>1 DEF Keeps, Types
  <2>3. \A a \in g_news + 1 .. g_free' - 1 : mem'[a].type # "free"  BY DEF NewCell
  <2>4. \A a \in 0 .. g_free' - 1 : \/ a \in 0 .. g_news - 2 \/ a = g_news - 1 \/ a = g_news
                                    \/ a \in g_news + 1 .. g_free' - 1
    <3>1. \A n, f \in Nat : \A a \in 0 .. f - 1 : a \in 0 .. n - 2 \/ a = n - 1 \/ a = n \/ a \in n + 1 .. f - 1
      OBVIOUS
    <3> QED  BY <3>1, <1>2, <1>3
  <2> QED  BY <2>1, <2>2, <2>3, <2>4
<1>5. Types'
  <2>1. mem' \in [Addr -> Cells] /\ id' \in [Addr -> Ids \cup {NoId}]
        /\ (\A a \in Addr : a >= g_free' => id'[a] = NoId) /\ DOMAIN home' \subseteq Ids
    BY <1>1 DEF Keeps, Types
  <2>2. g_news' \in 0 .. g_free' /\ scan' \in 0 .. g_free'  BY <1>2, <1>3
  <2>3. phase' \in Phases  BY DEF Collecting, Phases
  <2> QED  BY <1>1, <1>3, <1>4, <2>1, <2>2, <2>3 DEF Types
<1>6. id'[0] = NoId /\ id'[g_news - 1] = NoId /\ id'[g_news] = NoId
  <2>1. 0 \in 0 .. g_free - 1 /\ g_news - 1 \in 0 .. g_free - 1 /\ g_news \in 0 .. g_free - 1  BY <1>2
  <2> QED  BY <2>1, <1>1 DEF Keeps, Collection
<1>7. Collection'
  <2>1. NSymbols < g_news' - 1 /\ g_stack' + GC_FRAME_SIZE <= STACK_SIZE /\ NRoots' = NRoots
    BY <1>1 DEF Collection, NRoots
  <2>2. g_news' + 1 <= g_free' /\ g_news' = g_news  BY <1>2, <1>3
  <2>3. \A a \in 0 .. g_news' - 2 : OldCell(mem', id', a, g_news', g_free')  BY DEF Keeps
  <2>4. mem'[g_news'].type = "TCHAR" /\ Homes(id', home', g_free')  BY DEF Keeps
  <2> QED  BY <1>6, <2>1, <2>2, <2>3, <2>4 DEF Collection
<1>8. ~Interior => Fits'  BY DEF Fits
<1>9. phase' # "run" /\ phase' # "broken heart"  BY DEF Collecting
<1> QED  BY <1>5, <1>7, <1>8, <1>9 DEF IInv

\* What the stack slot or the global behind a root refers to, after a step
\* that did not look at it.
LEMMA RootKept ==
  ASSUME NEW M, NEW I, NEW H, NEW F, Keeps(M, I, H, F), NEW k, NEW p, Root(mem, id, k, p, g_news, g_free)
  PROVE  IF RootDone(k) THEN Refers(M, I, p, g_news + 1, F - 1) ELSE Refers(M, I, p, 1, g_news - 2)
  BY DEF Root, Keeps

\* The roots have different numbers.
LEMMA RootNumbers ==
  ASSUME Types
  PROVE  /\ \A s \in Symbols : s \in Nat \ {0} /\ s \in Int /\ s <= NSymbols
         /\ \A k \in 1 .. 7 : GlobalRoot(k) \in 1 .. NRoots /\ GlobalRoot(k) > NSymbols /\ GlobalRoot(k) <= NSymbols + 7
         /\ \A k \in g_stack .. STACK_SIZE - 1 : StackRoot(k) \in 1 .. NRoots /\ StackRoot(k) > NSymbols + 7
         /\ \A j, k \in 1 .. 7 : GlobalRoot(j) = GlobalRoot(k) => j = k
         /\ \A j, k \in g_stack .. STACK_SIZE - 1 : StackRoot(j) = StackRoot(k) => j = k
         /\ NSymbols \in Nat \ {0} /\ NRoots \in Nat /\ NRoots >= NSymbols + 7
<1>1. NSymbols \in Nat \ {0} /\ STACK_SIZE \in Nat /\ g_stack \in 0 .. STACK_SIZE
  BY SizesAssumption DEF Types
<1>2. NRoots = NSymbols + 7 + STACK_SIZE - g_stack  BY SevenGlobals DEF NRoots
<1>3. \A k : StackRoot(k) = NSymbols + 7 + 1 + k - g_stack  BY SevenGlobals DEF StackRoot
<1>4. \A k : GlobalRoot(k) = NSymbols + k  BY DEF GlobalRoot
<1>5. \A s \in Symbols : s \in Nat \ {0} /\ s \in Int /\ s <= NSymbols  BY <1>1 DEF Symbols
<1>6. NRoots \in Nat /\ NRoots >= NSymbols + 7  BY <1>1, <1>2
<1>7. \A k \in 1 .. 7 : GlobalRoot(k) \in 1 .. NRoots /\ GlobalRoot(k) > NSymbols /\ GlobalRoot(k) <= NSymbols + 7
  BY <1>1, <1>4, <1>6
<1>8. \A k \in g_stack .. STACK_SIZE - 1 : StackRoot(k) \in 1 .. NRoots /\ StackRoot(k) > NSymbols + 7
  BY <1>1, <1>2, <1>3
<1>9. \A j, k \in 1 .. 7 : GlobalRoot(j) = GlobalRoot(k) => j = k  BY <1>1, <1>4
<1>10. \A j, k \in g_stack .. STACK_SIZE - 1 : StackRoot(j) = StackRoot(k) => j = k  BY <1>1, <1>3
<1> QED  BY <1>1, <1>5, <1>6, <1>7, <1>8, <1>9, <1>10

\* The step of the loops over the roots.
LEMMA RootsGoOn ==
  ASSUME IInv, phase = "roots", NextRoot
  PROVE  /\ next \in 1 .. NRoots /\ next \in Int /\ scan = g_news + 1 /\ scan' = scan
         /\ phase' \in {"roots", "car"} /\ Collecting'
         /\ phase' = "roots" => next' = next + 1 /\ next' \in 1 .. NRoots
         /\ \A k \in 1 .. NRoots : k = next => ~RootDone(k) /\ RootDone(k)'
         /\ \A k \in 1 .. NRoots : k # next => (RootDone(k)' <=> RootDone(k))
         /\ \A a : CarDone(a, scan', phase') <=> CarDone(a, scan, phase)
<1>1. next \in 1 .. NRoots /\ scan = g_news + 1 /\ NRoots \in Nat
  BY RootNumbers DEF IInv, Collecting, Collection
<1>2. /\ next' = IF next = NRoots THEN 0 ELSE next + 1
      /\ phase' = IF next = NRoots THEN "car" ELSE "roots"
      /\ scan' = scan
  BY DEF NextRoot
<1>3. CASE next = NRoots
  BY <1>1, <1>2, <1>3 DEF RootDone, Collecting, CarDone
<1>4. CASE next # NRoots
  <2>1. next' = next + 1 /\ phase' = "roots" /\ next' \in 1 .. NRoots  BY <1>1, <1>2, <1>4
  <2>2. \A k \in 1 .. NRoots : k # next => (k < next' <=> k < next)  BY <1>1, <2>1
  <2>3. ~(next < next) /\ next < next' /\ next \in Int  BY <1>1, <2>1
  <2>4. \A k \in 1 .. NRoots : k = next => ~RootDone(k) /\ RootDone(k)'  BY <2>1, <2>3 DEF RootDone
  <2>5. \A k \in 1 .. NRoots : k # next => (RootDone(k)' <=> RootDone(k))  BY <2>1, <2>2 DEF RootDone
  <2>6. Collecting' /\ \A a : CarDone(a, scan', phase') <=> CarDone(a, scan, phase)
    BY <1>2, <2>1 DEF Collecting, CarDone
  <2> QED  BY <1>1, <1>2, <2>1, <2>3, <2>4, <2>5, <2>6
<1> QED  BY <1>3, <1>4

\* The roots after a step that copies one of them.
LEMMA RootsStep ==
  ASSUME IInv, phase = "roots", NextRoot, Keeps(mem', id', home', g_free'), UNCHANGED <<g_news, g_stack>>,
         \A k \in 1 .. 7 :
           IF GlobalRoot(k) = next
             THEN Refers(mem', id', globals'[GlobalNames[k]], g_news + 1, g_free' - 1)
             ELSE globals'[GlobalNames[k]] = globals[GlobalNames[k]],
         \A k \in g_stack .. STACK_SIZE - 1 :
           IF StackRoot(k) = next
             THEN Refers(mem', id', g_stack_array'[k], g_news + 1, g_free' - 1)
             ELSE g_stack_array'[k] = g_stack_array[k]
  PROVE  Roots(mem, id, g_news, g_free)'
<1>1. Types /\ Collection /\ Roots(mem, id, g_news, g_free)  BY DEF IInv, Collecting, Collection
<1>2. \A k \in 1 .. NRoots : k = next => ~RootDone(k) /\ RootDone(k)'  BY RootsGoOn
<1>3. \A k \in 1 .. NRoots : k # next => (RootDone(k)' <=> RootDone(k))  BY RootsGoOn
<1>4. ASSUME NEW k \in 1 .. 7
      PROVE  Root(mem, id, GlobalRoot(k), globals[GlobalNames[k]], g_news, g_free)'
  <2>1. PICK j \in 1 .. NRoots : j = GlobalRoot(k)  BY <1>1, RootNumbers
  <2>2. Root(mem, id, j, globals[GlobalNames[k]], g_news, g_free)  BY <2>1, <1>1, SevenGlobals DEF Roots
  <2>3. RootDone(GlobalRoot(k))' <=> RootDone(j)'  BY <2>1 DEF RootDone, GlobalRoot
  <2>4. CASE j = next  BY <2>1, <2>3, <2>4, <1>2 DEF Root
  <2>5. CASE j # next
    <3>1. IF RootDone(j) THEN Refers(mem', id', globals[GlobalNames[k]], g_news + 1, g_free' - 1)
          ELSE Refers(mem', id', globals[GlobalNames[k]], 1, g_news - 2)
      BY <2>2, RootKept
    <3>2. globals'[GlobalNames[k]] = globals[GlobalNames[k]]  BY <2>1, <2>5
    <3> QED  BY <3>1, <3>2, <2>3, <2>5, <1>3 DEF Root
  <2> QED  BY <2>4, <2>5
<1>5. ASSUME NEW k \in g_stack .. STACK_SIZE - 1
      PROVE  Root(mem, id, StackRoot(k), g_stack_array[k], g_news, g_free)'
  <2>1. PICK j \in 1 .. NRoots : j = StackRoot(k)  BY <1>1, RootNumbers
  <2>2. Root(mem, id, j, g_stack_array[k], g_news, g_free)  BY <2>1, <1>1 DEF Roots
  <2>3. RootDone(StackRoot(k))' <=> RootDone(j)'  BY <2>1 DEF RootDone, StackRoot
  <2>4. CASE j = next  BY <2>1, <2>3, <2>4, <1>2 DEF Root
  <2>5. CASE j # next
    <3>1. IF RootDone(j) THEN Refers(mem', id', g_stack_array[k], g_news + 1, g_free' - 1)
          ELSE Refers(mem', id', g_stack_array[k], 1, g_news - 2)
      BY <2>2, RootKept
    <3>2. g_stack_array'[k] = g_stack_array[k]  BY <2>1, <2>5
    <3> QED  BY <3>1, <3>2, <2>3, <2>5, <1>3 DEF Root
  <2> QED  BY <2>4, <2>5
<1> QED  BY <1>4, <1>5, SevenGlobals DEF Roots

\* A step that copies a root.
LEMMA RootStepIInv ==
  ASSUME IInv, phase = "roots", NextRoot, UNCHANGED <<g_news, g_stack, regs>>,
         NEW old, Refers(mem, id, old, 1, g_news - 2), Copies(old, mem', id', home', g_free'),
         g_stack_array' \in [0 .. STACK_SIZE - 1 -> 0 .. g_free'],
         \A k \in 0 .. g_stack - 1 : g_stack_array'[k] = 0,
         globals' \in [Globals -> 0 .. g_free'],
         Roots(mem, id, g_news, g_free)', SymbolsInOrder', OnlySymbols'
  PROVE  IInv'
<1>1. Types /\ Collection /\ Collecting  BY DEF IInv, Collecting
<1>2. Keeps(mem', id', home', g_free')  BY <1>1, CopyKeeps
<1>3. \A a \in g_news + 1 .. g_free' - 1 : NewCell(mem', id', a, g_news, g_free', scan, phase)
  BY <1>1, CopyNewCells
<1>4. /\ scan = g_news + 1 /\ scan' = scan /\ phase' \in {"roots", "car"} /\ Collecting'
      /\ phase' = "roots" => next' \in 1 .. NRoots
      /\ \A a : CarDone(a, scan', phase') <=> CarDone(a, scan, phase)
  BY RootsGoOn
<1>5. \A a \in g_news + 1 .. g_free' - 1 : NewCell(mem', id', a, g_news, g_free', scan', phase')
  BY <1>3, <1>4 DEF NewCell
<1>6. scan' \in g_news + 1 .. g_free'
  <2>1. g_free' \in g_free .. MemTop /\ g_free \in Nat /\ g_news \in Nat /\ g_news < g_free /\ MemTop \in Nat
    BY <1>1, <1>2, Spaces DEF Keeps
  <2>2. \A f \in g_free .. MemTop : g_news + 1 \in g_news + 1 .. f  BY <2>1
  <2> QED  BY <2>1, <2>2, <1>4
<1>7. ~Interior => Cardinality(Covered(mem', g_news)) = g_free' - g_news - 1
  BY <1>1, CopyFits DEF IInv
<1> QED  BY <1>1, <1>2, <1>4, <1>5, <1>6, <1>7, CollectedIInv

\* When all symbols have been copied they stay where they are.
LEMMA SymbolsStay ==
  ASSUME IInv, Collecting, Keeps(mem', id', home', g_free'), UNCHANGED g_news,
         \A s \in Symbols : RootDone(s) /\ RootDone(s)'
  PROVE  SymbolsInOrder'
<1>1. \A s \in Symbols : g_news + s < g_free /\ SymbolAt(mem, id, s, g_news + s)
  BY DEF IInv, Collection, SymbolsInOrder
<1>2. \A s \in Symbols : g_news + s < g_free' /\ SymbolAt(mem', id', s, g_news + s)
  BY <1>1 DEF Keeps, KeepsSymbols
<1> QED  BY <1>2 DEF SymbolsInOrder

\* What a copy takes is a number of cells.
LEMMA TakenCells ==
  ASSUME Types, Collection, NEW old, Refers(mem, id, old, 1, g_news - 2)
  PROVE  Taken(old) \in Nat /\ g_free \in Nat /\ MemTop \in Nat
<1>1. g_free \in Nat /\ MemTop \in Nat  BY Spaces
<1>2. ~Forwarded(old) => Size(mem[old]) \in Nat  BY Unforwarded
<1> QED  BY <1>1, <1>2 DEF Taken

\* The rounds of a collection: the static cells, the globals, the stack ..
LEMMA CopySymbolIInv ==
  ASSUME IInv, copy_symbol
  PROVE  IInv'
<1>1. Types /\ Collection /\ Collecting /\ phase = "roots" /\ next <= NSymbols
  BY DEF IInv, Collecting, copy_symbol
<1>2. /\ g_news \in Nat /\ g_news > 2 /\ g_free \in Nat /\ g_news < g_free
      /\ g_free <= MemTop /\ MemTop \in Nat /\ Addr = 0 .. MemTop - 1
      /\ mem \in [Addr -> Cells] /\ id \in [Addr -> Ids \cup {NoId}]
  BY <1>1, Spaces
<1>3. NSymbols \in Nat \ {0} /\ next \in Symbols /\ next \in Nat \ {0} /\ next \in 1 .. g_news - 2
  BY <1>1, <1>2, SizesAssumption DEF Collection, Symbols
<1> DEFINE s == cell_nil + next - 1
<1>4. s = next  BY <1>3 DEF cell_nil
<1>5. gc_copy(s, Copied(s), NextRoot /\ UNCHANGED <<globals, g_stack_array>>)  BY DEF copy_symbol
<1> HIDE DEF s
<1>6. SymbolAt(mem, id, next, next)
  BY <1>1, <1>3 DEF Collection, SymbolsInOrder, RootDone
<1>7. Refers(mem, id, s, 1, g_news - 2)
  <2>1. NoId \notin Nat  BY DEF NoId
  <2> QED  BY <2>1, <1>3, <1>4, <1>6 DEF Refers, SymbolAt
<1>8. ~Forwarded(s) /\ Size(mem[s]) = 1 /\ Taken(s) = 1
  BY <1>4, <1>6, SmallCell DEF SymbolAt, Forwarded, VectorTypes, Taken
<1>9. CASE g_free + Taken(s) > MemTop  BY <1>5, <1>9, StopIInv DEF gc_copy
<1>10. CASE ~(g_free + Taken(s) > MemTop)
  <2>1. /\ mem' = Copied(s) /\ g_free' = g_free + Taken(s)
        /\ id' = [id EXCEPT ![g_free] = id[s]]
        /\ home' = [i \in DOMAIN home |-> IF i = id[s] THEN g_free ELSE home[i]]
        /\ UNCHANGED <<g_news, g_stack, regs, uses>> /\ NextRoot /\ UNCHANGED <<globals, g_stack_array>>
    BY <1>5, <1>8, <1>10 DEF gc_copy
  <2>2. Copies(s, mem', id', home', g_free')  BY <2>1, <1>2, <1>8, <1>10 DEF Copies
  <2>3. Keeps(mem', id', home', g_free') /\ \A a \in 0 .. g_free - 1 : a # s => mem'[a] = mem[a]
    BY <1>1, <1>7, <2>2, CopyKeeps
  <2>4. /\ phase' = "roots" => next' = next + 1
        /\ \A k \in 1 .. NRoots : k = next => RootDone(k)'
        /\ \A k \in 1 .. NRoots : k # next => (RootDone(k)' <=> RootDone(k))
    BY <1>1, <2>1, RootsGoOn
  <2>5. Roots(mem, id, g_news, g_free)'
    <3>1. \A k \in 1 .. 7 : GlobalRoot(k) # next  BY <1>1, <1>3, RootNumbers
    <3>2. \A k \in g_stack .. STACK_SIZE - 1 : StackRoot(k) # next  BY <1>1, <1>3, RootNumbers
    <3> QED  BY <1>1, <2>1, <2>3, <3>1, <3>2, RootsStep
  <2>6. /\ mem'[g_free] = mem[s] /\ id'[g_free] = id[s] /\ \A a \in 0 .. g_free - 1 : id'[a] = id[a]
    <3>1. mem[s].type \notin VectorTypes  BY <1>4, <1>6 DEF SymbolAt, VectorTypes
    <3> QED  BY <1>1, <1>7, <1>8, <2>2, <2>3, <3>1, CopiedCells DEF Keeps
  <2>7. g_free = g_news + next  BY <1>1 DEF Collection, OnlySymbols
  <2>8. ASSUME NEW t \in Symbols
        PROVE  IF RootDone(t)' THEN g_news + t < g_free' /\ SymbolAt(mem', id', t, g_news + t)
               ELSE SymbolAt(mem', id', t, t)
    <3>1. t \in 1 .. NRoots /\ t \in Nat \ {0} /\ t <= NSymbols
      BY <1>1, RootNumbers
    <3>2. mem[t].type = "TSPECIAL" /\ ~RootDone(t) => mem[t].cdr \in 0 .. g_free - 1 /\ t \in 0 .. g_free - 1
      <4>1. t \in 0 .. g_news - 2 /\ t \in 0 .. g_free - 1
        <5>1. NSymbols < g_news - 1  BY <1>1 DEF Collection
        <5> QED  BY <5>1, <3>1, <1>2, <1>3
      <4>2. OldCell(mem, id, t, g_news, g_free)  BY <4>1, <1>1 DEF Collection
      <4>3. mem[t].type = "TSPECIAL" => mem[t].cdr \in 1 .. g_news - 2
        BY <4>2 DEF OldCell, Sound, CdrRefers, CdrTypes, Refers
      <4> QED  BY <4>1, <4>3, <1>2
    <3>3. IF RootDone(t) THEN g_news + t < g_free /\ SymbolAt(mem, id, t, g_news + t) ELSE SymbolAt(mem, id, t, t)
      BY <1>1 DEF Collection, SymbolsInOrder
    <3>4. CASE t = next
      <4>1. RootDone(t)' /\ ~RootDone(t)  BY <3>1, <3>4, <2>4, <1>1, <1>3 DEF RootDone
      <4>2. mem[t].cdr \in 0 .. g_free - 1 /\ SymbolAt(mem, id, t, t)  BY <3>2, <3>3, <4>1 DEF SymbolAt
      <4>3. SymbolAt(mem', id', t, g_news + t)
        BY <4>2, <3>4, <2>6, <2>7, <1>4 DEF SymbolAt
      <4>4. g_news + t < g_free'  BY <3>4, <2>1, <2>7, <1>2, <1>3, <1>8
      <4> QED  BY <4>1, <4>3, <4>4
    <3>5. CASE t # next /\ RootDone(t)
      <4>1. g_news + t < g_free' /\ SymbolAt(mem', id', t, g_news + t)
        BY <3>3, <3>5, <2>3 DEF Keeps, KeepsSymbols
      <4> QED  BY <4>1, <3>1, <3>5, <2>4
    <3>6. CASE t # next /\ ~RootDone(t)
      <4>1. SymbolAt(mem, id, t, t) /\ mem[t].cdr \in 0 .. g_free - 1 /\ t \in 0 .. g_free - 1
        BY <3>2, <3>3, <3>6 DEF SymbolAt
      <4>2. SymbolAt(mem', id', t, t)  BY <4>1, <3>6, <2>3, <2>6, <1>4 DEF SymbolAt
      <4> QED  BY <4>2, <3>1, <3>6, <2>4
    <3> QED  BY <3>4, <3>5, <3>6
  <2>9. SymbolsInOrder'  BY <2>8, <2>1 DEF SymbolsInOrder
  <2>10. OnlySymbols'
    <3>1. SUFFICES ASSUME phase' = "roots", next' <= NSymbols
                   PROVE  /\ g_free' = g_news + next'
                          /\ \A a \in 1 .. g_news - 2 : mem'[a].type = "TBROKEN_HEART" => a < next'
      BY <2>1 DEF OnlySymbols
    <3>2. next' = next + 1 /\ g_free' = g_news + next'  BY <3>1, <2>1, <2>4, <2>7, <1>2, <1>3, <1>8
    <3>3. ASSUME NEW a \in 1 .. g_news - 2, mem'[a].type = "TBROKEN_HEART" PROVE a < next + 1
      <4>1. a \in 0 .. g_free - 1 /\ a \in Int  BY <1>2
      <4>2. CASE a = next  BY <4>2, <1>3
      <4>3. CASE a # next
        <5>1. mem[a].type = "TBROKEN_HEART"  BY <4>1, <4>3, <3>3, <2>3, <1>4
        <5>2. a < next  BY <5>1, <1>1 DEF Collection, OnlySymbols
        <5> QED  BY <5>2, <4>1, <1>3
      <4> QED  BY <4>2, <4>3
    <3> QED  BY <3>2, <3>3
  <2>11. g_stack_array' \in [0 .. STACK_SIZE - 1 -> 0 .. g_free'] /\ globals' \in [Globals -> 0 .. g_free']
    <3>1. 0 .. g_free \subseteq 0 .. g_free'  BY <2>1, <1>2, <1>8
    <3> QED  BY <3>1, <2>1, <1>1 DEF Types
  <2>12. \A k \in 0 .. g_stack - 1 : g_stack_array'[k] = 0  BY <1>1, <2>1 DEF Types
  <2> QED  BY <1>1, <1>7, <2>1, <2>2, <2>5, <2>9, <2>10, <2>11, <2>12, RootStepIInv
<1> QED  BY <1>9, <1>10

LEMMA CopyGlobalIInv ==
  ASSUME IInv, copy_global
  PROVE  IInv'
<1>1. Types /\ Collection /\ Collecting /\ phase = "roots" /\ next - NSymbols \in 1 .. 7
  BY SevenGlobals DEF IInv, Collecting, copy_global
<1>2. next \in 1 .. NRoots /\ next \in Int /\ NSymbols \in Nat \ {0} /\ next > NSymbols /\ next <= NSymbols + 7
  BY <1>1, RootNumbers DEF Collection
<1> DEFINE q == next - NSymbols
           g == GlobalNames[next - NSymbols]
           old == globals[GlobalNames[next - NSymbols]]
<1>3. q \in 1 .. 7 /\ g \in Globals /\ GlobalRoot(q) = next /\ g = GlobalNames[q] /\ old = globals[g]
  BY <1>1, <1>2, SevenGlobals DEF GlobalRoot
<1>4. gc_copy(old, Copied(old),
              /\ NextRoot
              /\ globals' = [globals EXCEPT ![g] = NewOf(old)]
              /\ UNCHANGED g_stack_array)
  BY DEF copy_global
<1> HIDE DEF q, g, old
<1>5. Refers(mem, id, old, 1, g_news - 2)
  <2>1. Root(mem, id, GlobalRoot(q), globals[GlobalNames[q]], g_news, g_free)
    BY <1>1, <1>3, SevenGlobals DEF Collection, Roots
  <2>2. ~RootDone(GlobalRoot(q))  BY <1>1, <1>2, <1>3 DEF RootDone
  <2> QED  BY <2>1, <2>2, <1>3 DEF Root
<1>6. Taken(old) \in Nat /\ g_free \in Nat /\ MemTop \in Nat  BY <1>1, <1>5, TakenCells
<1>7. CASE g_free + Taken(old) > MemTop  BY <1>4, <1>7, StopIInv DEF gc_copy
<1>8. CASE ~(g_free + Taken(old) > MemTop)
  <2>1. /\ Copies(old, mem', id', home', g_free') /\ g_free' = g_free + Taken(old)
        /\ UNCHANGED <<g_news, g_stack, regs, uses>> /\ NextRoot
        /\ globals' = [globals EXCEPT ![g] = NewOf(old)] /\ UNCHANGED g_stack_array
    BY <1>4, <1>6, <1>8 DEF gc_copy, Copies, history
  <2>2. Keeps(mem', id', home', g_free')  BY <1>1, <1>5, <2>1, CopyKeeps
  <2>3. Refers(mem', id', NewOf(old), g_news + 1, g_free' - 1)  BY <1>1, <1>5, <2>1, CopyResult
  <2>4. globals \in [Globals -> 0 .. g_free]  BY <1>1 DEF Types
  <2>5. Roots(mem, id, g_news, g_free)'
    <3>1. ASSUME NEW k \in 1 .. 7
          PROVE  IF GlobalRoot(k) = next
                   THEN Refers(mem', id', globals'[GlobalNames[k]], g_news + 1, g_free' - 1)
                   ELSE globals'[GlobalNames[k]] = globals[GlobalNames[k]]
      <4>1. GlobalRoot(k) = next => k = q  BY <1>1, <1>3, RootNumbers
      <4>2. k # q => GlobalNames[k] # g  BY <1>3, SevenGlobals
      <4>3. GlobalNames[k] \in Globals /\ (k = q => GlobalNames[k] = g)  BY <1>3, SevenGlobals
      <4> QED  BY <4>1, <4>2, <4>3, <2>1, <2>3, <2>4, <1>3
    <3>2. \A k \in g_stack .. STACK_SIZE - 1 : StackRoot(k) # next  BY <1>1, <1>2, RootNumbers
    <3> QED  BY <1>1, <2>1, <2>2, <3>1, <3>2, RootsStep
  <2>6. SymbolsInOrder'
    <3>1. \A s \in Symbols : RootDone(s)  BY <1>1, <1>2, RootNumbers DEF RootDone
    <3>2. \A s \in Symbols : s \in 1 .. NRoots /\ s # next  BY <1>1, <1>2, RootNumbers
    <3>3. \A s \in Symbols : RootDone(s)'  BY <1>1, <2>1, <3>1, <3>2, RootsGoOn
    <3> QED  BY <1>1, <2>1, <2>2, <3>1, <3>3, SymbolsStay
  <2>7. OnlySymbols'
    <3>1. phase' = "roots" => next' = next + 1  BY <1>1, <2>1, RootsGoOn
    <3>2. ~(next + 1 <= NSymbols)  BY <1>2
    <3> QED  BY <3>1, <3>2 DEF OnlySymbols
  <2>8. g_stack_array' \in [0 .. STACK_SIZE - 1 -> 0 .. g_free'] /\ globals' \in [Globals -> 0 .. g_free']
    <3>1. 0 .. g_free \subseteq 0 .. g_free'  BY <2>1, <1>6
    <3>2. NewOf(old) \in 0 .. g_free'
      <4>1. NewOf(old) \in g_news + 1 .. g_free' - 1 /\ g_news \in Nat  BY <1>1, <2>3, Spaces DEF Refers
      <4> QED  BY <4>1, <2>1, <1>6
    <3> QED  BY <3>1, <3>2, <2>1, <1>1, <1>3 DEF Types
  <2>9. \A k \in 0 .. g_stack - 1 : g_stack_array'[k] = 0  BY <1>1, <2>1 DEF Types
  <2> QED  BY <1>1, <1>5, <2>1, <2>5, <2>6, <2>7, <2>8, <2>9, RootStepIInv
<1> QED  BY <1>7, <1>8

LEMMA CopyStackIInv ==
  ASSUME IInv, copy_stack
  PROVE  IInv'
<1>1. Types /\ Collection /\ Collecting /\ phase = "roots" /\ next > NSymbols + 7
  BY SevenGlobals DEF IInv, Collecting, copy_stack
<1>2. /\ next \in 1 .. NRoots /\ next \in Int /\ NSymbols \in Nat \ {0}
      /\ NRoots = NSymbols + 7 + STACK_SIZE - g_stack /\ STACK_SIZE \in Nat /\ g_stack \in 0 .. STACK_SIZE
  BY <1>1, SizesAssumption, SevenGlobals DEF Collection, NRoots, Types
<1> DEFINE i == g_stack + next - NSymbols - Len(GlobalNames) - 1
           old == g_stack_array[i]
<1>3. i \in g_stack .. STACK_SIZE - 1 /\ i \in 0 .. STACK_SIZE - 1 /\ StackRoot(i) = next
  BY <1>1, <1>2, SevenGlobals DEF StackRoot
<1>4. gc_copy(old, Copied(old),
              /\ NextRoot
              /\ g_stack_array' = [g_stack_array EXCEPT ![i] = NewOf(old)]
              /\ UNCHANGED globals)
  BY DEF copy_stack
<1>a. old = g_stack_array[i]  OBVIOUS
<1> HIDE DEF i, old
<1>5. Refers(mem, id, old, 1, g_news - 2)
  <2>1. Root(mem, id, StackRoot(i), g_stack_array[i], g_news, g_free)
    BY <1>1, <1>3 DEF Collection, Roots
  <2>2. ~RootDone(StackRoot(i))  BY <1>1, <1>2, <1>3 DEF RootDone
  <2> QED  BY <2>1, <2>2, <1>a DEF Root
<1>6. Taken(old) \in Nat /\ g_free \in Nat /\ MemTop \in Nat  BY <1>1, <1>5, TakenCells
<1>7. CASE g_free + Taken(old) > MemTop  BY <1>4, <1>7, StopIInv DEF gc_copy
<1>8. CASE ~(g_free + Taken(old) > MemTop)
  <2>1. /\ Copies(old, mem', id', home', g_free') /\ g_free' = g_free + Taken(old)
        /\ UNCHANGED <<g_news, g_stack, regs, uses>> /\ NextRoot
        /\ g_stack_array' = [g_stack_array EXCEPT ![i] = NewOf(old)] /\ UNCHANGED globals
    BY <1>4, <1>6, <1>8 DEF gc_copy, Copies, history
  <2>2. Keeps(mem', id', home', g_free')  BY <1>1, <1>5, <2>1, CopyKeeps
  <2>3. Refers(mem', id', NewOf(old), g_news + 1, g_free' - 1)  BY <1>1, <1>5, <2>1, CopyResult
  <2>4. g_stack_array \in [0 .. STACK_SIZE - 1 -> 0 .. g_free]  BY <1>1 DEF Types
  <2>5. Roots(mem, id, g_news, g_free)'
    <3>1. \A k \in 1 .. 7 : GlobalRoot(k) # next
      BY <1>1, <1>2, RootNumbers
    <3>2. ASSUME NEW k \in g_stack .. STACK_SIZE - 1
          PROVE  IF StackRoot(k) = next
                   THEN Refers(mem', id', g_stack_array'[k], g_news + 1, g_free' - 1)
                   ELSE g_stack_array'[k] = g_stack_array[k]
      <4>1. StackRoot(k) = next => k = i  BY <1>1, <1>3, RootNumbers
      <4>2. k \in 0 .. STACK_SIZE - 1  BY <1>2
      <4> QED  BY <4>1, <4>2, <2>1, <2>3, <2>4, <1>3
    <3> QED  BY <1>1, <2>1, <2>2, <3>1, <3>2, RootsStep
  <2>6. SymbolsInOrder'
    <3>1. \A s \in Symbols : RootDone(s)  BY <1>1, <1>2, RootNumbers DEF RootDone
    <3>2. \A s \in Symbols : s \in 1 .. NRoots /\ s # next  BY <1>1, <1>2, RootNumbers
    <3>3. \A s \in Symbols : RootDone(s)'  BY <1>1, <2>1, <3>1, <3>2, RootsGoOn
    <3> QED  BY <1>1, <2>1, <2>2, <3>1, <3>3, SymbolsStay
  <2>7. OnlySymbols'
    <3>1. phase' = "roots" => next' = next + 1  BY <1>1, <2>1, RootsGoOn
    <3>2. ~(next + 1 <= NSymbols)  BY <1>1, <1>2
    <3> QED  BY <3>1, <3>2 DEF OnlySymbols
  <2>8. g_stack_array' \in [0 .. STACK_SIZE - 1 -> 0 .. g_free'] /\ globals' \in [Globals -> 0 .. g_free']
    <3>1. 0 .. g_free \subseteq 0 .. g_free'  BY <2>1, <1>6
    <3>2. NewOf(old) \in 0 .. g_free'
      <4>1. NewOf(old) \in g_news + 1 .. g_free' - 1 /\ g_news \in Nat  BY <1>1, <2>3, Spaces DEF Refers
      <4> QED  BY <4>1, <2>1, <1>6
    <3> QED  BY <3>1, <3>2, <2>1, <2>4, <1>1, <1>3 DEF Types
  <2>9. \A k \in 0 .. g_stack - 1 : g_stack_array'[k] = 0
    <3>1. \A k \in 0 .. g_stack - 1 : k \in 0 .. STACK_SIZE - 1 /\ k # i  BY <1>2, <1>3
    <3> QED  BY <3>1, <1>1, <2>1, <2>4 DEF Types
  <2> QED  BY <1>1, <1>5, <2>1, <2>5, <2>6, <2>7, <2>8, <2>9, RootStepIInv
<1> QED  BY <1>7, <1>8

\* Where the scan pointer is in gc_loop.
LEMMA ScanCell ==
  ASSUME IInv, phase \in {"car", "cdr"}, scan < g_free
  PROVE  /\ Types /\ Collection /\ Collecting
         /\ scan \in g_news + 1 .. g_free - 1 /\ scan \in Addr /\ scan \in Nat /\ scan \in 0 .. g_free - 1
         /\ mem[scan] \in Cells
         /\ NewCell(mem, id, scan, g_news, g_free, scan, phase)
<1>1. Types /\ Collection /\ Collecting  BY DEF IInv, Collecting
<1>2. /\ g_news \in Nat /\ g_news > 2 /\ g_free \in Nat /\ g_news < g_free
      /\ g_free <= MemTop /\ MemTop \in Nat /\ Addr = 0 .. MemTop - 1
      /\ mem \in [Addr -> Cells] /\ id \in [Addr -> Ids \cup {NoId}]
  BY <1>1, Spaces
<1>3. scan \in g_news + 1 .. g_free  BY <1>1 DEF Collection
<1>4. scan \in g_news + 1 .. g_free - 1 /\ scan \in Addr /\ scan \in Nat /\ scan \in 0 .. g_free - 1
  BY <1>2, <1>3
<1> QED  BY <1>1, <1>2, <1>4 DEF Collection

\* A step of gc_loop that rewrites the cell at scan, after it has copied what
\* the cell refers to.
LEMMA LoopStepIInv ==
  ASSUME IInv, phase \in {"car", "cdr"}, scan < g_free, phase' \in {"car", "cdr"},
         UNCHANGED <<g_news, g_stack, regs, globals, g_stack_array>>,
         NEW M, Keeps(M, id', home', g_free'), M[scan] = mem[scan],
         \A a \in g_news + 1 .. g_free' - 1 : NewCell(M, id', a, g_news, g_free', scan, phase),
         ~Interior => Cardinality(Covered(M, g_news)) = g_free' - g_news - 1,
         NEW new, Rewrites(M, id', new), mem' = [M EXCEPT ![scan] = new],
         Passes(M, g_free', scan', phase'), Relocated(M, id', g_free', new, scan', phase'),
         scan' \in g_news + 1 .. g_free', phase' = "cdr" => scan' < g_free'
  PROVE  IInv'
<1>1. Types /\ Collection /\ Collecting /\ Collecting' /\ phase # "roots" /\ phase' # "roots"
  BY ScanCell DEF Collecting
<1>2. /\ Keeps(mem', id', home', g_free')
      /\ \A a \in g_news + 1 .. g_free' - 1 : NewCell(mem', id', a, g_news, g_free', scan', phase')
      /\ Covered(mem', g_news) = Covered(M, g_news)
  <2>1. ScanStepTakes(M, id', home', g_free', new, mem', scan', phase')  BY DEF ScanStepTakes
  <2> QED  BY <1>1, <2>1, ScanStep
<1>3. g_free' \in g_free .. MemTop  BY <1>2 DEF Keeps
<1>4. g_stack_array' \in [0 .. STACK_SIZE - 1 -> 0 .. g_free'] /\ globals' \in [Globals -> 0 .. g_free']
      /\ \A k \in 0 .. g_stack - 1 : g_stack_array'[k] = 0
  <2>1. 0 .. g_free \subseteq 0 .. g_free'
    <3>1. g_free \in Nat /\ MemTop \in Nat  BY <1>1, Spaces
    <3>2. \A f \in g_free .. MemTop : 0 .. g_free \subseteq 0 .. f  BY <3>1
    <3> QED  BY <3>2, <1>3
  <2> QED  BY <2>1, <1>1 DEF Types
<1>5. Roots(mem, id, g_news, g_free)'
  <2>1. \A p : Refers(mem, id, p, g_news + 1, g_free - 1) => Refers(mem', id', p, g_news + 1, g_free' - 1)
    BY <1>2 DEF Keeps
  <2>2. Roots(mem, id, g_news, g_free)  BY <1>1 DEF Collection
  <2>3. ASSUME NEW k \in 1 .. Len(GlobalNames)
        PROVE  Root(mem, id, GlobalRoot(k), globals[GlobalNames[k]], g_news, g_free)'
    BY <1>1, <2>1, <2>2 DEF Roots, Root, RootDone
  <2>4. ASSUME NEW k \in g_stack .. STACK_SIZE - 1
        PROVE  Root(mem, id, StackRoot(k), g_stack_array[k], g_news, g_free)'
    BY <1>1, <2>1, <2>2 DEF Roots, Root, RootDone
  <2> QED  BY <2>3, <2>4 DEF Roots
<1>6. SymbolsInOrder'
  <2>1. \A s \in Symbols : RootDone(s) /\ RootDone(s)'  BY <1>1 DEF RootDone
  <2> QED  BY <2>1, <1>1, <1>2, SymbolsStay
<1>7. OnlySymbols'  BY <1>1 DEF OnlySymbols
<1> QED  BY <1>1, <1>2, <1>4, <1>5, <1>6, <1>7, CollectedIInv

\* Where nothing is copied.
LEMMA NothingCopied ==
  ASSUME Types, Collection
  PROVE  /\ Keeps(mem, id, home, g_free)
         /\ \A a \in g_news + 1 .. g_free - 1 : NewCell(mem, id, a, g_news, g_free, scan, phase)
<1>1. g_free \in g_free .. MemTop  BY Spaces
<1> QED  BY <1>1, Spaces DEF Keeps, KeepsSymbols, Collection, Types

\* .. and gc_loop, which redirects a car and then a cdr.
LEMMA GcLoopCarIInv ==
  ASSUME IInv, gc_loop_car
  PROVE  IInv'
<1>1. phase = "car" /\ scan < g_free  BY DEF gc_loop_car
<1>2. /\ Types /\ Collection /\ Collecting
      /\ scan \in g_news + 1 .. g_free - 1 /\ scan \in Addr /\ scan \in Nat /\ scan \in 0 .. g_free - 1
      /\ mem[scan] \in Cells
      /\ NewCell(mem, id, scan, g_news, g_free, scan, phase)
  BY <1>1, ScanCell
<1> DEFINE c == mem[scan]
           old == c.car
<1>3. CASE c.type = "TBROKEN_HEART"
  <2>1. Stop("broken heart")  BY <1>3 DEF gc_loop_car
  <2>2. Interior  BY <1>2, <1>3 DEF NewCell
  <2> QED  BY <2>1, <2>2, StopIInv
<1>4. \A m, F : CarScanned => Passes(m, F, scan', phase') /\ CarDone(scan, scan', phase') /\ phase' = "cdr" /\ scan' = scan
  <2>1. SUFFICES ASSUME CarScanned
                 PROVE  /\ \A m, F : Passes(m, F, scan', phase')
                        /\ CarDone(scan, scan', phase') /\ phase' = "cdr" /\ scan' = scan
    OBVIOUS
  <2>2. scan' = scan /\ phase' = "cdr"  BY <2>1 DEF CarScanned
  <2> QED  BY <2>2, <1>1 DEF Passes, CarDone
<1>5. ~CarDone(scan, scan, phase) /\ ~(scan < scan) /\ scan >= scan  BY <1>1, <1>2 DEF CarDone
<1>6. CASE c.type # "TBROKEN_HEART" /\ c.type \in CarTypes
  <2>1. gc_copy(old, gc_relocate_car(Copied(old), scan, NewOf(old)), CarScanned)
    BY <1>6 DEF gc_loop_car
  <2>2. Refers(mem, id, old, 1, g_news - 2)  BY <1>2, <1>5, <1>6 DEF NewCell, CarRefers
  <2>3. Taken(old) \in Nat /\ g_free \in Nat /\ MemTop \in Nat  BY <1>2, <2>2, TakenCells
  <2>4. CASE g_free + Taken(old) > MemTop  BY <2>1, <2>4, StopIInv DEF gc_copy
  <2>5. CASE ~(g_free + Taken(old) > MemTop)
    <3> HIDE DEF old
    <3>1. PICK M : M = Copied(old)  OBVIOUS
    <3>2. /\ Copies(old, M, id', home', g_free') /\ g_free' = g_free + Taken(old)
          /\ mem' = gc_relocate_car(M, scan, NewOf(old))
          /\ UNCHANGED <<g_news, g_stack, regs, uses>> /\ CarScanned
      BY <2>1, <2>3, <2>5, <3>1 DEF gc_copy, Copies, history
    <3>3. Keeps(M, id', home', g_free') /\ \A a \in 0 .. g_free - 1 : a # old => M[a] = mem[a]
      BY <1>2, <2>2, <3>2, CopyKeeps
    <3>4. \A a \in g_news + 1 .. g_free' - 1 : NewCell(M, id', a, g_news, g_free', scan, phase)
      BY <1>2, <2>2, <3>2, CopyNewCells
    <3>5. Refers(M, id', NewOf(old), g_news + 1, g_free' - 1)  BY <1>2, <2>2, <3>2, CopyResult
    <3>6. ~Interior => Cardinality(Covered(M, g_news)) = g_free' - g_news - 1
      BY <1>2, <2>2, <3>2, CopyFits DEF IInv
    <3>7. M[scan] = c
      <4>1. scan # old  BY <1>2, <2>2, Spaces DEF Refers
      <4> QED  BY <4>1, <1>2, <3>3
    <3>8. PICK new : new = [c EXCEPT !.car = NewOf(old)]  OBVIOUS
    <3>9. new \in Cells /\ new.type = c.type /\ new.car = NewOf(old) /\ new.cdr = c.cdr
      <4>1. \A r \in Cells, x \in Int :
              LET e == [r EXCEPT !.car = x] IN e \in Cells /\ e.type = r.type /\ e.car = x /\ e.cdr = r.cdr
        BY DEF Cells
      <4>2. NewOf(old) \in Int  BY <1>2, <3>5, Spaces DEF Refers
      <4> QED  BY <4>1, <4>2, <1>2, <3>8
    <3>10. mem' = [M EXCEPT ![scan] = new]
      <4>1. M \in [Addr -> Cells]  BY <3>3 DEF Keeps
      <4> QED  BY <4>1, <1>2, <3>2, <3>7, <3>8 DEF gc_relocate_car
    <3>11. Rewrites(M, id', new)  BY <1>6, <3>9 DEF Rewrites, CarTypes, VectorTypes
    <3>12. Relocated(M, id', g_free', new, scan', phase')
      <4>1. CarDone(scan, scan', phase') /\ scan' = scan  BY <1>4, <3>2
      <4>2. ~(scan < scan')  BY <4>1, <1>5
      <4>3. new.type \in CdrTypes => Refers(M, id', new.cdr, 1, g_news - 2)
        BY <1>2, <1>5, <3>3, <3>9 DEF NewCell, CdrRefers, Keeps
      <4> QED  BY <4>1, <4>2, <4>3, <3>5, <3>9, <1>6 DEF Relocated
    <3>13. scan' \in g_news + 1 .. g_free' /\ scan' < g_free' /\ phase' = "cdr" /\ Passes(M, g_free', scan', phase')
      <4>1. scan' = scan /\ phase' = "cdr" /\ Passes(M, g_free', scan', phase')  BY <1>4, <3>2
      <4> QED  BY <4>1, <1>2, <2>3, <3>2, Spaces
    <3>14. UNCHANGED <<g_news, g_stack, regs, globals, g_stack_array>>  BY <3>2 DEF CarScanned
    <3> QED  BY <1>1, <3>3, <3>4, <3>6, <3>7, <3>10, <3>11, <3>12, <3>13, <3>14, LoopStepIInv
  <2> QED  BY <2>4, <2>5
<1>7. CASE c.type # "TBROKEN_HEART" /\ c.type \notin CarTypes
  <2>1. CarScanned /\ UNCHANGED <<mem, history, g_free, g_news, g_stack, regs, uses>>
    BY <1>7 DEF gc_loop_car
  <2>2. /\ Keeps(mem, id', home', g_free')
        /\ \A a \in g_news + 1 .. g_free' - 1 : NewCell(mem, id', a, g_news, g_free', scan, phase)
    BY <1>2, <2>1, NothingCopied DEF history
  <2>3. ~Interior => Cardinality(Covered(mem, g_news)) = g_free' - g_news - 1
    BY <1>2, <2>1 DEF IInv, Fits
  <2>4. mem' = [mem EXCEPT ![scan] = mem[scan]]  BY <1>2, <2>1 DEF Types
  <2>5. Rewrites(mem, id', mem[scan])  BY <1>2, <2>1 DEF Rewrites, history
  <2>6. Relocated(mem, id', g_free', mem[scan], scan', phase')
    <3>1. CarDone(scan, scan', phase') /\ scan' = scan /\ ~(scan < scan)  BY <1>4, <1>5, <2>1
    <3> QED  BY <3>1, <1>2, <1>5, <1>7, <2>1 DEF Relocated, NewCell, CdrRefers, history
  <2>7. scan' \in g_news + 1 .. g_free' /\ scan' < g_free' /\ phase' = "cdr" /\ Passes(mem, g_free', scan', phase')
    <3>1. scan' = scan /\ phase' = "cdr" /\ Passes(mem, g_free', scan', phase')  BY <1>4, <2>1
    <3> QED  BY <3>1, <1>1, <1>2, <2>1, Spaces
  <2>8. UNCHANGED <<g_news, g_stack, regs, globals, g_stack_array>>  BY <2>1 DEF CarScanned
  <2> QED  BY <1>1, <2>2, <2>3, <2>4, <2>5, <2>6, <2>7, <2>8, LoopStepIInv
<1> QED  BY <1>3, <1>6, <1>7

\* gc_loop goes to the next cell: past a block of bytes at once.
LEMMA ScannedCells ==
  ASSUME IInv, phase = "cdr", scan < g_free, Scanned
  PROVE  /\ phase' = "car" /\ scan < scan' /\ scan' \in g_news + 1 .. g_free
         /\ CarDone(scan, scan', phase')
         /\ mem[scan].type # "TBYTES" => \A m, F : F \in Nat => Passes(m, F, scan', phase')
         /\ Passes(mem, g_free, scan', phase')
<1>1. /\ Types /\ Collection
      /\ scan \in g_news + 1 .. g_free - 1 /\ scan \in Addr /\ scan \in Nat /\ scan \in 0 .. g_free - 1
      /\ mem[scan] \in Cells
      /\ NewCell(mem, id, scan, g_news, g_free, scan, phase)
  BY ScanCell
<1>2. g_news \in Nat /\ g_free \in Nat  BY <1>1, Spaces
<1>3. phase' = "car" /\ scan' = scan + IF mem[scan].type = "TBYTES" THEN bytes_cells(mem[scan].car) ELSE 1
  BY DEF Scanned
<1>4. Shaped(mem, id, scan, g_free)  BY <1>1 DEF NewCell
<1>5. CASE mem[scan].type # "TBYTES"
  <2>1. scan' = scan + 1  BY <1>3, <1>5
  <2>2. \A s \in Nat : s = scan + 1 => s > scan /\ s \in g_news + 1 .. g_free  BY <1>1, <1>2
  <2>3. scan' > scan /\ scan' \in g_news + 1 .. g_free  BY <2>1, <2>2, <1>1
  <2>4. ASSUME NEW m, NEW F \in Nat PROVE Passes(m, F, scan', phase')
    <3>1. \A a \in g_news + 1 .. F - 1 : a # scan => (a < scan + 1 <=> a < scan) /\ (a >= scan + 1 <=> a >= scan)
      BY <1>1, <1>2
    <3> QED  BY <3>1, <2>1, <1>3 DEF Passes, CarDone
  <2> QED  BY <1>2, <1>3, <1>5, <2>3, <2>4 DEF CarDone
<1>6. CASE mem[scan].type = "TBYTES"
  <2> DEFINE k == bytes_cells(mem[scan].car)
  <2>1. scan' = scan + k /\ Size(mem[scan]) = k /\ k \in Nat /\ k >= 2 /\ scan + k <= g_free
    BY <1>3, <1>4, <1>6, BytesCells DEF Size, VectorTypes, Shaped
  <2> HIDE DEF k
  <2>2. \A s \in Nat : s = scan + k => s > scan /\ s \in g_news + 1 .. g_free  BY <1>1, <1>2, <2>1
  <2>3. scan' > scan /\ scan' \in g_news + 1 .. g_free  BY <2>1, <2>2, <1>1
  <2>4. Passes(mem, g_free, scan', phase')
    <3>1. SUFFICES ASSUME NEW a \in g_news + 1 .. g_free - 1, a # scan
                   PROVE  \/ mem[a].type = "raw"
                          \/ /\ CarDone(a, scan', phase') <=> CarDone(a, scan, phase)
                             /\ a < scan' <=> a < scan
                             /\ a >= scan' <=> a >= scan
      BY DEF Passes
    <3>2. CASE a \in scan + 1 .. scan + k - 1
      <4>1. a \in Rest(mem, scan)  BY <3>2, <2>1 DEF Rest
      <4> QED  BY <4>1, <1>4, <1>6 DEF Shaped
    <3>3. CASE a \notin scan + 1 .. scan + k - 1
      <4>1. (a < scan + k <=> a < scan) /\ (a >= scan + k <=> a >= scan)  BY <3>1, <3>3, <1>1, <1>2, <2>1
      <4> QED  BY <4>1, <3>1, <2>1, <1>3 DEF CarDone
    <3> QED  BY <3>2, <3>3
  <2> QED  BY <1>3, <1>6, <2>3, <2>4 DEF CarDone
<1> QED  BY <1>5, <1>6

\* The second half of a round of gc_loop.
LEMMA GcLoopCdrIInv ==
  ASSUME IInv, gc_loop_cdr
  PROVE  IInv'
<1>1. phase = "cdr" /\ scan < g_free
  BY DEF gc_loop_cdr, IInv, Collecting, Collection
<1>2. /\ Types /\ Collection /\ Collecting
      /\ scan \in g_news + 1 .. g_free - 1 /\ scan \in Addr /\ scan \in Nat /\ scan \in 0 .. g_free - 1
      /\ mem[scan] \in Cells
      /\ NewCell(mem, id, scan, g_news, g_free, scan, phase)
  BY <1>1, ScanCell
<1> DEFINE c == mem[scan]
           old == c.cdr
<1>3. CarDone(scan, scan, phase) /\ scan >= scan /\ c.type # "TBROKEN_HEART"
  BY <1>1, <1>2 DEF CarDone, NewCell
<1>4. Scanned =>
        /\ phase' = "car" /\ scan < scan' /\ scan' \in g_news + 1 .. g_free
        /\ CarDone(scan, scan', phase')
        /\ mem[scan].type # "TBYTES" => \A m, F : F \in Nat => Passes(m, F, scan', phase')
        /\ Passes(mem, g_free, scan', phase')
  BY <1>1, ScannedCells
<1>5. CASE c.type \in CdrTypes
  <2>1. gc_copy(old, gc_relocate_cdr(Copied(old), scan, NewOf(old)), Scanned)
    BY <1>5 DEF gc_loop_cdr
  <2>2. Refers(mem, id, old, 1, g_news - 2)  BY <1>2, <1>3, <1>5 DEF NewCell, CdrRefers
  <2>3. Taken(old) \in Nat /\ g_free \in Nat /\ MemTop \in Nat  BY <1>2, <2>2, TakenCells
  <2>4. CASE g_free + Taken(old) > MemTop  BY <2>1, <2>4, StopIInv DEF gc_copy
  <2>5. CASE ~(g_free + Taken(old) > MemTop)
    <3> HIDE DEF old
    <3>1. PICK M : M = Copied(old)  OBVIOUS
    <3>2. /\ Copies(old, M, id', home', g_free') /\ g_free' = g_free + Taken(old)
          /\ mem' = gc_relocate_cdr(M, scan, NewOf(old))
          /\ UNCHANGED <<g_news, g_stack, regs, uses>> /\ Scanned
      BY <2>1, <2>3, <2>5, <3>1 DEF gc_copy, Copies, history
    <3>3. Keeps(M, id', home', g_free') /\ \A a \in 0 .. g_free - 1 : a # old => M[a] = mem[a]
      BY <1>2, <2>2, <3>2, CopyKeeps
    <3>4. \A a \in g_news + 1 .. g_free' - 1 : NewCell(M, id', a, g_news, g_free', scan, phase)
      BY <1>2, <2>2, <3>2, CopyNewCells
    <3>5. Refers(M, id', NewOf(old), g_news + 1, g_free' - 1) /\ id'[NewOf(old)] = id[old]
      BY <1>2, <2>2, <3>2, CopyResult
    <3>6. ~Interior => Cardinality(Covered(M, g_news)) = g_free' - g_news - 1
      BY <1>2, <2>2, <3>2, CopyFits DEF IInv
    <3>7. M[scan] = c
      <4>1. scan # old  BY <1>2, <2>2, Spaces DEF Refers
      <4> QED  BY <4>1, <1>2, <3>3
    <3>8. PICK new : new = [c EXCEPT !.cdr = NewOf(old)]  OBVIOUS
    <3>9. new \in Cells /\ new.type = c.type /\ new.car = c.car /\ new.cdr = NewOf(old)
      <4>1. \A r \in Cells, x \in Int :
              LET e == [r EXCEPT !.cdr = x] IN e \in Cells /\ e.type = r.type /\ e.car = r.car /\ e.cdr = x
        BY DEF Cells
      <4>2. NewOf(old) \in Int  BY <1>2, <3>5, Spaces DEF Refers
      <4> QED  BY <4>1, <4>2, <1>2, <3>8
    <3>10. mem' = [M EXCEPT ![scan] = new]
      <4>1. M \in [Addr -> Cells]  BY <3>3 DEF Keeps
      <4> QED  BY <4>1, <1>2, <3>2, <3>7, <3>8 DEF gc_relocate_cdr
    <3>a. c.type # "TBYTES" /\ c.type \notin VectorTypes  BY <1>5 DEF CdrTypes, VectorTypes
    <3>b. old = mem[scan].cdr  BY DEF old
    <3>11. Rewrites(M, id', new)  BY <3>5, <3>9, <3>a, <3>b DEF Rewrites
    <3>12. scan' \in g_news + 1 .. g_free /\ scan < scan' /\ phase' = "car" /\ CarDone(scan, scan', phase')
           /\ Passes(M, g_free', scan', phase')
      <4>1. g_free' \in Nat  BY <2>3, <3>2
      <4> QED  BY <4>1, <1>4, <3>2, <3>a
    <3>13. Relocated(M, id', g_free', new, scan', phase')
      <4>1. ~(scan >= scan')  BY <3>12, <1>2, Spaces
      <4>2. new.type \in CarTypes => Refers(M, id', new.car, g_news + 1, g_free' - 1)
        BY <1>2, <1>3, <3>3, <3>9 DEF NewCell, CarRefers, Keeps
      <4> QED  BY <4>1, <4>2, <3>5, <3>9, <3>12, <1>3 DEF Relocated
    <3>14. scan' \in g_news + 1 .. g_free'
      <4>1. \A f \in Nat : g_free <= f => g_news + 1 .. g_free \subseteq g_news + 1 .. f  BY <1>2, Spaces
      <4>2. g_free' \in Nat /\ g_free <= g_free'  BY <2>3, <3>2
      <4> QED  BY <4>1, <4>2, <3>12
    <3>15. UNCHANGED <<g_news, g_stack, regs, globals, g_stack_array>>  BY <3>2 DEF Scanned
    <3> QED  BY <1>1, <3>3, <3>4, <3>6, <3>7, <3>10, <3>11, <3>12, <3>13, <3>14, <3>15, LoopStepIInv
  <2> QED  BY <2>4, <2>5
<1>6. CASE c.type \notin CdrTypes
  <2>1. Scanned /\ UNCHANGED <<mem, history, g_free, g_news, g_stack, regs, uses>>
    BY <1>6 DEF gc_loop_cdr
  <2>2. /\ Keeps(mem, id', home', g_free')
        /\ \A a \in g_news + 1 .. g_free' - 1 : NewCell(mem, id', a, g_news, g_free', scan, phase)
    BY <1>2, <2>1, NothingCopied DEF history
  <2>3. ~Interior => Cardinality(Covered(mem, g_news)) = g_free' - g_news - 1
    BY <1>2, <2>1 DEF IInv, Fits
  <2>4. mem' = [mem EXCEPT ![scan] = mem[scan]]  BY <1>2, <2>1 DEF Types
  <2>5. Rewrites(mem, id', mem[scan])  BY <1>2, <2>1 DEF Rewrites, history
  <2>6. scan' \in g_news + 1 .. g_free' /\ scan < scan' /\ phase' = "car" /\ CarDone(scan, scan', phase')
        /\ Passes(mem, g_free', scan', phase')
    BY <1>4, <2>1
  <2>7. Relocated(mem, id', g_free', mem[scan], scan', phase')
    <3>1. ~(scan >= scan')
      <4>1. scan' \in Int  BY <2>6
      <4> QED  BY <4>1, <2>6, <1>2
    <3> QED  BY <3>1, <2>6, <1>2, <1>3, <1>6, <2>1 DEF Relocated, NewCell, CarRefers, history
  <2>8. UNCHANGED <<g_news, g_stack, regs, globals, g_stack_array>>  BY <2>1 DEF Scanned
  <2> QED  BY <1>1, <2>2, <2>3, <2>4, <2>5, <2>6, <2>7, <2>8, LoopStepIInv
<1> QED  BY <1>5, <1>6

-----------------------------------------------------------------------------
(***************************************************************************)
(* gc_flip.                                                                *)
(***************************************************************************)
\* The new space, moved to the start of the arena: u cells.
Flipped(M, I, u) ==
  /\ u = g_free - g_news
  /\ M = [a \in Addr |-> IF a < u THEN Moved(mem[a + g_news], g_news) ELSE FreeCell]
  /\ I = [a \in Addr |-> IF a < u THEN id[a + g_news] ELSE NoId]

\* gc_cellcpy keeps the type, and moves what the cell refers to.
LEMMA MovedCell ==
  ASSUME NEW c \in Cells, NEW n \in Nat
  PROVE  /\ Moved(c, n) \in Cells /\ Moved(c, n).type = c.type
         /\ c.type \in CarTypes => Moved(c, n).car = c.car - n
         /\ c.type \notin CarTypes => Moved(c, n).car = c.car
         /\ c.type \in CdrTypes \cup VectorTypes => Moved(c, n).cdr = c.cdr - n
         /\ c.type \notin CdrTypes \cup VectorTypes => Moved(c, n).cdr = c.cdr
<1>1. \A r \in Cells, x \in Int :
        LET e == [r EXCEPT !.car = x] IN e \in Cells /\ e.type = r.type /\ e.car = x /\ e.cdr = r.cdr
  BY DEF Cells
<1>2. \A r \in Cells, x \in Int :
        LET e == [r EXCEPT !.cdr = x] IN e \in Cells /\ e.type = r.type /\ e.car = r.car /\ e.cdr = x
  BY DEF Cells
<1>3. c.car \in Int /\ c.cdr \in Int  BY DEF Cells
<1>4. PICK x \in Int : x = IF c.type \in CarTypes THEN c.car - n ELSE c.car  BY <1>3
<1>5. PICK y \in Int : y = IF c.type \in CdrTypes \cup VectorTypes THEN c.cdr - n ELSE c.cdr  BY <1>3
<1>6. PICK d : d = [c EXCEPT !.car = x]  OBVIOUS
<1>7. d \in Cells /\ d.type = c.type /\ d.car = x /\ d.cdr = c.cdr  BY <1>1, <1>6
<1>8. PICK e : e = [d EXCEPT !.cdr = y]  OBVIOUS
<1>9. e \in Cells /\ e.type = c.type /\ e.car = x /\ e.cdr = y  BY <1>2, <1>7, <1>8
<1>10. Moved(c, n) = e
  <2>1. Moved(c, n) = [c EXCEPT !.car = x, !.cdr = y]
    BY <1>4, <1>5 DEF Moved, CellcpyCar, CellcpyCdr
  <2> QED  BY <2>1, <1>6, <1>8
<1> QED  BY <1>4, <1>5, <1>9, <1>10

\* When gc_loop is done every cell of the new space is relocated.
LEMMA AllScanned ==
  ASSUME Types, Collection, phase = "car", scan >= g_free
  PROVE  /\ \A a \in g_news + 1 .. g_free - 1 :
              /\ mem[a].type \notin {"free", "TBROKEN_HEART"}
              /\ Shaped(mem, id, a, g_free)
              /\ CarRefers(mem, id, a, g_news + 1, g_free - 1)
              /\ CdrRefers(mem, id, a, g_news + 1, g_free - 1)
         /\ \A s \in Symbols : g_news + s < g_free /\ SymbolAt(mem, id, s, g_news + s)
<1>1. g_news \in Nat /\ g_free \in Nat  BY Spaces
<1>2. scan = g_free  BY <1>1 DEF Collection
<1>3. ASSUME NEW a \in g_news + 1 .. g_free - 1
      PROVE  /\ mem[a].type \notin {"free", "TBROKEN_HEART"}
             /\ Shaped(mem, id, a, g_free)
             /\ CarRefers(mem, id, a, g_news + 1, g_free - 1)
             /\ CdrRefers(mem, id, a, g_news + 1, g_free - 1)
  <2>1. a < scan /\ CarDone(a, scan, phase)  BY <1>1, <1>2 DEF CarDone
  <2>2. NewCell(mem, id, a, g_news, g_free, scan, phase)  BY DEF Collection
  <2> QED  BY <2>1, <2>2 DEF NewCell
<1>4. \A s \in Symbols : g_news + s < g_free /\ SymbolAt(mem, id, s, g_news + s)
  BY DEF Collection, SymbolsInOrder, RootDone
<1> QED  BY <1>3, <1>4

\* The flipped cells.
LEMMA FlippedCells ==
  ASSUME Types, Collection, NEW M, NEW I, NEW u, Flipped(M, I, u)
  PROVE  /\ u \in Nat \ {0} /\ u <= MemTop /\ u = g_free - g_news
         /\ M \in [Addr -> Cells] /\ I \in [Addr -> Ids \cup {NoId}]
         /\ \A a \in 0 .. u - 1 : /\ a \in Addr /\ a + g_news \in Addr /\ a + g_news \in g_news .. g_free - 1
                                  /\ M[a] = Moved(mem[a + g_news], g_news) /\ M[a].type = mem[a + g_news].type
                                  /\ I[a] = id[a + g_news]
         /\ \A a \in Addr : a >= u => I[a] = NoId
<1>1. /\ g_news \in Nat /\ g_news > 2 /\ g_free \in Nat /\ g_news < g_free
      /\ g_free <= MemTop /\ MemTop \in Nat /\ Addr = 0 .. MemTop - 1
      /\ mem \in [Addr -> Cells] /\ id \in [Addr -> Ids \cup {NoId}]
  BY Spaces
<1>2. u \in Nat \ {0} /\ u <= MemTop /\ u = g_free - g_news  BY <1>1 DEF Flipped
<1>3. \A a \in 0 .. u - 1 : a \in Addr /\ a + g_news \in Addr /\ a + g_news \in g_news .. g_free - 1 /\ a < u
  BY <1>1, <1>2
<1>4. \A a \in Addr : a < u => a \in 0 .. u - 1  BY <1>1, <1>2
<1>5. \A a \in 0 .. u - 1 : Moved(mem[a + g_news], g_news) \in Cells
                            /\ Moved(mem[a + g_news], g_news).type = mem[a + g_news].type
  BY <1>1, <1>3, MovedCell
<1>6. FreeCell \in Cells  BY MadeCell DEF FreeCell, CellTypes
<1>7. M \in [Addr -> Cells]  BY <1>4, <1>5, <1>6 DEF Flipped
<1>8. I \in [Addr -> Ids \cup {NoId}]  BY <1>1, <1>3, <1>4 DEF Flipped
<1>9. \A a \in 0 .. u - 1 : M[a] = Moved(mem[a + g_news], g_news) /\ I[a] = id[a + g_news]
  BY <1>3 DEF Flipped
<1>10. \A a \in Addr : a >= u => I[a] = NoId
  BY <1>1, <1>2 DEF Flipped
<1> QED  BY <1>2, <1>3, <1>5, <1>7, <1>8, <1>9, <1>10

\* A reference to the new space moves with it.
LEMMA FlippedReference ==
  ASSUME Types, Collection, NEW M, NEW I, NEW u, Flipped(M, I, u),
         NEW p, Refers(mem, id, p, g_news + 1, g_free - 1)
  PROVE  Refers(M, I, p - g_news, 1, u - 1) /\ I[p - g_news] = id[p]
<1>1. g_news \in Nat /\ g_free \in Nat /\ g_news < g_free  BY Spaces
<1>2. u = g_free - g_news /\ \A a \in 0 .. u - 1 : M[a].type = mem[a + g_news].type /\ I[a] = id[a + g_news]
  BY FlippedCells
<1>3. p - g_news \in 1 .. u - 1 /\ p - g_news \in 0 .. u - 1 /\ (p - g_news) + g_news = p
  BY <1>1, <1>2 DEF Refers
<1> QED  BY <1>2, <1>3 DEF Refers

\* A relocated object of the new space is one that a program made.
LEMMA FlippedSound ==
  ASSUME Types, Collection, phase = "car", scan >= g_free,
         NEW M, NEW I, NEW u, Flipped(M, I, u), NEW a \in 1 .. u - 1
  PROVE  Sound(M, I, a, 1, u - 1, u)
<1>1. /\ g_news \in Nat /\ g_news > 2 /\ g_free \in Nat /\ g_news < g_free
      /\ mem \in [Addr -> Cells] /\ \A x \in Addr : x \in Nat
  BY Spaces
<1>2. u \in Nat \ {0} /\ u = g_free - g_news /\ M \in [Addr -> Cells]
  BY FlippedCells
<1>3. \A x \in 0 .. u - 1 : /\ x \in Addr /\ x + g_news \in Addr
                            /\ M[x] = Moved(mem[x + g_news], g_news) /\ M[x].type = mem[x + g_news].type
                            /\ I[x] = id[x + g_news]
  BY FlippedCells
<1> DEFINE b == a + g_news
           c == mem[b]
<1>4. a \in 0 .. u - 1 /\ a \in Int /\ b \in g_news + 1 .. g_free - 1 /\ b \in Addr /\ c \in Cells /\ b = a + g_news
  BY <1>1, <1>2, <1>3
<1>5. /\ c.type \notin {"free", "TBROKEN_HEART"}
      /\ Shaped(mem, id, b, g_free)
      /\ CarRefers(mem, id, b, g_news + 1, g_free - 1)
      /\ CdrRefers(mem, id, b, g_news + 1, g_free - 1)
  BY <1>4, AllScanned
<1>6. /\ M[a].type = c.type
      /\ c.type \in CarTypes => M[a].car = c.car - g_news
      /\ c.type \notin CarTypes => M[a].car = c.car
      /\ c.type \in CdrTypes \cup VectorTypes => M[a].cdr = c.cdr - g_news
      /\ c.type \notin CdrTypes \cup VectorTypes => M[a].cdr = c.cdr
  <2>1. M[a] = Moved(c, g_news)  BY <1>3, <1>4
  <2>2. c \in Cells /\ g_news \in Nat  BY <1>1, <1>4
  <2> HIDE DEF c, b
  <2>3. M[a].type = c.type  BY <2>1, <2>2, MovedCell
  <2>4. /\ c.type \in CarTypes => M[a].car = c.car - g_news
        /\ c.type \notin CarTypes => M[a].car = c.car
    BY <2>1, <2>2, MovedCell
  <2>5. /\ c.type \in CdrTypes \cup VectorTypes => M[a].cdr = c.cdr - g_news
        /\ c.type \notin CdrTypes \cup VectorTypes => M[a].cdr = c.cdr
    BY <2>1, <2>2, MovedCell
  <2> QED  BY <2>3, <2>4, <2>5
<1> HIDE DEF b
<1>7. CarRefers(M, I, a, 1, u - 1)
  <2>1. CASE c.type \in CarTypes
    <3>1. Refers(mem, id, c.car, g_news + 1, g_free - 1)  BY <2>1, <1>5 DEF CarRefers
    <3>2. Refers(M, I, c.car - g_news, 1, u - 1)  BY <3>1, FlippedReference
    <3> QED  BY <2>1, <3>2, <1>6 DEF CarRefers
  <2>2. CASE c.type \notin CarTypes  BY <2>2, <1>6 DEF CarRefers
  <2> QED  BY <2>1, <2>2
<1>8. CdrRefers(M, I, a, 1, u - 1)
  <2>1. CASE c.type \in CdrTypes
    <3>1. Refers(mem, id, c.cdr, g_news + 1, g_free - 1)  BY <2>1, <1>5 DEF CdrRefers
    <3>2. Refers(M, I, c.cdr - g_news, 1, u - 1)  BY <3>1, FlippedReference
    <3> QED  BY <2>1, <3>2, <1>6 DEF CdrRefers
  <2>2. CASE c.type \notin CdrTypes  BY <2>2, <1>6 DEF CdrRefers
  <2> QED  BY <2>1, <2>2
<1>9. Size(M[a]) = Size(c) /\ Size(c) \in Nat \ {0}
  <2>1. c.type \in VectorTypes \cup {"TBYTES"} => c.type \notin CarTypes  BY DEF VectorTypes, CarTypes
  <2>2. Size(c) \in Nat \ {0}  BY <1>4, <1>5, <1>1, ShapedSize
  <2> QED  BY <2>1, <2>2, <1>6 DEF Size
<1>10. Shaped(M, I, a, u)
  <2>1. /\ c.type \in VectorTypes => c.cdr = b + 1 /\ c.car \in Nat
        /\ c.type = "TBYTES" => c.car \in Nat
        /\ b + Size(c) <= g_free
        /\ \A j \in Rest(mem, b) :
             /\ c.type \in VectorTypes => mem[j].type \in EntryTypes \cup {"TBROKEN_HEART"}
             /\ c.type = "TBYTES" => mem[j].type = "raw"
             /\ id[j] = NoId
    BY <1>5 DEF Shaped
  <2>2. M[a].type \in VectorTypes => M[a].cdr = a + 1 /\ M[a].car \in Nat
    <3>1. SUFFICES ASSUME c.type \in VectorTypes PROVE M[a].cdr = a + 1 /\ M[a].car \in Nat
      BY <1>6
    <3>2. M[a].cdr = c.cdr - g_news /\ c.cdr = b + 1 /\ M[a].car = c.car /\ c.car \in Nat
      BY <2>1, <3>1, <1>6 DEF VectorTypes, CarTypes
    <3> QED  BY <3>2, <1>1, <1>4
  <2>3. M[a].type = "TBYTES" => M[a].car \in Nat
    BY <2>1, <1>6 DEF CarTypes
  <2>4. a + Size(M[a]) <= u  BY <2>1, <1>1, <1>2, <1>4, <1>9
  <2>5. ASSUME NEW j \in Rest(M, a)
        PROVE  /\ M[a].type \in VectorTypes => M[j].type \in EntryTypes \cup {"TBROKEN_HEART"}
               /\ M[a].type = "TBYTES" => M[j].type = "raw"
               /\ I[j] = NoId
    <3>1. j \in a + 1 .. a + Size(c) - 1  BY <1>9 DEF Rest
    <3>2. j \in 0 .. u - 1  BY <3>1, <2>4, <1>4, <1>9, <1>2
    <3>3. j + g_news \in b + 1 .. b + Size(c) - 1  BY <3>1, <1>1, <1>4, <1>9
    <3>4. j + g_news \in Rest(mem, b)  BY <3>3 DEF Rest
    <3>5. M[j].type = mem[j + g_news].type /\ I[j] = id[j + g_news]  BY <3>2, <1>3
    <3> QED  BY <3>4, <3>5, <2>1, <1>6
  <2> QED  BY <2>2, <2>3, <2>4, <2>5 DEF Shaped
<1> QED  BY <1>5, <1>6, <1>7, <1>8, <1>10 DEF Sound

\* The homes move with the objects; those that were not copied have none.
LEMMA FlippedHomes ==
  ASSUME Types, Collection, NEW M, NEW I, NEW u, Flipped(M, I, u),
         NEW H, H = [i \in {j \in DOMAIN home : home[j] >= g_news} |-> home[i] - g_news]
  PROVE  DOMAIN H \subseteq Ids /\ Homes(I, H, u)
<1>1. g_news \in Nat /\ g_free \in Nat  BY Spaces
<1>2. u = g_free - g_news /\ \A a \in 0 .. u - 1 : I[a] = id[a + g_news]  BY FlippedCells
<1>3. Homes(id, home, g_free) /\ DOMAIN home \subseteq Ids  BY DEF Collection, Types
<1>4. ASSUME NEW o \in DOMAIN H PROVE H[o] \in 0 .. u - 1 /\ I[H[o]] = o
  <2>1. o \in DOMAIN home /\ home[o] >= g_news /\ H[o] = home[o] - g_news  OBVIOUS
  <2>2. home[o] \in 0 .. g_free - 1 /\ id[home[o]] = o  BY <2>1, <1>3 DEF Homes
  <2>3. H[o] \in 0 .. u - 1 /\ H[o] + g_news = home[o]  BY <2>1, <2>2, <1>1, <1>2
  <2> QED  BY <2>2, <2>3, <1>2
<1> QED  BY <1>3, <1>4 DEF Homes

\* The end of a collection: what was reachable is in the arena again, the
\* symbols at their addresses.
LEMMA GcFlipIInv ==
  ASSUME IInv, gc_flip
  PROVE  IInv'
<1>1. Types /\ Collection /\ Collecting /\ phase = "car" /\ scan >= g_free
  BY DEF IInv, Collecting, gc_flip
<1>2. /\ g_news \in Nat /\ g_free \in Nat /\ g_news < g_free /\ g_free <= MemTop /\ MemTop \in Nat
      /\ Addr = 0 .. MemTop - 1 /\ mem \in [Addr -> Cells] /\ STACK_SIZE \in Nat /\ NSymbols \in Nat \ {0}
  BY <1>1, Spaces, SizesAssumption
<1> DEFINE stack == [k \in DOMAIN g_stack_array |->
                       IF k >= g_stack THEN g_stack_array[k] - g_news ELSE g_stack_array[k]]
<1>3. /\ g_free' = g_free - g_news
      /\ Flipped(mem', id', g_free')
      /\ home' = [i \in {j \in DOMAIN home : home[j] >= g_news} |-> home[i] - g_news]
      /\ globals' = [g \in DOMAIN globals |-> globals[g] - g_news]
      /\ regs' = Popped(stack) /\ g_stack_array' = Cleared(stack)
      /\ g_stack' = g_stack + GC_FRAME_SIZE
      /\ g_news' = 0 /\ scan' = 0 /\ next' = 0 /\ phase' = "run"
  BY DEF gc_flip, Flipped
<1> DEFINE u == g_free'
<1>4. /\ u \in Nat \ {0} /\ u <= MemTop /\ u = g_free - g_news
      /\ mem' \in [Addr -> Cells] /\ id' \in [Addr -> Ids \cup {NoId}]
      /\ \A a \in 0 .. u - 1 : /\ a \in Addr /\ a + g_news \in Addr /\ a + g_news \in g_news .. g_free - 1
                               /\ mem'[a] = Moved(mem[a + g_news], g_news) /\ mem'[a].type = mem[a + g_news].type
                               /\ id'[a] = id[a + g_news]
      /\ \A a \in Addr : a >= u => id'[a] = NoId
  BY <1>1, <1>3, FlippedCells
<1>5. ASSUME NEW p, Refers(mem, id, p, g_news + 1, g_free - 1)
      PROVE  /\ Refers(mem', id', p - g_news, 1, u - 1) /\ id'[p - g_news] = id[p]
             /\ p - g_news \in 0 .. u /\ p - g_news \in Addr
  <2>1. Refers(mem', id', p - g_news, 1, u - 1) /\ id'[p - g_news] = id[p]
    BY <1>1, <1>3, <1>5, FlippedReference
  <2> QED  BY <2>1, <1>4 DEF Refers
<1>6. Roots(mem, id, g_news, g_free) /\ \A k : RootDone(k)  BY <1>1 DEF Collection, RootDone
<1>7. \A g \in Globals : Refers(mem, id, globals[g], g_news + 1, g_free - 1)
  BY <1>6, SevenGlobals DEF Roots, Root
<1>8. \A k \in g_stack .. STACK_SIZE - 1 : Refers(mem, id, g_stack_array[k], g_news + 1, g_free - 1)
  BY <1>6 DEF Roots, Root
<1>9. /\ g_stack \in 0 .. STACK_SIZE /\ g_stack + GC_FRAME_SIZE <= STACK_SIZE
      /\ DOMAIN stack = 0 .. STACK_SIZE - 1
      /\ \A k \in g_stack .. STACK_SIZE - 1 : stack[k] = g_stack_array[k] - g_news
  BY <1>1, <1>2 DEF Types, Collection
<1> HIDE DEF stack
<1>10. \A k \in g_stack .. STACK_SIZE - 1 :
         Refers(mem', id', stack[k], 1, u - 1) /\ stack[k] \in 0 .. u /\ stack[k] \in Addr
  BY <1>5, <1>8, <1>9
<1>11. /\ g_stack + GC_FRAME_SIZE \in 0 .. STACK_SIZE
       /\ \A r \in Regs : g_stack + NRegs - 1 - r \in g_stack .. STACK_SIZE - 1
                          /\ Popped(stack)[r] = stack[g_stack + NRegs - 1 - r]
       /\ Cleared(stack) \in [0 .. STACK_SIZE - 1 -> 0 .. u]
       /\ \A k \in 0 .. g_stack + GC_FRAME_SIZE - 1 : Cleared(stack)[k] = 0
       /\ \A k \in g_stack + GC_FRAME_SIZE .. STACK_SIZE - 1 :
            k \in g_stack .. STACK_SIZE - 1 /\ Cleared(stack)[k] = stack[k]
  <2>1. u \in Nat /\ \A k \in g_stack .. STACK_SIZE - 1 : stack[k] \in 0 .. u  BY <1>4, <1>10
  <2> HIDE DEF u
  <2> QED  BY <2>1, <1>9, PoppedFrame
<1>12. RunCells(mem', id', u) /\ id'[0] = NoId
  <2>1. mem'[0].type = "TCHAR" /\ id'[0] = NoId
    <3>1. 0 \in 0 .. u - 1 /\ 0 + g_news = g_news  BY <1>2, <1>4
    <3> QED  BY <3>1, <1>1, <1>4 DEF Collection
  <2>2. ASSUME NEW a \in 0 .. u - 1 PROVE Sound(mem', id', a, 1, u - 1, u)
    <3>1. CASE a = 0
      <4>1. mem'[0].type \notin {"free", "TBROKEN_HEART", "TBYTES"} \cup VectorTypes
        BY <2>1 DEF VectorTypes
      <4>2. CarRefers(mem', id', 0, 1, u - 1) /\ CdrRefers(mem', id', 0, 1, u - 1)
        BY <2>1 DEF CarRefers, CdrRefers, CarTypes, CdrTypes
      <4>3. 0 \in Int /\ u \in Int /\ 0 < u  BY <1>4
      <4>4. Sound(mem', id', 0, 1, u - 1, u)  BY <4>1, <4>2, <4>3, SmallSound
      <4> QED  BY <3>1, <4>4
    <3>2. CASE a # 0
      <4>1. a \in 1 .. u - 1  BY <3>2, <1>4
      <4> QED  BY <4>1, <1>1, <1>3, FlippedSound
    <3> QED  BY <3>1, <3>2
  <2> QED  BY <2>1, <2>2 DEF RunCells
<1>13. \A s \in Symbols : s < u /\ SymbolAt(mem', id', s, s)
  <2>1. SUFFICES ASSUME NEW s \in Symbols PROVE s < u /\ SymbolAt(mem', id', s, s)
    OBVIOUS
  <2>2. g_news + s < g_free /\ SymbolAt(mem, id, s, g_news + s)  BY <1>1, AllScanned
  <2>3. /\ s \in 0 .. u - 1 /\ s < u /\ s + g_news = g_news + s
        /\ g_news + s \in g_news + 1 .. g_free - 1 /\ g_news + s \in Addr
    BY <2>2, <1>2, <1>4 DEF Symbols
  <2>4. mem[g_news + s].type = "TSPECIAL" /\ mem[g_news + s] \in Cells  BY <2>2, <2>3, <1>2 DEF SymbolAt
  <2>5. mem'[s].type = "TSPECIAL" /\ id'[s] = s  BY <2>2, <2>3, <2>4, <1>4 DEF SymbolAt
  <2>6. mem'[s].cdr = mem[g_news + s].cdr - g_news
    <3>1. mem'[s] = Moved(mem[g_news + s], g_news)  BY <2>3, <1>4
    <3>2. Moved(mem[g_news + s], g_news).cdr = mem[g_news + s].cdr - g_news
      BY <2>4, <1>2, MovedCell DEF CdrTypes
    <3> QED  BY <3>1, <3>2
  <2>7. Refers(mem, id, mem[g_news + s].cdr, g_news + 1, g_free - 1)
    BY <2>3, <2>4, <1>1, AllScanned DEF CdrRefers, CdrTypes
  <2>8. id'[mem'[s].cdr] = NameAt(s)  BY <2>2, <2>6, <2>7, <1>5 DEF SymbolAt
  <2> QED  BY <2>3, <2>5, <2>8 DEF SymbolAt
<1>14. DOMAIN home' \subseteq Ids /\ Homes(id', home', u)  BY <1>1, <1>3, FlippedHomes
<1>15. \A r \in Regs : Refers(mem', id', regs'[r], 1, u - 1) /\ regs'[r] \in Addr
  BY <1>3, <1>10, <1>11
<1>16. /\ globals' \in [Globals -> 0 .. u]
       /\ \A g \in Globals : Refers(mem', id', globals'[g], 1, u - 1)
  <2>1. globals' = [g \in Globals |-> globals[g] - g_news]  BY <1>1, <1>3 DEF Types
  <2> QED  BY <2>1, <1>5, <1>7
<1>17. /\ g_stack' \in 0 .. STACK_SIZE /\ g_stack_array' \in [0 .. STACK_SIZE - 1 -> 0 .. u]
       /\ \A k \in 0 .. g_stack' - 1 : g_stack_array'[k] = 0
       /\ \A k \in g_stack' .. STACK_SIZE - 1 : Refers(mem', id', g_stack_array'[k], 1, u - 1)
  <2>1. g_stack' = g_stack + GC_FRAME_SIZE /\ g_stack_array' = Cleared(stack)  BY <1>3
  <2>2. \A k \in g_stack + GC_FRAME_SIZE .. STACK_SIZE - 1 : Refers(mem', id', Cleared(stack)[k], 1, u - 1)
    BY <1>10, <1>11
  <2>3. \A k \in 0 .. g_stack' - 1 : g_stack_array'[k] = 0
    <3>1. g_stack \in Int /\ GC_FRAME_SIZE \in Int  BY <1>9, SizesAssumption DEF GC_FRAME_SIZE
    <3>2. 0 .. g_stack' - 1 = 0 .. g_stack + GC_FRAME_SIZE - 1  BY <2>1, <3>1
    <3> QED  BY <3>2, <2>1, <1>11
  <2>4. \A k \in g_stack' .. STACK_SIZE - 1 : Refers(mem', id', g_stack_array'[k], 1, u - 1)  BY <2>1, <2>2
  <2> HIDE DEF u
  <2> QED  BY <2>1, <2>3, <2>4, <1>11
<1>18. regs' \in [Regs -> Addr]  BY <1>3, <1>15 DEF Popped
<1>19. \A a \in 0 .. u - 1 : mem'[a].type # "free"  BY <1>12 DEF RunCells, Sound
<1>20. Types'
  <2>1. u \in 1 .. MemTop /\ g_news' \in 0 .. u /\ scan' \in 0 .. u /\ phase' \in Phases
    BY <1>2, <1>3, <1>4 DEF Phases
  <2> QED  BY <2>1, <1>4, <1>14, <1>16, <1>17, <1>18, <1>19 DEF Types
<1>21. Run'
  <2>1. NSymbols < u  BY <1>2, <1>13 DEF Symbols
  <2> QED  BY <2>1, <1>12, <1>13, <1>14, <1>15, <1>16, <1>17 DEF Run, RunRoots
<1> QED  BY <1>3, <1>20, <1>21 DEF IInv, Collecting

-----------------------------------------------------------------------------
(***************************************************************************)
(* The invariant and what follows from it.                                 *)
(***************************************************************************)
LEMMA ProgramIInv ==
  ASSUME IInv, Program
  PROVE  IInv'
<1>1. CASE \E r, a, d \in Regs : cons(r, a, d)  BY <1>1, ConsIInv
<1>2. CASE \E r, a \in Regs, lexical_p \in {0, 1} : make_binding_(r, a, lexical_p)
  BY <1>2, MakeBindingIInv
<1>3. CASE \E r, d \in Regs : make_closure_(r, d)  BY <1>3, MakeClosureIInv
<1>4. CASE \E r \in Regs, v \in Values : make_number(r, v)  BY <1>4, MakeNumberIInv
<1>5. CASE \E r \in Regs, v \in Values : make_string(r, v)  BY <1>5, MakeStringIInv
<1>6. CASE \E r, e \in Regs, k \in Lengths : make_vector_(r, k, e)  BY <1>6, MakeVectorIInv
<1>7. CASE \E r, x \in Regs, i \in 0 .. ARENA_SIZE : vector_ref_(r, x, i)  BY <1>7, VectorRefIInv
<1>8. CASE \E x, e \in Regs, i \in 0 .. ARENA_SIZE : vector_set_x_(x, i, e)  BY <1>8, VectorSetIInv
<1>9. CASE \E r, x \in Regs : vector_to_list(r, x)  BY <1>9, VectorToListIInv
<1>10. CASE \E r, x \in Regs : car(r, x)  BY <1>10, CarIInv
<1>11. CASE \E r, x \in Regs : cdr(r, x)  BY <1>11, CdrIInv
<1>12. CASE \E x, e \in Regs : set_car_x(x, e)  BY <1>12, SetCarIInv
<1>13. CASE \E x, e \in Regs : set_cdr_x(x, e)  BY <1>13, SetCdrIInv
<1>14. CASE \E g \in Assigned, r \in Regs : SetGlobal(g, r)  BY <1>14, SetGlobalIInv
<1>15. CASE gc_push_frame  BY <1>15, PushFrameIInv
<1>16. CASE gc_pop_frame  BY <1>16, PopFrameIInv
<1> QED
  BY <1>1, <1>2, <1>3, <1>4, <1>5, <1>6, <1>7, <1>8, <1>9, <1>10, <1>11, <1>12, <1>13, <1>14, <1>15, <1>16
  DEF Program

\* Every step of the program and of the collector keeps the invariant.
LEMMA NextIInv ==
  ASSUME IInv, [Next]_vars
  PROVE  IInv'
<1>1. CASE Program  BY <1>1, ProgramIInv
<1>2. CASE gc_check  BY <1>2, GcCheckIInv
<1>3. CASE copy_symbol  BY <1>3, CopySymbolIInv
<1>4. CASE copy_global  BY <1>4, CopyGlobalIInv
<1>5. CASE copy_stack  BY <1>5, CopyStackIInv
<1>6. CASE gc_loop_car  BY <1>6, GcLoopCarIInv
<1>7. CASE gc_loop_cdr  BY <1>7, GcLoopCdrIInv
<1>8. CASE gc_flip  BY <1>8, GcFlipIInv
<1>9. CASE UNCHANGED vars
  <2>1. /\ mem' = mem /\ g_free' = g_free /\ g_news' = g_news /\ scan' = scan /\ g_stack' = g_stack
        /\ g_stack_array' = g_stack_array /\ regs' = regs /\ globals' = globals /\ phase' = phase
        /\ next' = next /\ id' = id /\ home' = home
    BY <1>9 DEF vars, history
  <2>2. Types'  BY <2>1 DEF IInv, Types
  <2>3. phase' = "run" => Run'  BY <2>1 DEF IInv, Run, RunRoots
  <2>4. Collecting' => Collection'
    <3>1. SUFFICES ASSUME Collecting PROVE Collection'  BY <2>1 DEF Collecting
    <3>2. NRoots' = NRoots  BY <2>1 DEF NRoots
    <3>3. Roots(mem, id, g_news, g_free)'
      BY <3>1, <2>1 DEF IInv, Collection, Roots, Root, RootDone, StackRoot, GlobalRoot
    <3>4. SymbolsInOrder' /\ OnlySymbols'
      BY <3>1, <2>1 DEF IInv, Collection, SymbolsInOrder, OnlySymbols, RootDone
    <3> QED  BY <3>1, <3>2, <3>3, <3>4, <2>1 DEF IInv, Collection
  <2>5. Collecting' /\ ~Interior => Fits'  BY <2>1 DEF IInv, Fits, Collecting
  <2> QED  BY <2>1, <2>2, <2>3, <2>4, <2>5 DEF IInv
<1> QED  BY <1>1, <1>2, <1>3, <1>4, <1>5, <1>6, <1>7, <1>8, <1>9 DEF Next, Collect

\* The invariant holds in every state: while the program runs each reference
\* leads to an object, and while the collector runs each cell is in the space,
\* and each reference in the half of its work, where gc_ has got to.
THEOREM Invariance == Spec => []IInv
<1> QED  BY InitIInv, NextIInv, PTL DEF Spec

\* The registers, the globals, the stack and the counters of the collector
\* stay within memory, and no cell below g_free is left unwritten.
THEOREM TypeCorrect == Spec => []TypeOK
<1>1. IInv => TypeOK
  BY DEF IInv, Types, TypeOK, Cells
<1> QED  BY <1>1, Invariance, PTL

\* gc_loop never leaves a reference to the old space behind the scan pointer,
\* which gc_flip is about to overwrite.
THEOREM RelocatesWhatItScans == Spec => []ScannedCellsAreRelocated
<1>1. ASSUME IInv, Collecting, NEW a \in g_news + 1 .. scan - 1
      PROVE  /\ mem[a].type \in CarTypes => InNews(mem[a].car)
             /\ mem[a].type \in CdrTypes => InNews(mem[a].cdr)
  <2>1. Types /\ Collection  BY <1>1 DEF IInv
  <2>2. g_news \in Nat /\ g_free \in Nat /\ scan \in g_news + 1 .. g_free
    BY <2>1, Spaces DEF Collection
  <2>3. a \in g_news + 1 .. g_free - 1 /\ a < scan  BY <1>1, <2>2
  <2>4. NewCell(mem, id, a, g_news, g_free, scan, phase)  BY <2>1, <2>3 DEF Collection
  <2> QED  BY <2>3, <2>4 DEF NewCell, CarDone, CarRefers, CdrRefers, Refers, InNews
<1>2. IInv => ScannedCellsAreRelocated  BY <1>1 DEF ScannedCellsAreRelocated
<1> QED  BY <1>2, Invariance, PTL

\* However often gc_flip moves the cells, each static symbol is at the address
\* that the C code has for it, with its own name.
THEOREM SymbolsKeepTheirAddress == Spec => []ConstantsKeepTheirAddress
<1>1. IInv => ConstantsKeepTheirAddress
  BY DEF IInv, Run, SymbolAt, Symbols, ConstantsKeepTheirAddress
<1> QED  BY <1>1, Invariance, PTL

\* A program that never makes a reference into a vector does not make gc_loop
\* meet a broken heart: its assertion never fails.
THEOREM MeetsNoBrokenHeart == ~Interior => (Spec => []NoBrokenHeart)
<1>1. SUFFICES ASSUME ~Interior PROVE Spec => []NoBrokenHeart
  OBVIOUS
<1>2. IInv => NoBrokenHeart  BY <1>1 DEF IInv, NoBrokenHeart
<1> QED  BY <1>2, Invariance, PTL

\* Without references into vectors every object is copied at most once, with
\* all its cells, so a collection never needs more cells than were in use when
\* it began.
THEOREM CopiesFit == ~Interior => (Spec => []NewSpaceFitsOld)
<1>1. SUFFICES ASSUME ~Interior PROVE Spec => []NewSpaceFitsOld
  OBVIOUS
<1>2. IInv => NewSpaceFitsOld
  <2>1. Collecting /\ IInv => Types /\ Collection /\ Fits  BY <1>1 DEF IInv
  <2> QED  BY <2>1, FitsOld DEF NewSpaceFitsOld
<1> QED  BY <1>2, Invariance, PTL
===============================================================================
