------------------------- MODULE GcRefinement_proofs -------------------------
(***************************************************************************)
(* The collector and the programs of module Gc implement module            *)
(* AbstractHeap, for all sizes and programs that do not go inside vectors. *)
(***************************************************************************)
EXTENDS Gc_proofs, GcRefinement

(***************************************************************************)
(* What the mapping needs besides IInv.                                    *)
(***************************************************************************)
\* An object has one identity and one home: where its first cell is, or where
\* the broken heart there leads.
AtHome(m, i, h, top) ==
  \A a \in 0 .. top - 1 : i[a] # NoId =>
    /\ i[a] \in DOMAIN h
    /\ h[i[a]] = IF m[a].type = "TBROKEN_HEART" THEN m[a].car ELSE a

\* The frame of gc () holds the objects that the registers held.
Saved ==
  \A r \in Regs :
    /\ regs[r] \in 1 .. g_news - 2
    /\ id[g_stack_array[g_stack + NRegs - 1 - r]] = id[regs[r]]

RInv ==
  /\ phase = "run" => g_news = 0
  /\ phase = "run" \/ Collecting => AtHome(mem, id, home, g_free)
  /\ Collecting => Saved

-----------------------------------------------------------------------------
(***************************************************************************)
(* Contents.                                                               *)
(***************************************************************************)
\* Two cells say the same, if i and I tell which objects their references
\* lead to.  The cdr of a vector is where its elements are.
Same(c, i, C, I) ==
  /\ C.type = c.type
  /\ IF c.type \in CarTypes THEN I[C.car] = i[c.car] ELSE C.car = c.car
  /\ c.type \in CdrTypes => I[C.cdr] = i[c.cdr]
  /\ c.type \notin CdrTypes \cup VectorTypes => C.cdr = c.cdr

\* So do the objects at a and at b.
SameObject(m, i, a, M, I, b) ==
  /\ Same(m[a], i, M[b], I)
  /\ m[a].type \in VectorTypes =>
       /\ m[a].cdr = a + 1 /\ M[b].cdr = b + 1 /\ m[a].car \in Nat
       /\ \A k \in 1 .. m[a].car :
            m[a + k].type \in EntryTypes /\ Same(m[a + k], i, M[b + k], I)

\* The contents of an object, type by type.
LEMMA ContentsOf ==
  ASSUME NEW m, NEW i, NEW a
  PROVE  /\ m[a].type = "TPAIR" => Fields(m, i, a) = <<Ref(i[m[a].car]), Ref(i[m[a].cdr])>>
         /\ m[a].type = "TBINDING" => Fields(m, i, a) = <<Ref(i[m[a].car]), Val(m[a].cdr)>>
         /\ m[a].type = "TCLOSURE" => Fields(m, i, a) = <<Ref(i[m[a].cdr])>>
         /\ m[a].type \in {"TNUMBER", "TCHAR"} => Fields(m, i, a) = <<Val(m[a].cdr)>>
         /\ m[a].type = "TBYTES" => Fields(m, i, a) = <<Val(m[a].car), Val(m[a].cdr)>>
         /\ m[a].type \in {"TSTRING", "TSPECIAL"} => Fields(m, i, a) = <<Val(m[a].car), Ref(i[m[a].cdr])>>
         /\ m[a].type \in VectorTypes =>
              Fields(m, i, a) = [k \in 1 .. m[a].car |-> EntryOf(i, m[m[a].cdr + k - 1])]
         /\ m[a].type \notin {"TPAIR", "TBINDING", "TCLOSURE", "TNUMBER", "TCHAR", "TBYTES", "TSTRING",
                              "TSPECIAL"} \cup VectorTypes =>
              Fields(m, i, a) = <<>>
<1> DEFINE t == m[a].type
<1>1. Fields(m, i, a) =
        CASE t = "TPAIR"    -> <<Ref(i[m[a].car]), Ref(i[m[a].cdr])>>
          [] t = "TBINDING" -> <<Ref(i[m[a].car]), Val(m[a].cdr)>>
          [] t = "TCLOSURE" -> <<Ref(i[m[a].cdr])>>
          [] t \in {"TNUMBER", "TCHAR"} -> <<Val(m[a].cdr)>>
          [] t = "TBYTES"   -> <<Val(m[a].car), Val(m[a].cdr)>>
          [] t \in {"TSTRING", "TSPECIAL"} -> <<Val(m[a].car), Ref(i[m[a].cdr])>>
          [] t \in VectorTypes -> [k \in 1 .. m[a].car |-> EntryOf(i, m[m[a].cdr + k - 1])]
          [] OTHER -> <<>>
  BY DEF Fields
<1> HIDE DEF t
<1>2. t = "TPAIR" => Fields(m, i, a) = <<Ref(i[m[a].car]), Ref(i[m[a].cdr])>>
  BY <1>1, Zenon DEF VectorTypes
<1>3. t = "TBINDING" => Fields(m, i, a) = <<Ref(i[m[a].car]), Val(m[a].cdr)>>
  BY <1>1, Zenon DEF VectorTypes
<1>4. t = "TCLOSURE" => Fields(m, i, a) = <<Ref(i[m[a].cdr])>>
  BY <1>1, Zenon DEF VectorTypes
<1>5. t = "TNUMBER" => Fields(m, i, a) = <<Val(m[a].cdr)>>
  BY <1>1, Zenon DEF VectorTypes
<1>6. t = "TCHAR" => Fields(m, i, a) = <<Val(m[a].cdr)>>
  BY <1>1, Zenon DEF VectorTypes
<1>7. t = "TBYTES" => Fields(m, i, a) = <<Val(m[a].car), Val(m[a].cdr)>>
  BY <1>1, Zenon DEF VectorTypes
<1>8. t = "TSTRING" => Fields(m, i, a) = <<Val(m[a].car), Ref(i[m[a].cdr])>>
  BY <1>1, Zenon DEF VectorTypes
<1>9. t = "TSPECIAL" => Fields(m, i, a) = <<Val(m[a].car), Ref(i[m[a].cdr])>>
  BY <1>1, Zenon DEF VectorTypes
<1>10. t = "TVECTOR" \/ t = "TSTRUCT" =>
         Fields(m, i, a) = [k \in 1 .. m[a].car |-> EntryOf(i, m[m[a].cdr + k - 1])]
  BY <1>1, Zenon DEF VectorTypes
<1>11. ASSUME t # "TPAIR", t # "TBINDING", t # "TCLOSURE", t \notin {"TNUMBER", "TCHAR"}, t # "TBYTES",
              t \notin {"TSTRING", "TSPECIAL"}, t \notin VectorTypes
       PROVE  Fields(m, i, a) = <<>>
  BY <1>1, <1>11, Zenon
<1> QED  BY <1>2, <1>3, <1>4, <1>5, <1>6, <1>7, <1>8, <1>9, <1>10, <1>11 DEF t, VectorTypes

\* Objects that say the same have the same contents.
LEMMA SameContents ==
  ASSUME NEW m, NEW M, NEW i, NEW I, NEW a \in Int, NEW b \in Int, SameObject(m, i, a, M, I, b)
  PROVE  Contents(M, I, b) = Contents(m, i, a)
<1>1. Same(m[a], i, M[b], I) /\ M[b].type = m[a].type  BY DEF SameObject, Same
<1> SUFFICES Fields(M, I, b) = Fields(m, i, a)  BY <1>1 DEF Contents
<1>2. CASE m[a].type \in VectorTypes
  <2>1. m[a].cdr = a + 1 /\ M[b].cdr = b + 1 /\ m[a].car \in Nat
        /\ \A k \in 1 .. m[a].car :
             m[a + k].type \in EntryTypes /\ Same(m[a + k], i, M[b + k], I)
    BY <1>2 DEF SameObject
  <2>2. M[b].car = m[a].car  BY <1>1, <1>2 DEF Same, CarTypes, VectorTypes
  <2>3. ASSUME NEW k \in 1 .. m[a].car
        PROVE  EntryOf(I, M[M[b].cdr + k - 1]) = EntryOf(i, m[m[a].cdr + k - 1])
    <3>1. M[b].cdr + k - 1 = b + k /\ m[a].cdr + k - 1 = a + k  BY <2>1
    <3>2. m[a + k].type \in EntryTypes /\ Same(m[a + k], i, M[b + k], I)  BY <2>1
    <3>3. CASE m[a + k].type = "TREF"
      BY <3>1, <3>2, <3>3 DEF Same, EntryOf, CarTypes
    <3>4. CASE m[a + k].type # "TREF"
      BY <3>1, <3>2, <3>4 DEF Same, EntryOf, EntryTypes, CdrTypes, VectorTypes
    <3> QED  BY <3>3, <3>4
  <2>4. [k \in 1 .. M[b].car |-> EntryOf(I, M[M[b].cdr + k - 1])]
        = [k \in 1 .. m[a].car |-> EntryOf(i, m[m[a].cdr + k - 1])]
    BY <2>2, <2>3
  <2>5. Fields(m, i, a) = [k \in 1 .. m[a].car |-> EntryOf(i, m[m[a].cdr + k - 1])]
    BY <1>2, ContentsOf
  <2>6. Fields(M, I, b) = [k \in 1 .. M[b].car |-> EntryOf(I, M[M[b].cdr + k - 1])]
    BY <1>1, <1>2, ContentsOf
  <2> QED  BY <2>4, <2>5, <2>6
<1>3. CASE m[a].type \notin VectorTypes
  <2> DEFINE t == m[a].type
  <2>1. /\ IF t \in CarTypes THEN I[M[b].car] = i[m[a].car] ELSE M[b].car = m[a].car
        /\ t \in CdrTypes => I[M[b].cdr] = i[m[a].cdr]
        /\ t \notin CdrTypes => M[b].cdr = m[a].cdr
    BY <1>1, <1>3 DEF Same
  <2>2. CASE t \in {"TPAIR", "TBINDING", "TCLOSURE", "TSTRING", "TSPECIAL"}
    BY <1>1, <2>1, <2>2, ContentsOf DEF CarTypes, CdrTypes
  <2>3. CASE t \in {"TNUMBER", "TCHAR", "TBYTES"}
    BY <1>1, <2>1, <2>3, ContentsOf DEF CarTypes, CdrTypes
  <2>4. CASE t \notin {"TPAIR", "TBINDING", "TCLOSURE", "TNUMBER", "TCHAR", "TBYTES", "TSTRING", "TSPECIAL"}
    BY <1>1, <1>3, <2>4, ContentsOf
  <2> QED  BY <2>2, <2>3, <2>4
<1> QED  BY <1>2, <1>3

-----------------------------------------------------------------------------
(***************************************************************************)
(* Objects.                                                                *)
(***************************************************************************)
\* The object at a is one that a program made, all of its cells are in their
\* place, and what it refers to is below top.
ObjectAt(m, i, a, top) ==
  /\ a \in 0 .. top - 1
  /\ Sound(m, i, a, 1, top - 1, top)
  /\ m[a].type \in VectorTypes =>
       \A j \in Rest(m, a) : m[j].type \in EntryTypes /\ CarRefers(m, i, j, 1, top - 1)

\* The cells of a vector.
LEMMA VectorRest ==
  ASSUME NEW m, NEW i, NEW a \in Int, NEW top \in Int, Shaped(m, i, a, top), m[a].type \in VectorTypes
  PROVE  /\ m[a].cdr = a + 1 /\ m[a].car \in Nat
         /\ Rest(m, a) = a + 1 .. a + m[a].car /\ Rest(m, a) \subseteq a + 1 .. top - 1
         /\ \A k \in 1 .. m[a].car : a + k \in Rest(m, a)
<1>1. Size(m[a]) = 1 + m[a].car /\ m[a].car \in Nat /\ m[a].cdr = a + 1 /\ a + Size(m[a]) <= top
  BY DEF Shaped, Size
<1> QED  BY <1>1 DEF Rest

\* While the program runs, at the home of an object there is one.
LEMMA RunObjects ==
  ASSUME NEW m, NEW i, NEW h, NEW top \in Int, RunCells(m, i, top), Homes(i, h, top), NEW o \in DOMAIN h
  PROVE  ObjectAt(m, i, h[o], top)
<1>1. h[o] \in 0 .. top - 1 /\ Sound(m, i, h[o], 1, top - 1, top)  BY DEF Homes, RunCells
<1>2. ASSUME m[h[o]].type \in VectorTypes, NEW j \in Rest(m, h[o])
      PROVE  m[j].type \in EntryTypes /\ CarRefers(m, i, j, 1, top - 1)
  <2>1. h[o] \in Int /\ Shaped(m, i, h[o], top)  BY <1>1 DEF Sound
  <2>2. j \in h[o] + 1 .. top - 1  BY <1>2, <2>1, VectorRest
  <2>3. j \in 0 .. top - 1  BY <1>1, <2>2
  <2>4. Sound(m, i, j, 1, top - 1, top)  BY <2>3 DEF RunCells
  <2>5. m[j].type \in EntryTypes \cup {"TBROKEN_HEART"}  BY <1>2, <2>1 DEF Shaped
  <2> QED  BY <2>4, <2>5 DEF Sound
<1> QED  BY <1>1, <1>2 DEF ObjectAt

\* While the collector runs there is one too, in the old or the new space.
LEMMA HomeObjects ==
  ASSUME Types, Collection, AtHome(mem, id, home, g_free), ~Interior, NEW o \in DOMAIN home
  PROVE  ObjectAt(mem, id, home[o], g_free) /\ id[home[o]] = o /\ o # NoId
<1>1. /\ g_news \in Nat /\ g_news > 2 /\ g_free \in Nat /\ g_news < g_free
      /\ mem \in [Addr -> Cells] /\ Addr = 0 .. MemTop - 1 /\ g_free <= MemTop /\ MemTop \in Nat
  BY Spaces
<1> DEFINE a == home[o]
<1>2. a \in 0 .. g_free - 1 /\ id[a] = o /\ o # NoId
  <2>1. o \in Ids /\ NoId \notin Ids  BY Layout DEF Types, NoId, Ids
  <2> QED  BY <2>1 DEF Collection, Homes
<1>3. mem[a].type = "TBROKEN_HEART" => a = mem[a].car  BY <1>2 DEF AtHome
<1>4. a \in 1 .. g_news - 2 \/ a \in g_news + 1 .. g_free - 1
  <2>1. a # 0 /\ a # g_news - 1 /\ a # g_news  BY <1>2 DEF Collection
  <2> QED  BY <2>1, <1>1, <1>2
<1>5. /\ \A p : Refers(mem, id, p, 1, g_news - 2) => Refers(mem, id, p, 1, g_free - 1)
      /\ \A p : Refers(mem, id, p, g_news + 1, g_free - 1) => Refers(mem, id, p, 1, g_free - 1)
  BY <1>1 DEF Refers
<1> HIDE DEF a
<1>6. CASE a \in 1 .. g_news - 2
  <2>1. ASSUME NEW x \in 1 .. g_news - 2
        PROVE  /\ mem[x].type # "TBROKEN_HEART" => Sound(mem, id, x, 1, g_news - 2, g_news - 1)
               /\ mem[x].type = "TBROKEN_HEART" => Heart(mem, id, x, g_news, g_free)
    <3>1. x \in 0 .. g_news - 2  BY <1>1
    <3> QED  BY <3>1 DEF Collection, OldCell
  <2>2. mem[a].type # "TBROKEN_HEART"
    <3>1. mem[a].type = "TBROKEN_HEART" => mem[a].car \in g_news + 1 .. g_free - 1
      BY <1>6, <2>1 DEF Heart, Refers
    <3> QED  BY <3>1, <1>1, <1>3, <1>6
  <2>3. Sound(mem, id, a, 1, g_news - 2, g_news - 1) /\ a \in Addr /\ a \in Int  BY <1>1, <1>6, <2>1, <2>2
  <2>4. Shaped(mem, id, a, g_news - 1) /\ Size(mem[a]) \in Nat \ {0}  BY <1>1, <2>3, ShapedSize DEF Sound
  <2>5. Shaped(mem, id, a, g_free)  BY <1>1, <2>3, <2>4 DEF Shaped
  <2>6. Sound(mem, id, a, 1, g_free - 1, g_free)
    BY <1>5, <2>3, <2>5 DEF Sound, CarRefers, CdrRefers
  <2>7. ASSUME mem[a].type \in VectorTypes, NEW j \in Rest(mem, a)
        PROVE  mem[j].type \in EntryTypes /\ CarRefers(mem, id, j, 1, g_free - 1)
    <3>1. j \in a + 1 .. g_news - 1 - 1 /\ j \in 1 .. g_news - 2  BY <1>1, <1>6, <2>3, <2>4, <2>7, VectorRest
    <3>2. id[j] = NoId /\ mem[j].type \in EntryTypes \cup {"TBROKEN_HEART"}  BY <2>4, <2>7 DEF Shaped
    <3>3. Sound(mem, id, j, 1, g_news - 2, g_news - 1) /\ mem[j].type # "TBROKEN_HEART"
      BY <2>1, <3>1, <3>2 DEF Heart
    <3> QED  BY <1>5, <3>2, <3>3 DEF Sound, CarRefers
  <2> QED  BY <1>2, <2>6, <2>7 DEF ObjectAt, a
<1>7. CASE a \in g_news + 1 .. g_free - 1
  <2>1. ASSUME NEW x \in g_news + 1 .. g_free - 1
        PROVE  /\ mem[x].type \notin {"free", "TBROKEN_HEART"} /\ Shaped(mem, id, x, g_free)
               /\ CarRefers(mem, id, x, 1, g_free - 1) /\ CdrRefers(mem, id, x, 1, g_free - 1)
    <3>1. NewCell(mem, id, x, g_news, g_free, scan, phase) /\ x \in Int /\ scan \in Int
      BY <1>1 DEF Collection, Types
    <3>2. x < scan \/ x >= scan  BY <3>1
    <3> QED  BY <1>5, <3>1, <3>2 DEF NewCell, CarRefers, CdrRefers
  <2>2. Sound(mem, id, a, 1, g_free - 1, g_free)  BY <1>7, <2>1 DEF Sound
  <2>3. ASSUME mem[a].type \in VectorTypes, NEW j \in Rest(mem, a)
        PROVE  mem[j].type \in EntryTypes /\ CarRefers(mem, id, j, 1, g_free - 1)
    <3>1. j \in a + 1 .. g_free - 1 /\ j \in g_news + 1 .. g_free - 1
      BY <1>1, <1>7, <2>1, <2>3, VectorRest
    <3>2. mem[j].type \in EntryTypes \cup {"TBROKEN_HEART"}  BY <1>7, <2>1, <2>3 DEF Shaped
    <3> QED  BY <2>1, <3>1, <3>2
  <2> QED  BY <1>2, <2>2, <2>3 DEF ObjectAt, a
<1> QED  BY <1>4, <1>6, <1>7

\* What an object refers to is an object.
LEMMA ReferredObjects ==
  ASSUME NEW m, NEW i, NEW a, NEW h, NEW top \in Nat, ObjectAt(m, i, a, top), AtHome(m, i, h, top), ~Interior
  PROVE  References(Contents(m, i, a)) \subseteq DOMAIN h
<1>1. \A p : Refers(m, i, p, 1, top - 1) => i[p] \in DOMAIN h  BY DEF Refers, AtHome
<1>2. m[a].type \in CarTypes => i[m[a].car] \in DOMAIN h  BY <1>1 DEF ObjectAt, Sound, CarRefers
<1>3. m[a].type \in CdrTypes => i[m[a].cdr] \in DOMAIN h  BY <1>1 DEF ObjectAt, Sound, CdrRefers
<1> SUFFICES ASSUME NEW k \in DOMAIN Fields(m, i, a), Fields(m, i, a)[k].kind = "ref"
             PROVE  Fields(m, i, a)[k].at \in DOMAIN h
  BY DEF References, Contents, Object
<1>4. CASE m[a].type \in {"TPAIR", "TBINDING", "TCLOSURE", "TSTRING", "TSPECIAL"}
  BY <1>2, <1>3, <1>4, ContentsOf DEF Ref, Val, CarTypes, CdrTypes
<1>5. CASE m[a].type \in {"TNUMBER", "TCHAR", "TBYTES"}
  BY <1>5, ContentsOf DEF Ref, Val
<1>6. CASE m[a].type \in VectorTypes
  <2>1. Fields(m, i, a) = [n \in 1 .. m[a].car |-> EntryOf(i, m[m[a].cdr + n - 1])]  BY <1>6, ContentsOf
  <2>2. a \in Int /\ Shaped(m, i, a, top)  BY DEF ObjectAt, Sound
  <2>3. m[a].cdr = a + 1 /\ m[a].car \in Nat /\ k \in 1 .. m[a].car /\ a + k \in Rest(m, a)
    BY <1>6, <2>1, <2>2, VectorRest
  <2>4. m[a].cdr + k - 1 = a + k  BY <2>2, <2>3
  <2>5. Fields(m, i, a)[k] = EntryOf(i, m[a + k])  BY <2>1, <2>3, <2>4
  <2>6. m[a + k].type = "TREF" => i[m[a + k].car] \in DOMAIN h
    BY <1>1, <1>6, <2>3 DEF ObjectAt, CarRefers, CarTypes
  <2> QED  BY <2>5, <2>6 DEF EntryOf, Ref, Val
<1>7. CASE m[a].type \notin {"TPAIR", "TBINDING", "TCLOSURE", "TNUMBER", "TCHAR", "TBYTES", "TSTRING", "TSPECIAL"}
                            \cup VectorTypes
  BY <1>7, ContentsOf
<1> QED  BY <1>4, <1>5, <1>6, <1>7

\* An object whose cells stay as they are, up to what they refer to.
LEMMA KeptObject ==
  ASSUME NEW m, NEW i, NEW a, NEW top \in Nat, ObjectAt(m, i, a, top), NEW M, NEW I,
         Same(m[a], i, M[a], I), m[a].type \in VectorTypes => M[a] = m[a],
         \A j \in Rest(m, a) : m[a].type \in VectorTypes => Same(m[j], i, M[j], I)
  PROVE  Contents(M, I, a) = Contents(m, i, a)
<1>1. a \in Int /\ Shaped(m, i, a, top)  BY DEF ObjectAt, Sound
<1>2. m[a].type \in VectorTypes =>
        /\ m[a].cdr = a + 1 /\ M[a].cdr = a + 1 /\ m[a].car \in Nat
        /\ \A k \in 1 .. m[a].car : m[a + k].type \in EntryTypes /\ Same(m[a + k], i, M[a + k], I)
  BY <1>1, VectorRest DEF ObjectAt
<1> QED  BY <1>1, <1>2, SameContents DEF SameObject

\* A cell that is not written says the same, if what it refers to is the same.
LEMMA SameCell ==
  ASSUME NEW m, NEW i, NEW a, NEW top \in Nat, NEW M, NEW I, M[a] = m[a],
         \A p \in 1 .. top - 1 : I[p] = i[p],
         CarRefers(m, i, a, 1, top - 1), CdrRefers(m, i, a, 1, top - 1)
  PROVE  Same(m[a], i, M[a], I)
  BY DEF Same, CarRefers, CdrRefers, Refers

-----------------------------------------------------------------------------
(***************************************************************************)
(* Frames.                                                                 *)
(***************************************************************************)
\* The frame at slot s of stack a, and the frames from there on.
FrameIn(i, a, s) == [k \in 0 .. NRegs |-> i[a[s + k]]]
FramesOf(i, a, s) ==
  [n \in 1 .. (STACK_SIZE - s) \div GC_FRAME_SIZE |-> FrameIn(i, a, s + (n - 1) * GC_FRAME_SIZE)]

LEMMA FramesAre == Frames = FramesOf(id, g_stack_array, FrameStart)
  BY DEF Frames, FramesOf, FrameIn

\* Whole frames in x slots.
LEMMA Divided ==
  ASSUME NEW x \in Nat, NEW f \in Nat \ {0}
  PROVE  x \div f \in Nat /\ f * (x \div f) <= x /\ x < f * (x \div f) + f
  OBVIOUS

\* One frame more.
LEMMA DividedMore ==
  ASSUME NEW x \in Nat, NEW f \in Nat \ {0}
  PROVE  (x + f) \div f = x \div f + 1
<1> DEFINE q == x \div f
           p == (x + f) \div f
<1>1. q \in Nat /\ f * q <= x /\ x < f * q + f  BY Divided
<1>2. x + f \in Nat  OBVIOUS
<1>3. p \in Nat /\ f * p <= x + f /\ x + f < f * p + f  BY <1>2, Divided
<1> HIDE DEF q, p
<1>4. f * (q + 1) = f * q + f /\ f * (p + 1) = f * p + f  BY <1>1, <1>3
<1>5. f * (q + 1) < f * (p + 1)  BY <1>1, <1>3, <1>4
<1>6. f * p < f * (q + 2)  BY <1>1, <1>3, <1>4
<1>7. ASSUME NEW y \in Int, NEW z \in Int, f * y < f * z PROVE y < z
  <2>1. z <= y => f * z <= f * y  OBVIOUS
  <2> QED  BY <1>7, <2>1
<1>8. q + 1 < p + 1 /\ p < q + 2  BY <1>1, <1>3, <1>5, <1>6, <1>7
<1>9. p = q + 1  BY <1>1, <1>3, <1>8
<1> QED  BY <1>9 DEF p, q

\* The slots of the frames are in the stack.
LEMMA FrameSlot ==
  ASSUME NEW s \in 0 .. STACK_SIZE, NEW n \in 1 .. (STACK_SIZE - s) \div GC_FRAME_SIZE, NEW k \in 0 .. NRegs
  PROVE  s + (n - 1) * GC_FRAME_SIZE + k \in s .. STACK_SIZE - 1
<1>1. STACK_SIZE \in Nat /\ NRegs \in Nat /\ GC_FRAME_SIZE = NRegs + 1  BY SizesAssumption DEF GC_FRAME_SIZE
<1> DEFINE f == GC_FRAME_SIZE
           x == STACK_SIZE - s
           q == x \div f
<1>2. f \in Nat \ {0} /\ x \in Nat /\ f = NRegs + 1 /\ s \in Int  BY <1>1
<1> HIDE DEF x, f
<1>3. q \in Nat /\ f * q <= x  BY <1>2, Divided
<1>4. n \in 1 .. q  BY DEF x, f
<1> HIDE DEF q
<1>5. n \in Int /\ n - 1 \in Nat /\ n <= q  BY <1>3, <1>4
<1>6. f * n <= f * q /\ (n - 1) * f = f * n - f /\ (n - 1) * f \in Nat
  <2>1. \A y, z, w \in Nat : y <= z => w * y <= w * z  OBVIOUS
  <2>2. f * n <= f * q  BY <1>2, <1>3, <1>5, <2>1
  <2>3. (n - 1) * f = f * n - f /\ (n - 1) * f \in Nat  BY <1>2, <1>5
  <2> QED  BY <2>2, <2>3
<1>7. PICK y \in Nat : y = (n - 1) * f  BY <1>6
<1>8. y + f <= x
  <2>1. f * n \in Int /\ f * q \in Int  BY <1>2, <1>3, <1>5
  <2> QED  BY <1>2, <1>3, <1>6, <1>7, <2>1
<1>9. s + y + k \in s .. STACK_SIZE - 1  BY <1>1, <1>2, <1>7, <1>8 DEF x
<1> QED  BY <1>7, <1>9 DEF f

\* Frames that hold the same objects.
LEMMA SameFrames ==
  ASSUME NEW s \in 0 .. STACK_SIZE, NEW i, NEW a, NEW I, NEW A,
         \A k \in s .. STACK_SIZE - 1 : I[A[k]] = i[a[k]]
  PROVE  FramesOf(I, A, s) = FramesOf(i, a, s)
<1>1. \A n \in 1 .. (STACK_SIZE - s) \div GC_FRAME_SIZE :
         FrameIn(I, A, s + (n - 1) * GC_FRAME_SIZE) = FrameIn(i, a, s + (n - 1) * GC_FRAME_SIZE)
  BY FrameSlot DEF FrameIn
<1> QED  BY <1>1 DEF FramesOf

\* A frame and those behind it.
LEMMA MoreFrames ==
  ASSUME NEW s \in Nat, s + GC_FRAME_SIZE <= STACK_SIZE, NEW i, NEW a
  PROVE  /\ FramesOf(i, a, s) = <<FrameIn(i, a, s)>> \o FramesOf(i, a, s + GC_FRAME_SIZE)
         /\ FramesOf(i, a, s) # <<>>
         /\ Head(FramesOf(i, a, s)) = FrameIn(i, a, s)
         /\ Tail(FramesOf(i, a, s)) = FramesOf(i, a, s + GC_FRAME_SIZE)
         /\ Len(FramesOf(i, a, s + GC_FRAME_SIZE)) < STACK_SIZE \div GC_FRAME_SIZE
<1>1. STACK_SIZE \in Nat /\ NRegs \in Nat /\ GC_FRAME_SIZE = NRegs + 1  BY SizesAssumption DEF GC_FRAME_SIZE
<1> DEFINE f == GC_FRAME_SIZE
           q == (STACK_SIZE - (s + f)) \div f
           S == {FrameIn(i, a, z) : z \in Int}
           all == FramesOf(i, a, s)
           rest == FramesOf(i, a, s + f)
           one == <<FrameIn(i, a, s)>>
<1>2. f \in Nat \ {0} /\ STACK_SIZE - (s + f) \in Nat /\ (STACK_SIZE - (s + f)) + f = STACK_SIZE - s  BY <1>1
<1>3. q \in Nat /\ (STACK_SIZE - s) \div f = q + 1  BY <1>2, Divided, DividedMore
<1>4. q + 1 <= STACK_SIZE \div f
  <2>1. \A x \in Nat : x >= f => x \div f = (x - f) \div f + 1
    <3>1. \A x \in Nat : x >= f => x - f \in Nat /\ (x - f) + f = x  BY <1>2
    <3> QED  BY <3>1, <1>2, DividedMore
  <2>2. \A x, y \in Nat : x <= y => x \div f <= y \div f
    <3>1. SUFFICES ASSUME NEW x \in Nat, NEW y \in Nat, x <= y PROVE x \div f <= y \div f
      OBVIOUS
    <3>2. PICK c \in Nat : c = x \div f /\ f * c <= x  BY <1>2, Divided
    <3>3. PICK d \in Nat : d = y \div f /\ y < f * d + f  BY <1>2, Divided
    <3>4. f * c < f * d + f  BY <3>1, <3>2, <3>3, <1>2
    <3>5. d + 1 <= c => f * d + f <= f * c
      <4>1. f * (d + 1) = f * d + f  BY <1>2
      <4>2. \A v, w \in Nat : v <= w => f * v <= f * w  BY <1>2
      <4> QED  BY <4>1, <4>2
    <3>6. f * c \in Int /\ f * d + f \in Int  BY <1>2
    <3> QED  BY <3>2, <3>3, <3>4, <3>5, <3>6
  <2>3. STACK_SIZE - s \in Nat /\ STACK_SIZE - s <= STACK_SIZE  BY <1>1, <1>2
  <2> QED  BY <1>1, <1>3, <2>2, <2>3
<1>5. \A z \in Int : FrameIn(i, a, z) \in S  OBVIOUS
<1>6. all = [n \in 1 .. q + 1 |-> FrameIn(i, a, s + (n - 1) * f)]  BY <1>3 DEF FramesOf
<1>7. rest = [n \in 1 .. q |-> FrameIn(i, a, (s + f) + (n - 1) * f)]  BY DEF FramesOf
<1> HIDE DEF q, S, all, rest, f
<1>8. \A n \in Int : s + (n - 1) * f \in Int /\ (s + f) + (n - 1) * f = s + ((n + 1) - 1) * f
                     /\ (s + f) + (n - 1) * f \in Int
  BY <1>2
<1>9. all \in [1 .. q + 1 -> S] /\ rest \in [1 .. q -> S] /\ FrameIn(i, a, s) \in S
  <2>1. \A n \in 1 .. q + 1 : n \in Int  BY <1>3
  <2>2. \A n \in 1 .. q : n \in Int  BY <1>3
  <2>3. \A n \in 1 .. q + 1 : FrameIn(i, a, s + (n - 1) * f) \in S  BY <1>5, <1>8, <2>1, Zenon
  <2>4. \A n \in 1 .. q : FrameIn(i, a, (s + f) + (n - 1) * f) \in S  BY <1>5, <1>8, <2>2, Zenon
  <2>5. FrameIn(i, a, s) \in S  BY <1>5
  <2>6. all \in [1 .. q + 1 -> S]  BY <1>6, <2>3, Zenon
  <2>7. rest \in [1 .. q -> S]  BY <1>7, <2>4, Zenon
  <2> QED  BY <2>5, <2>6, <2>7
<1>10. q + 1 \in Nat  BY <1>3
<1>11. all \in Seq(S) /\ Len(all) = q + 1 /\ rest \in Seq(S) /\ Len(rest) = q
  BY <1>3, <1>9, <1>10, FunctionIsSeq
<1>12. one \in Seq(S) /\ Len(one) = 1 /\ one[1] = FrameIn(i, a, s)  BY <1>9
<1>13. all[1] = FrameIn(i, a, s)
  <2>1. s + (1 - 1) * f = s /\ 1 \in 1 .. q + 1  BY <1>2, <1>3
  <2> QED  BY <2>1, <1>6
<1>14. ASSUME NEW n \in 1 .. q PROVE all[n + 1] = rest[n]
  <2>1. n + 1 \in 1 .. q + 1 /\ n \in Int  BY <1>3
  <2> QED  BY <2>1, <1>6, <1>7, <1>8
<1> HIDE DEF one
<1>15. all = one \o rest
  <2>1. /\ one \o rest \in Seq(S) /\ Len(one \o rest) = q + 1
        /\ \A n \in 1 .. 1 : (one \o rest)[n] = one[n]
        /\ \A n \in 1 + 1 .. 1 + q : n - 1 \in 1 .. q /\ (one \o rest)[n] = rest[n - 1]
    <3>1. 1 + q = q + 1  BY <1>3
    <3>2. /\ one \o rest \in Seq(S)
          /\ Len(one \o rest) = Len(one) + Len(rest)
          /\ \A k \in 1 .. Len(one) : (one \o rest)[k] = one[k]
          /\ \A k \in Len(one) + 1 .. Len(one) + Len(rest) :
               /\ k - Len(one) \in 1 .. Len(rest)
               /\ (one \o rest)[k] = rest[k - Len(one)]
      BY <1>11, <1>12, Joined
    <3> QED  BY <3>1, <3>2, <1>11, <1>12
  <2>2. ASSUME NEW n \in 1 .. q + 1 PROVE all[n] = (one \o rest)[n]
    <3>1. CASE n = 1  BY <3>1, <2>1, <1>12, <1>13
    <3>2. CASE n # 1
      <4>1. n \in 1 + 1 .. 1 + q /\ (n - 1) + 1 = n  BY <3>2, <1>3
      <4> QED  BY <4>1, <2>1, <1>14
    <3> QED  BY <3>1, <3>2
  <2> QED  BY <2>1, <2>2, <1>11, SeqEqual
<1>16. all # <<>> /\ Head(all) = all[1]  BY <1>3, <1>11
<1>17. Tail(all) = rest
  <2>1. Tail(all) \in Seq(S) /\ Len(Tail(all)) = q /\ \A n \in 1 .. Len(Tail(all)) : Tail(all)[n] = all[n + 1]
    <3>1. Tail(all) \in Seq(S) /\ Len(Tail(all)) = Len(all) - 1
          /\ \A n \in 1 .. Len(Tail(all)) : Tail(all)[n] = all[n + 1]
      BY <1>11, <1>16, HeadTailProperties
    <3> QED  BY <3>1, <1>3, <1>11
  <2> QED  BY <2>1, <1>11, <1>14, SeqEqual
<1>18. Len(rest) < STACK_SIZE \div f
  <2>1. STACK_SIZE \div f \in Int  BY <1>1, <1>2, Divided
  <2> QED  BY <2>1, <1>3, <1>4, <1>11
<1> QED  BY <1>13, <1>15, <1>16, <1>17, <1>18 DEF all, rest, one, f

-----------------------------------------------------------------------------
(***************************************************************************)
(* The program.                                                            *)
(***************************************************************************)
\* A step that the program cannot see.
LEMMA Unseen ==
  ASSUME Store' = Store, Registers' = Registers, Frames' = Frames, GlobalObjects' = GlobalObjects
  PROVE  UNCHANGED Abs!vars
  BY DEF Abs!vars

\* A program or a collector that stops.
LEMMA StopUnseen ==
  ASSUME NEW why \in {"out of memory", "stack full", "overrun", "broken heart"}, Stop(why)
  PROVE  RInv' /\ UNCHANGED Abs!vars
<1>1. phase' = why /\ phase' # "run" /\ ~Collecting'  BY DEF Stop, Collecting
<1>2. UNCHANGED <<mem, g_free, g_news, g_stack, g_stack_array, regs, globals, id, home>>
  BY DEF Stop, history
<1>3. Store' = Store /\ Registers' = Registers /\ Frames' = Frames /\ GlobalObjects' = GlobalObjects
  <2>1. Store' = Store  BY <1>2 DEF Store, Objects
  <2>2. Registers' = Registers /\ GlobalObjects' = GlobalObjects  BY <1>2 DEF Registers, GlobalObjects
  <2>3. FrameStart' = FrameStart  BY <1>2 DEF FrameStart
  <2>4. Frames' = Frames  BY <1>2, <2>3 DEF Frames
  <2> QED  BY <2>1, <2>2, <2>4
<1> QED  BY <1>1, <1>3, Unseen DEF RInv

\* While the program runs, each cell with an identity is the home of its object.
LEMMA RunHome ==
  ASSUME IInv, RInv, phase = "run"
  PROVE  /\ Types /\ Run /\ g_news = 0 /\ Homes(id, home, g_free) /\ AtHome(mem, id, home, g_free)
         /\ g_free \in Nat \ {0}
         /\ \A a \in 0 .. g_free - 1 : mem[a].type # "TBROKEN_HEART"
         /\ \A o \in DOMAIN home : ObjectAt(mem, id, home[o], g_free) /\ id[home[o]] = o
         /\ FrameStart = g_stack
         /\ \A p : Refers(mem, id, p, 1, g_free - 1) => p \in 0 .. g_free - 1
<1>1. Types /\ Run /\ g_news = 0 /\ Homes(id, home, g_free) /\ AtHome(mem, id, home, g_free)
  BY DEF IInv, Run, RInv
<1>2. g_free \in Nat \ {0}  BY <1>1 DEF Types
<1>3. \A a \in 0 .. g_free - 1 : mem[a].type # "TBROKEN_HEART"  BY <1>1 DEF Run, RunCells, Sound
<1>4. \A o \in DOMAIN home : ObjectAt(mem, id, home[o], g_free) /\ id[home[o]] = o
  BY <1>1, <1>2, RunObjects DEF Run, Homes
<1>5. FrameStart = g_stack  BY <1>1 DEF FrameStart
<1>6. \A p : Refers(mem, id, p, 1, g_free - 1) => p \in 0 .. g_free - 1  BY <1>2 DEF Refers
<1> QED  BY <1>1, <1>2, <1>3, <1>4, <1>5, <1>6

\* The frames that a step of the program leaves alone.
LEMMA RunFrames ==
  ASSUME IInv, RInv, phase = "run", UNCHANGED <<g_stack, g_stack_array, g_news>>,
         \A p \in 0 .. g_free - 1 : id'[p] = id[p]
  PROVE  Frames' = Frames
<1>1. Types /\ Run /\ FrameStart = g_stack /\ g_news = 0  BY RunHome
<1>2. FrameStart' = g_stack  BY <1>1 DEF FrameStart
<1>3. Frames' = FramesOf(id', g_stack_array, g_stack)  BY <1>2, FramesAre DEF Frames, FramesOf, FrameIn
<1>4. Frames = FramesOf(id, g_stack_array, g_stack)  BY <1>1, FramesAre
<1>5. g_stack \in 0 .. STACK_SIZE /\ \A k \in g_stack .. STACK_SIZE - 1 : id'[g_stack_array[k]] = id[g_stack_array[k]]
  BY <1>1, RunHome DEF Types, Run, RunRoots
<1> QED  BY <1>3, <1>4, <1>5, SameFrames

\* So are the C globals.
LEMMA RunGlobals ==
  ASSUME IInv, RInv, phase = "run", UNCHANGED globals, \A p \in 0 .. g_free - 1 : id'[p] = id[p]
  PROVE  GlobalObjects' = GlobalObjects
<1>1. \A g \in Globals : id'[globals[g]] = id[globals[g]]  BY RunHome DEF Run, RunRoots
<1> QED  BY <1>1 DEF GlobalObjects

\* One register is set.
LEMMA RunRegisters ==
  ASSUME IInv, RInv, phase = "run", NEW r \in Regs, NEW at, regs' = [regs EXCEPT ![r] = at],
         \A p \in 0 .. g_free - 1 : id'[p] = id[p]
  PROVE  Registers' = [Registers EXCEPT ![r] = id'[at]]
<1>1. \A q \in Regs : id'[regs[q]] = id[regs[q]]  BY RunHome DEF Run, RunRoots
<1>2. regs \in [Regs -> Addr]  BY RunHome DEF Types
<1>3. \A q \in Regs : id'[regs'[q]] = IF q = r THEN id'[at] ELSE id[regs[q]]  BY <1>1, <1>2
<1> QED  BY <1>3 DEF Registers

\* An object none of whose cells is written.
LEMMA KeptCells ==
  ASSUME NEW m, NEW i, NEW a, NEW top \in Nat, ObjectAt(m, i, a, top), NEW M, NEW I,
         \A p \in 0 .. top - 1 : I[p] = i[p],
         \A j : j = a \/ j \in Rest(m, a) => M[j] = m[j]
  PROVE  Contents(M, I, a) = Contents(m, i, a)
<1>1. \A p \in 1 .. top - 1 : I[p] = i[p]  OBVIOUS
<1>2. Same(m[a], i, M[a], I)
  <2>1. CarRefers(m, i, a, 1, top - 1) /\ CdrRefers(m, i, a, 1, top - 1)  BY DEF ObjectAt, Sound
  <2>2. M[a] = m[a]  OBVIOUS
  <2> QED  BY <1>1, <2>1, <2>2, SameCell
<1>3. ASSUME NEW j \in Rest(m, a), m[a].type \in VectorTypes PROVE Same(m[j], i, M[j], I)
  <2>1. CarRefers(m, i, j, 1, top - 1) /\ m[j].type \in EntryTypes  BY <1>3 DEF ObjectAt
  <2>2. CdrRefers(m, i, j, 1, top - 1)  BY <2>1 DEF CdrRefers, CdrTypes, EntryTypes
  <2>3. M[j] = m[j]  OBVIOUS
  <2> QED  BY <1>1, <2>1, <2>2, <2>3, SameCell
<1> QED  BY <1>2, <1>3, KeptObject

\* The homes after a block has been made.
LEMMA MadeHomes ==
  ASSUME IInv, RInv, phase = "run", NEW m \in [Addr -> Cells], NEW block, NEW ids, Makes(block, ids, m),
         \A a \in 0 .. g_free - 1 : m[a].type # "TBROKEN_HEART",
         \A k \in 1 .. Len(block) : block[k].type # "TBROKEN_HEART", UNCHANGED Collector
  PROVE  /\ DOMAIN home' = DOMAIN home \cup ({ids[k] : k \in 1 .. Len(ids)} \ {NoId})
         /\ \A o \in DOMAIN home : home'[o] = home[o]
         /\ \A k \in 1 .. Len(ids) : ids[k] # NoId => home'[ids[k]] = g_free + k - 1
         /\ \A p \in 0 .. g_free - 1 : id'[p] = id[p] /\ mem'[p] = m[p]
         /\ \A k \in 1 .. Len(ids) : id'[g_free + k - 1] = ids[k] /\ mem'[g_free + k - 1] = block[k]
         /\ RInv'
<1>1. Types /\ Homes(id, home, g_free) /\ AtHome(mem, id, home, g_free) /\ g_free \in Nat \ {0} /\ g_news = 0
      /\ \A a \in 0 .. g_free - 1 : mem[a].type # "TBROKEN_HEART"
  BY RunHome
<1>2. DOMAIN ids = 1 .. Len(ids) /\ Len(ids) = Len(block) /\ Len(ids) \in Nat
  BY LenProperties DEF Makes
<1> DEFINE made == {ids[k] : k \in 1 .. Len(ids)} \ {NoId}
<1>3. home' = [i \in DOMAIN home \cup made |->
                 IF i \in made THEN g_free - 1 + CHOOSE k \in 1 .. Len(ids) : ids[k] = i ELSE home[i]]
  BY <1>2 DEF Makes, Put
<1>4. \A i \in made : i \in Fresh  BY DEF Makes
<1>5. \A o \in DOMAIN home : o \notin made  BY <1>4 DEF Fresh
<1>6. ASSUME NEW k \in 1 .. Len(ids), ids[k] # NoId PROVE home'[ids[k]] = g_free + k - 1
  <2>1. ids[k] \in made  BY <1>6
  <2>2. (CHOOSE j \in 1 .. Len(ids) : ids[j] = ids[k]) = k  BY <1>6 DEF Makes
  <2>3. home'[ids[k]] = g_free - 1 + k  BY <1>3, <2>1, <2>2
  <2> QED  BY <2>3, <1>1, <1>2
<1>7. /\ g_free' = g_free + Len(block)
      /\ \A a \in 0 .. g_free - 1 : mem'[a] = m[a] /\ id'[a] = id[a]
      /\ \A k \in 1 .. Len(block) : mem'[g_free + k - 1] = block[k] /\ id'[g_free + k - 1] = ids[k]
  BY <1>1, PutMemory
<1>8. DOMAIN home' = DOMAIN home \cup made /\ \A o \in DOMAIN home : home'[o] = home[o]  BY <1>3, <1>5
<1> HIDE DEF made
<1>9. ASSUME NEW a \in 0 .. g_free' - 1, id'[a] # NoId
      PROVE  id'[a] \in DOMAIN home' /\ mem'[a].type # "TBROKEN_HEART" /\ home'[id'[a]] = a
  <2>1. CASE a \in 0 .. g_free - 1
    <3>1. mem[a].type # "TBROKEN_HEART" /\ m[a].type # "TBROKEN_HEART"  BY <1>1, <2>1
    <3>2. mem'[a] = m[a] /\ id'[a] = id[a]  BY <1>7, <2>1
    <3>3. id[a] \in DOMAIN home /\ home[id[a]] = a  BY <1>1, <1>9, <2>1, <3>1, <3>2 DEF AtHome
    <3> QED  BY <1>8, <3>1, <3>2, <3>3
  <2>2. CASE a \notin 0 .. g_free - 1
    <3>1. a - g_free + 1 \in 1 .. Len(block) /\ g_free + (a - g_free + 1) - 1 = a  BY <1>1, <1>2, <1>7, <2>2
    <3>2. PICK k \in 1 .. Len(block) : a = g_free + k - 1  BY <3>1
    <3>3. id'[a] = ids[k] /\ mem'[a] = block[k]  BY <1>7, <3>2
    <3>4. ids[k] \in made  BY <1>2, <1>9, <3>3 DEF made
    <3> QED  BY <1>2, <1>6, <1>8, <1>9, <3>2, <3>3, <3>4
  <2> QED  BY <2>1, <2>2
<1>10. AtHome(mem', id', home', g_free')  BY <1>9 DEF AtHome
<1>11. phase' = "run" /\ g_news' = 0  BY <1>1 DEF Collector
<1>12. RInv'  BY <1>10, <1>11 DEF RInv, Collecting
<1> QED  BY <1>2, <1>6, <1>7, <1>8, <1>12 DEF made

\* What the program sees of a new block.
LEMMA Made ==
  ASSUME IInv, RInv, phase = "run", NEW r \in Regs, NEW at, NEW block, NEW ids, Allocates(r, block, ids, at),
         \A k \in 1 .. Len(block) : block[k].type # "TBROKEN_HEART"
  PROVE  /\ DOMAIN Store' = DOMAIN Store \cup ({ids[k] : k \in 1 .. Len(ids)} \ {NoId})
         /\ \A o \in DOMAIN Store : Store'[o] = Store[o]
         /\ \A k \in 1 .. Len(ids) : ids[k] # NoId => Store'[ids[k]] = Contents(mem', id', g_free + k - 1)
         /\ \A p \in 0 .. g_free - 1 : id'[p] = id[p]
         /\ \A k \in 1 .. Len(ids) : id'[g_free + k - 1] = ids[k] /\ mem'[g_free + k - 1] = block[k]
         /\ Registers' = [Registers EXCEPT ![r] = id'[at]] /\ Frames' = Frames /\ GlobalObjects' = GlobalObjects
         /\ RInv'
<1>1. /\ Makes(block, ids, mem) /\ regs' = [regs EXCEPT ![r] = at]
      /\ UNCHANGED <<g_stack, g_stack_array, globals, Collector>> /\ UNCHANGED <<g_stack, g_stack_array, g_news>>
  BY DEF Allocates, Collector
<1>2. Types /\ mem \in [Addr -> Cells] /\ g_free \in Nat
      /\ \A a \in 0 .. g_free - 1 : mem[a].type # "TBROKEN_HEART"
  BY RunHome DEF Types
<1>3. /\ DOMAIN home' = DOMAIN home \cup ({ids[k] : k \in 1 .. Len(ids)} \ {NoId})
      /\ \A o \in DOMAIN home : home'[o] = home[o]
      /\ \A k \in 1 .. Len(ids) : ids[k] # NoId => home'[ids[k]] = g_free + k - 1
      /\ \A p \in 0 .. g_free - 1 : id'[p] = id[p] /\ mem'[p] = mem[p]
      /\ \A k \in 1 .. Len(ids) : id'[g_free + k - 1] = ids[k] /\ mem'[g_free + k - 1] = block[k]
      /\ RInv'
  BY <1>1, <1>2, MadeHomes
<1>4. Registers' = [Registers EXCEPT ![r] = id'[at]] /\ Frames' = Frames /\ GlobalObjects' = GlobalObjects
  <2>1. Registers' = [Registers EXCEPT ![r] = id'[at]]
    <3>1. regs' = [regs EXCEPT ![r] = at]  BY <1>1
    <3>2. \A p \in 0 .. g_free - 1 : id'[p] = id[p]  BY <1>3
    <3> QED  BY <3>1, <3>2, RunRegisters
  <2>2. Frames' = Frames  BY <1>1, <1>3, RunFrames
  <2>3. GlobalObjects' = GlobalObjects  BY <1>1, <1>3, RunGlobals
  <2> QED  BY <2>1, <2>2, <2>3
<1>5. ASSUME NEW o \in DOMAIN home PROVE Contents(mem', id', home'[o]) = Contents(mem, id, home[o])
  <2>1. ObjectAt(mem, id, home[o], g_free)  BY RunHome
  <2>2. \A j : j = home[o] \/ j \in Rest(mem, home[o]) => mem'[j] = mem[j]
    <3>1. home[o] \in 0 .. g_free - 1 /\ Shaped(mem, id, home[o], g_free)  BY <2>1 DEF ObjectAt, Sound
    <3>2. home[o] \in Addr /\ Size(mem[home[o]]) \in Nat \ {0}
      <4>1. home[o] \in Addr  BY <1>2, <3>1, Layout DEF Types
      <4> QED  BY <1>2, <3>1, <4>1, ShapedSize
    <3>3. \A j \in Rest(mem, home[o]) : j \in 0 .. g_free - 1  BY <1>2, <3>1, <3>2 DEF Rest, Shaped
    <3> QED  BY <1>3, <3>1, <3>3
  <2>3. Contents(mem', id', home[o]) = Contents(mem, id, home[o])  BY <1>2, <1>3, <2>1, <2>2, KeptCells
  <2> QED  BY <1>3, <2>3
<1>6. /\ DOMAIN Store = DOMAIN home /\ DOMAIN Store' = DOMAIN home'
      /\ \A o \in DOMAIN home : Store[o] = Contents(mem, id, home[o])
      /\ \A o \in DOMAIN home' : Store'[o] = Contents(mem', id', home'[o])
  BY DEF Store, Objects
<1>7. \A o \in DOMAIN home : o \in DOMAIN home' /\ Store'[o] = Store[o]  BY <1>3, <1>5, <1>6
<1>8. ASSUME NEW k \in 1 .. Len(ids), ids[k] # NoId PROVE Store'[ids[k]] = Contents(mem', id', g_free + k - 1)
  <2>1. ids[k] \in DOMAIN home' /\ home'[ids[k]] = g_free + k - 1  BY <1>3, <1>8
  <2> QED  BY <1>6, <2>1
<1> QED  BY <1>3, <1>4, <1>6, <1>7, <1>8

\* An operation of the abstract heap, or nothing.
AbsStep == Abs!Next \/ UNCHANGED Abs!vars

\* The operations that make an object of one cell.
LEMMA NewMade ==
  ASSUME IInv, RInv, phase = "run", NEW r \in Regs, NEW c \in Cells, c.type # "TBROKEN_HEART",
         Allocate(r, <<c>>, FreshIds(1), g_free)
  PROVE  \/ Stop("out of memory")
         \/ /\ RInv' /\ mem'[g_free] = c /\ \A p \in 0 .. g_free - 1 : id'[p] = id[p]
            /\ \E i \in Abs!Fresh : Abs!New(r, i, Contents(mem', id', g_free))
<1>1. Types /\ Homes(id, home, g_free) /\ g_free \in Nat \ {0}  BY RunHome
<1>2. ASSUME NEW block, NEW ids, Allocates(r, block, ids, g_free),
             Len(block) = 1, block[1] = c, Len(ids) = 1, ids[1] \in Fresh, ids[1] \in Ids
      PROVE  /\ RInv' /\ mem'[g_free] = c /\ \A p \in 0 .. g_free - 1 : id'[p] = id[p]
             /\ ids[1] \in Abs!Fresh /\ Abs!New(r, ids[1], Contents(mem', id', g_free))
  <2>1. \A k \in 1 .. Len(block) : block[k].type # "TBROKEN_HEART"  BY <1>2
  <2>2. /\ DOMAIN Store' = DOMAIN Store \cup ({ids[k] : k \in 1 .. Len(ids)} \ {NoId})
        /\ \A o \in DOMAIN Store : Store'[o] = Store[o]
        /\ \A k \in 1 .. Len(ids) : ids[k] # NoId => Store'[ids[k]] = Contents(mem', id', g_free + k - 1)
        /\ \A p \in 0 .. g_free - 1 : id'[p] = id[p]
        /\ \A k \in 1 .. Len(ids) : id'[g_free + k - 1] = ids[k] /\ mem'[g_free + k - 1] = block[k]
        /\ Registers' = [Registers EXCEPT ![r] = id'[g_free]] /\ Frames' = Frames /\ GlobalObjects' = GlobalObjects
        /\ RInv'
    BY <1>2, <2>1, Made
  <2>3. ids[1] # NoId /\ 1 \in 1 .. Len(ids) /\ g_free + 1 - 1 = g_free
        /\ {ids[k] : k \in 1 .. Len(ids)} \ {NoId} = {ids[1]}
    <3>1. NoId \notin Ids  BY Layout DEF NoId, Ids
    <3> QED  BY <3>1, <1>1, <1>2
  <2>4. id'[g_free] = ids[1] /\ mem'[g_free] = c /\ Store'[ids[1]] = Contents(mem', id', g_free)
    BY <1>2, <2>2, <2>3
  <2>5. ids[1] \notin DOMAIN Store /\ ids[1] \in Abs!Fresh  BY <1>2 DEF Abs!Fresh, Fresh, Store, Objects
  <2>6. Store' = Abs!With(ids[1], Contents(mem', id', g_free))
    <3>1. Store' = [j \in DOMAIN Store' |-> Store'[j]]  BY DEF Store
    <3>2. DOMAIN Store' = DOMAIN Store \cup {ids[1]}  BY <2>2, <2>3
    <3>3. \A j \in DOMAIN Store' : Store'[j] = IF j = ids[1] THEN Contents(mem', id', g_free) ELSE Store[j]
      BY <2>2, <2>4, <3>2
    <3> QED  BY <3>1, <3>2, <3>3 DEF Abs!With
  <2> QED  BY <2>2, <2>4, <2>5, <2>6 DEF Abs!New
<1> QED  BY <1>1, <1>2, CellMade

\* What the registers hold.
LEMMA RegisterObject ==
  ASSUME IInv, RInv, phase = "run", NEW r \in Regs
  PROVE  /\ Registers[r] = id[regs[r]] /\ regs[r] \in 1 .. g_free - 1 /\ regs[r] \in 0 .. g_free - 1
         /\ id[regs[r]] # NoId \/ Interior
         /\ Refers(mem, id, regs[r], 1, g_free - 1)
<1>1. Types /\ Run /\ Refers(mem, id, regs[r], 1, g_free - 1)  BY RunHome DEF Run, RunRoots
<1> QED  BY <1>1 DEF Registers, Refers, Types

LEMMA SameRegs == Abs!Regs = Regs
  BY DEF Abs!Regs, Regs

\* Both modules have the objects of module HeapObjects.
LEMMA AbsObjects ==
  /\ \A t, f : Abs!Object(t, f) = Object(t, f)
  /\ \A i : Abs!Ref(i) = Ref(i) /\ Abs!Val(i) = Val(i)
  /\ \A o : Abs!References(o) = References(o)
  BY DEF Abs!Object, Object, Abs!Ref, Ref, Abs!Val, Val, Abs!References, References

LEMMA ConsSeen ==
  ASSUME IInv, RInv, NEW r \in Regs, NEW a \in Regs, NEW d \in Regs, cons(r, a, d)
  PROVE  RInv' /\ AbsStep
<1>1. phase = "run"  BY DEF cons, MakeCell
<1> DEFINE c == Cell("TPAIR", regs[a], regs[d])
<1>2. c \in Cells /\ c.type = "TPAIR" /\ c.car = regs[a] /\ c.cdr = regs[d]
  <2>1. "TPAIR" \in CellTypes /\ regs[a] \in Int /\ regs[d] \in Int  BY <1>1, RegisterObject DEF CellTypes
  <2> QED  BY <2>1, MadeCell
<1>3. Allocate(r, <<c>>, FreshIds(1), g_free)  BY DEF cons, MakeCell
<1> HIDE DEF c
<1>4. CASE Stop("out of memory")  BY <1>4, StopUnseen DEF AbsStep
<1>5. ASSUME RInv', mem'[g_free] = c, \A p \in 0 .. g_free - 1 : id'[p] = id[p],
             NEW i \in Abs!Fresh, Abs!New(r, i, Contents(mem', id', g_free))
      PROVE  RInv' /\ AbsStep
  <2>1. id'[regs[a]] = Registers[a] /\ id'[regs[d]] = Registers[d]  BY <1>1, <1>5, RegisterObject
  <2>2. Contents(mem', id', g_free) = Object("TPAIR", <<Ref(Registers[a]), Ref(Registers[d])>>)
    BY <1>2, <1>5, <2>1, ContentsOf DEF Contents
  <2>3. Abs!Cons(r, i, a, d)  BY <1>5, <2>2, AbsObjects DEF Abs!Cons
  <2>4. Abs!Next  BY <2>3, SameRegs DEF Abs!Next
  <2> QED  BY <1>5, <2>4 DEF AbsStep
<1> QED  BY <1>1, <1>2, <1>3, <1>4, <1>5, NewMade

LEMMA MakeBindingSeen ==
  ASSUME IInv, RInv, NEW r \in Regs, NEW a \in Regs, NEW lexical_p \in {0, 1}, make_binding_(r, a, lexical_p)
  PROVE  RInv' /\ AbsStep
<1>1. phase = "run"  BY DEF make_binding_, MakeCell
<1> DEFINE c == Cell("TBINDING", regs[a], lexical_p)
<1>2. c \in Cells /\ c.type = "TBINDING" /\ c.car = regs[a] /\ c.cdr = lexical_p
  <2>1. "TBINDING" \in CellTypes /\ regs[a] \in Int /\ lexical_p \in Int  BY <1>1, RegisterObject DEF CellTypes
  <2> QED  BY <2>1, MadeCell
<1>3. Allocate(r, <<c>>, FreshIds(1), g_free)  BY DEF make_binding_, MakeCell
<1> HIDE DEF c
<1>4. CASE Stop("out of memory")  BY <1>4, StopUnseen DEF AbsStep
<1>5. ASSUME RInv', mem'[g_free] = c, \A p \in 0 .. g_free - 1 : id'[p] = id[p],
             NEW i \in Abs!Fresh, Abs!New(r, i, Contents(mem', id', g_free))
      PROVE  RInv' /\ AbsStep
  <2>1. id'[regs[a]] = Registers[a]  BY <1>1, <1>5, RegisterObject
  <2>2. Contents(mem', id', g_free) = Object("TBINDING", <<Ref(Registers[a]), Val(lexical_p)>>)
    BY <1>2, <1>5, <2>1, ContentsOf DEF Contents
  <2>3. Abs!MakeBinding(r, i, a, lexical_p)  BY <1>5, <2>2, AbsObjects DEF Abs!MakeBinding
  <2>4. Abs!Next  BY <2>3, SameRegs DEF Abs!Next
  <2> QED  BY <1>5, <2>4 DEF AbsStep
<1> QED  BY <1>1, <1>2, <1>3, <1>4, <1>5, NewMade

LEMMA MakeClosureSeen ==
  ASSUME IInv, RInv, NEW r \in Regs, NEW d \in Regs, make_closure_(r, d)
  PROVE  RInv' /\ AbsStep
<1>1. phase = "run"  BY DEF make_closure_, MakeCell
<1> DEFINE c == Cell("TCLOSURE", cell_f, regs[d])
<1>2. c \in Cells /\ c.type = "TCLOSURE" /\ c.cdr = regs[d]
  <2>1. "TCLOSURE" \in CellTypes /\ cell_f \in Int /\ regs[d] \in Int
    BY <1>1, RegisterObject DEF CellTypes, cell_f
  <2> QED  BY <2>1, MadeCell
<1>3. Allocate(r, <<c>>, FreshIds(1), g_free)  BY DEF make_closure_, MakeCell
<1> HIDE DEF c
<1>4. CASE Stop("out of memory")  BY <1>4, StopUnseen DEF AbsStep
<1>5. ASSUME RInv', mem'[g_free] = c, \A p \in 0 .. g_free - 1 : id'[p] = id[p],
             NEW i \in Abs!Fresh, Abs!New(r, i, Contents(mem', id', g_free))
      PROVE  RInv' /\ AbsStep
  <2>1. id'[regs[d]] = Registers[d]  BY <1>1, <1>5, RegisterObject
  <2>2. Contents(mem', id', g_free) = Object("TCLOSURE", <<Ref(Registers[d])>>)
    BY <1>2, <1>5, <2>1, ContentsOf DEF Contents
  <2>3. Abs!MakeClosure(r, i, d)  BY <1>5, <2>2, AbsObjects DEF Abs!MakeClosure
  <2>4. Abs!Next  BY <2>3, SameRegs DEF Abs!Next
  <2> QED  BY <1>5, <2>4 DEF AbsStep
<1> QED  BY <1>1, <1>2, <1>3, <1>4, <1>5, NewMade

LEMMA MakeNumberSeen ==
  ASSUME IInv, RInv, NEW r \in Regs, NEW v \in Values, make_number(r, v)
  PROVE  RInv' /\ AbsStep
<1>1. phase = "run"  BY DEF make_number, MakeCell
<1> DEFINE c == Cell("TNUMBER", 0, v)
<1>2. c \in Cells /\ c.type = "TNUMBER" /\ c.cdr = v
  <2>1. "TNUMBER" \in CellTypes /\ 0 \in Int /\ v \in Int  BY SizesAssumption DEF CellTypes
  <2> QED  BY <2>1, MadeCell
<1>3. Allocate(r, <<c>>, FreshIds(1), g_free)  BY DEF make_number, MakeCell
<1> HIDE DEF c
<1>4. CASE Stop("out of memory")  BY <1>4, StopUnseen DEF AbsStep
<1>5. ASSUME RInv', mem'[g_free] = c, NEW i \in Abs!Fresh, Abs!New(r, i, Contents(mem', id', g_free))
      PROVE  RInv' /\ AbsStep
  <2>1. Contents(mem', id', g_free) = Object("TNUMBER", <<Val(v)>>)  BY <1>2, <1>5, ContentsOf DEF Contents
  <2>2. Abs!MakeNumber(r, i, v)  BY <1>5, <2>1, AbsObjects DEF Abs!MakeNumber
  <2>3. Abs!Next  BY <2>2, SameRegs DEF Abs!Next
  <2> QED  BY <1>5, <2>3 DEF AbsStep
<1> QED  BY <1>1, <1>2, <1>3, <1>4, <1>5, NewMade

\* The object in a register is in the store.
LEMMA RegisterStore ==
  ASSUME IInv, RInv, ~Interior, phase = "run", NEW x \in Regs
  PROVE  /\ Registers[x] \in DOMAIN home /\ DOMAIN Store = DOMAIN home /\ home[Registers[x]] = regs[x]
         /\ Store[Registers[x]] = Contents(mem, id, regs[x])
         /\ Store[Registers[x]].type = mem[regs[x]].type
         /\ Store[Registers[x]].fields = Fields(mem, id, regs[x])
         /\ ObjectAt(mem, id, regs[x], g_free)
<1>1. Registers[x] = id[regs[x]] /\ regs[x] \in 0 .. g_free - 1 /\ id[regs[x]] # NoId  BY RegisterObject
<1>2. id[regs[x]] \in DOMAIN home /\ home[id[regs[x]]] = regs[x]  BY <1>1, RunHome DEF AtHome
<1>3. DOMAIN Store = DOMAIN home /\ Store[id[regs[x]]] = Contents(mem, id, home[id[regs[x]]])
  BY <1>2 DEF Store, Objects
<1>4. Store[id[regs[x]]] = Contents(mem, id, regs[x])  BY <1>2, <1>3
<1>5. ObjectAt(mem, id, regs[x], g_free)  BY <1>2, RunHome
<1> QED  BY <1>1, <1>2, <1>3, <1>4, <1>5 DEF Contents, Object

\* A step that only sets a register.
LEMMA ReadSeen ==
  ASSUME IInv, RInv, NEW r \in Regs, NEW a, Read(r, a)
  PROVE  /\ RInv' /\ Store' = Store /\ Registers' = [Registers EXCEPT ![r] = id[a]]
         /\ Frames' = Frames /\ GlobalObjects' = GlobalObjects
<1>1. /\ phase = "run" /\ regs' = [regs EXCEPT ![r] = a]
      /\ UNCHANGED <<mem, id, home, g_free, g_stack, g_stack_array, globals, g_news, phase>>
  BY DEF Read, history, Collector
<1>2. RInv'  BY <1>1, RunHome DEF RInv, Collecting
<1>3. Store' = Store  BY <1>1 DEF Store, Objects
<1>4. id' = id /\ \A p \in 0 .. g_free - 1 : id'[p] = id[p]  BY <1>1
<1>5. Registers' = [Registers EXCEPT ![r] = id'[a]]
  <2>1. phase = "run" /\ regs' = [regs EXCEPT ![r] = a]  BY <1>1
  <2> QED  BY <2>1, <1>4, RunRegisters
<1>6. Frames' = Frames  BY <1>1, <1>4, RunFrames
<1>7. GlobalObjects' = GlobalObjects  BY <1>1, <1>4, RunGlobals
<1> QED  BY <1>2, <1>3, <1>4, <1>5, <1>6, <1>7

LEMMA CarSeen ==
  ASSUME IInv, RInv, ~Interior, NEW r \in Regs, NEW x \in Regs, car(r, x)
  PROVE  RInv' /\ AbsStep
<1>1. phase = "run" /\ mem[regs[x]].type \in {"TPAIR", "TBINDING"} /\ Read(r, mem[regs[x]].car)
  BY DEF car, Read
<1>2. /\ RInv' /\ Store' = Store /\ Registers' = [Registers EXCEPT ![r] = id[mem[regs[x]].car]]
      /\ Frames' = Frames /\ GlobalObjects' = GlobalObjects
  BY <1>1, ReadSeen
<1>3. /\ Store[Registers[x]].type = mem[regs[x]].type
      /\ Store[Registers[x]].fields = Fields(mem, id, regs[x])
  BY <1>1, RegisterStore
<1>4. 1 \in DOMAIN Fields(mem, id, regs[x]) /\ Fields(mem, id, regs[x])[1] = Ref(id[mem[regs[x]].car])
  BY <1>1, ContentsOf
<1>5. Abs!Load(r, x, 1)  BY <1>1, <1>2, <1>3, <1>4 DEF Abs!Load, Ref
<1>6. Abs!Next  BY <1>5, SameRegs DEF Abs!Next
<1> QED  BY <1>2, <1>6 DEF AbsStep

LEMMA CdrSeen ==
  ASSUME IInv, RInv, ~Interior, NEW r \in Regs, NEW x \in Regs, cdr(r, x)
  PROVE  RInv' /\ AbsStep
<1>1. phase = "run" /\ mem[regs[x]].type \in {"TPAIR", "TCLOSURE"} /\ Read(r, mem[regs[x]].cdr)
  BY DEF cdr, Read
<1>2. /\ RInv' /\ Store' = Store /\ Registers' = [Registers EXCEPT ![r] = id[mem[regs[x]].cdr]]
      /\ Frames' = Frames /\ GlobalObjects' = GlobalObjects
  BY <1>1, ReadSeen
<1>3. /\ Store[Registers[x]].type = mem[regs[x]].type
      /\ Store[Registers[x]].fields = Fields(mem, id, regs[x])
  BY <1>1, RegisterStore
<1>4. ASSUME mem[regs[x]].type = "TPAIR" PROVE Abs!Next
  <2>1. 2 \in DOMAIN Fields(mem, id, regs[x]) /\ Fields(mem, id, regs[x])[2] = Ref(id[mem[regs[x]].cdr])
    BY <1>4, ContentsOf
  <2>2. Abs!Load(r, x, 2)  BY <1>4, <1>2, <1>3, <2>1 DEF Abs!Load, Ref
  <2> QED  BY <2>2, SameRegs DEF Abs!Next
<1>5. ASSUME mem[regs[x]].type = "TCLOSURE" PROVE Abs!Next
  <2>1. 1 \in DOMAIN Fields(mem, id, regs[x]) /\ Fields(mem, id, regs[x])[1] = Ref(id[mem[regs[x]].cdr])
    BY <1>5, ContentsOf
  <2>2. Abs!Load(r, x, 1)  BY <1>5, <1>2, <1>3, <2>1 DEF Abs!Load, Ref
  <2> QED  BY <2>2, SameRegs DEF Abs!Next
<1> QED  BY <1>1, <1>2, <1>4, <1>5 DEF AbsStep

LEMMA MakeStringSeen ==
  ASSUME IInv, RInv, NEW r \in Regs, NEW v \in Values, make_string(r, v)
  PROVE  RInv' /\ AbsStep
<1>1. phase = "run" /\ Types /\ Homes(id, home, g_free) /\ g_free \in Nat \ {0}  BY RunHome DEF make_string
<1>2. CASE Stop("out of memory")  BY <1>2, StopUnseen DEF AbsStep
<1>3. ASSUME NEW block, NEW ids, Allocates(r, block, ids, g_free), Identities(ids, 2, 2), Len(block) = 4,
             block[1] = Cell("TSTRING", 1, g_free + 1), block[2] = Cell("TBYTES", 2, v),
             block[3] = RawCell, block[4] = RawCell
      PROVE  RInv' /\ AbsStep
  <2>1. \A k \in 1 .. Len(block) : block[k].type # "TBROKEN_HEART"
    <3>1. \A k \in 1 .. Len(block) : k = 1 \/ k = 2 \/ k = 3 \/ k = 4  BY <1>3
    <3> QED  BY <1>3, <3>1 DEF RawCell, Cell
  <2>2. /\ DOMAIN Store' = DOMAIN Store \cup ({ids[k] : k \in 1 .. Len(ids)} \ {NoId})
        /\ \A o \in DOMAIN Store : Store'[o] = Store[o]
        /\ \A k \in 1 .. Len(ids) : ids[k] # NoId => Store'[ids[k]] = Contents(mem', id', g_free + k - 1)
        /\ \A p \in 0 .. g_free - 1 : id'[p] = id[p]
        /\ \A k \in 1 .. Len(ids) : id'[g_free + k - 1] = ids[k] /\ mem'[g_free + k - 1] = block[k]
        /\ Registers' = [Registers EXCEPT ![r] = id'[g_free]] /\ Frames' = Frames /\ GlobalObjects' = GlobalObjects
        /\ RInv'
    <3>1. phase = "run" /\ Allocates(r, block, ids, g_free)  BY <1>1, <1>3
    <3> QED  BY <3>1, <2>1, Made
  <2>3. /\ Len(ids) = 4 /\ ids[1] \in Fresh /\ ids[2] \in Fresh /\ ids[1] # ids[2] /\ ids[1] # NoId /\ ids[2] # NoId
        /\ {ids[k] : k \in 1 .. Len(ids)} \ {NoId} = {ids[1], ids[2]}
    <3>1. NoId \notin Ids  BY Layout DEF NoId, Ids
    <3>2. /\ Len(ids) = 4 /\ ids[1] \in Ids /\ ids[1] \in Fresh /\ ids[2] \in Ids /\ ids[2] \in Fresh
          /\ ids[3] = NoId /\ ids[4] = NoId /\ ids[1] # ids[2]
      <4>1. /\ Len(ids) = 4 /\ \A k \in 1 .. 2 : ids[k] \in Ids /\ ids[k] \in Fresh
            /\ \A k \in 3 .. 4 : ids[k] = NoId
            /\ \A j, k \in 1 .. 4 : ids[j] = ids[k] /\ ids[j] # NoId => j = k
        BY <1>3 DEF Identities
      <4> QED  BY <3>1, <4>1
    <3>3. 1 .. 4 = {1, 2, 3, 4}  OBVIOUS
    <3>4. {ids[k] : k \in {1, 2, 3, 4}} = {ids[1], ids[2], ids[3], ids[4]}  OBVIOUS
    <3> QED  BY <3>1, <3>2, <3>3, <3>4
  <2>4. /\ mem'[g_free] = block[1] /\ id'[g_free] = ids[1] /\ Store'[ids[1]] = Contents(mem', id', g_free)
        /\ mem'[g_free + 1] = block[2] /\ id'[g_free + 1] = ids[2] /\ Store'[ids[2]] = Contents(mem', id', g_free + 1)
    <3>1. 1 \in 1 .. Len(ids) /\ 2 \in 1 .. Len(ids) /\ g_free + 1 - 1 = g_free /\ g_free + 2 - 1 = g_free + 1
      BY <1>1, <2>3
    <3> QED  BY <2>2, <2>3, <3>1
  <2>5. /\ block[1].type = "TSTRING" /\ block[1].car = 1 /\ block[1].cdr = g_free + 1
        /\ block[2].type = "TBYTES" /\ block[2].car = 2 /\ block[2].cdr = v
    BY <1>3 DEF Cell
  <2>6. Store'[ids[1]] = Object("TSTRING", <<Val(1), Ref(ids[2])>>)
    <3>1. mem'[g_free].type = "TSTRING" /\ mem'[g_free].car = 1 /\ mem'[g_free].cdr = g_free + 1  BY <2>4, <2>5
    <3>2. id'[mem'[g_free].cdr] = ids[2]  BY <2>4, <3>1
    <3>3. Fields(mem', id', g_free) = <<Val(1), Ref(ids[2])>>  BY <3>1, <3>2, ContentsOf
    <3> QED  BY <2>4, <3>1, <3>3 DEF Contents
  <2>7. Store'[ids[2]] = Object("TBYTES", <<Val(2), Val(v)>>)
    <3>1. mem'[g_free + 1].type = "TBYTES" /\ mem'[g_free + 1].car = 2 /\ mem'[g_free + 1].cdr = v  BY <2>4, <2>5
    <3>2. Fields(mem', id', g_free + 1) = <<Val(2), Val(v)>>  BY <3>1, ContentsOf
    <3> QED  BY <2>4, <3>1, <3>2 DEF Contents
  <2>8. ids[1] \in Abs!Fresh /\ ids[2] \in Abs!Fresh \ {ids[1]} /\ ids[1] \notin DOMAIN Store /\ ids[2] \notin DOMAIN Store
    BY <2>3 DEF Abs!Fresh, Fresh, Store, Objects
  <2>9. Store' = [j \in DOMAIN Store \cup {ids[1], ids[2]} |->
                    IF j = ids[1] THEN Object("TSTRING", <<Val(1), Ref(ids[2])>>)
                    ELSE IF j = ids[2] THEN Object("TBYTES", <<Val(2), Val(v)>>)
                    ELSE Store[j]]
    <3>1. Store' = [j \in DOMAIN Store' |-> Store'[j]]  BY DEF Store
    <3>2. DOMAIN Store' = DOMAIN Store \cup {ids[1], ids[2]}  BY <2>2, <2>3
    <3>3. \A j \in DOMAIN Store' :
            Store'[j] = IF j = ids[1] THEN Object("TSTRING", <<Val(1), Ref(ids[2])>>)
                        ELSE IF j = ids[2] THEN Object("TBYTES", <<Val(2), Val(v)>>)
                        ELSE Store[j]
      BY <2>2, <2>6, <2>7, <2>8, <3>2
    <3> QED  BY <3>1, <3>2, <3>3
  <2>10. Registers' = [Registers EXCEPT ![r] = ids[1]] /\ Frames' = Frames /\ GlobalObjects' = GlobalObjects
    BY <2>2, <2>4
  <2>11. Abs!MakeString(r, ids[1], v)
    <3>1. PICK i : i = ids[1]  OBVIOUS
    <3>2. PICK b \in Abs!Fresh \ {i} : b = ids[2]  BY <2>8, <3>1
    <3> QED  BY <3>1, <3>2, <2>9, <2>10, AbsObjects DEF Abs!MakeString
  <2>12. Abs!Next  BY <2>8, <2>11, SameRegs DEF Abs!Next
  <2> QED  BY <2>2, <2>12 DEF AbsStep
<1> QED  BY <1>1, <1>2, <1>3, StringMade

\* An allocation of one object, its first cell at the head of the block.
LEMMA NewBlock ==
  ASSUME IInv, RInv, phase = "run", NEW r \in Regs, NEW block, NEW ids, Allocates(r, block, ids, g_free),
         \A k \in 1 .. Len(block) : block[k].type # "TBROKEN_HEART",
         NEW n \in Nat, Identities(ids, 1, n), Len(block) = 1 + n
  PROVE  /\ RInv' /\ ids[1] \in Abs!Fresh /\ Abs!New(r, ids[1], Contents(mem', id', g_free))
         /\ \A p \in 0 .. g_free - 1 : id'[p] = id[p]
         /\ \A k \in 1 .. 1 + n : mem'[g_free + k - 1] = block[k]
<1>1. g_free \in Nat \ {0}  BY RunHome
<1>2. /\ DOMAIN Store' = DOMAIN Store \cup ({ids[k] : k \in 1 .. Len(ids)} \ {NoId})
      /\ \A o \in DOMAIN Store : Store'[o] = Store[o]
      /\ \A k \in 1 .. Len(ids) : ids[k] # NoId => Store'[ids[k]] = Contents(mem', id', g_free + k - 1)
      /\ \A p \in 0 .. g_free - 1 : id'[p] = id[p]
      /\ \A k \in 1 .. Len(ids) : id'[g_free + k - 1] = ids[k] /\ mem'[g_free + k - 1] = block[k]
      /\ Registers' = [Registers EXCEPT ![r] = id'[g_free]] /\ Frames' = Frames /\ GlobalObjects' = GlobalObjects
      /\ RInv'
  BY Made
<1>3. /\ Len(ids) = 1 + n /\ ids[1] \in Ids /\ ids[1] \in Fresh /\ ids[1] # NoId
      /\ \A k \in 2 .. 1 + n : ids[k] = NoId
  <2>1. /\ Len(ids) = 1 + n /\ \A k \in 1 .. 1 : ids[k] \in Ids /\ ids[k] \in Fresh
        /\ \A k \in 1 + 1 .. 1 + n : ids[k] = NoId
    BY DEF Identities
  <2>2. NoId \notin Ids  BY Layout DEF NoId, Ids
  <2>3. 1 \in 1 .. 1 /\ \A k \in 2 .. 1 + n : k \in 1 + 1 .. 1 + n  OBVIOUS
  <2> QED  BY <2>1, <2>2, <2>3
<1>4. {ids[k] : k \in 1 .. Len(ids)} \ {NoId} = {ids[1]}
  <2>1. 1 \in 1 .. Len(ids) /\ \A k \in 1 .. Len(ids) : k = 1 \/ k \in 2 .. 1 + n  BY <1>3
  <2> QED  BY <2>1, <1>3
<1>5. id'[g_free] = ids[1] /\ Store'[ids[1]] = Contents(mem', id', g_free)
  <2>1. 1 \in 1 .. Len(ids) /\ g_free + 1 - 1 = g_free  BY <1>1, <1>3
  <2> QED  BY <2>1, <1>2, <1>3
<1>6. ids[1] \notin DOMAIN Store /\ ids[1] \in Abs!Fresh  BY <1>3 DEF Abs!Fresh, Fresh, Store, Objects
<1>7. Store' = Abs!With(ids[1], Contents(mem', id', g_free))
  <2>1. Store' = [j \in DOMAIN Store' |-> Store'[j]]  BY DEF Store
  <2>2. DOMAIN Store' = DOMAIN Store \cup {ids[1]}  BY <1>2, <1>4
  <2>3. \A j \in DOMAIN Store' : Store'[j] = IF j = ids[1] THEN Contents(mem', id', g_free) ELSE Store[j]
    BY <1>2, <1>5, <2>2
  <2> QED  BY <2>1, <2>2, <2>3 DEF Abs!With
<1>8. Abs!New(r, ids[1], Contents(mem', id', g_free))  BY <1>2, <1>5, <1>7 DEF Abs!New
<1>9. \A k \in 1 .. 1 + n : mem'[g_free + k - 1] = block[k]  BY <1>2, <1>3
<1> QED  BY <1>2, <1>6, <1>8, <1>9

\* What a vector gets for the object in a register.
LEMMA EntryIs ==
  ASSUME IInv, RInv, ~Interior, phase = "run", NEW e \in Regs, NEW I, \A p \in 0 .. g_free - 1 : I[p] = id[p]
  PROVE  EntryOf(I, vector_entry(regs[e])) = Abs!Entry(Registers[e])
<1>1. /\ Store[Registers[e]].type = mem[regs[e]].type
      /\ Store[Registers[e]].fields = Fields(mem, id, regs[e])
  BY RegisterStore
<1>2. CASE mem[regs[e]].type \in {"TCHAR", "TNUMBER"}
  <2>1. vector_entry(regs[e]) = mem[regs[e]]  BY <1>2 DEF vector_entry, IsNumber
  <2>2. EntryOf(I, mem[regs[e]]) = Val(mem[regs[e]].cdr)  BY <1>2 DEF EntryOf
  <2>3. Fields(mem, id, regs[e])[1] = Val(mem[regs[e]].cdr)  BY <1>2, ContentsOf
  <2>4. Abs!Entry(Registers[e]) = Val(mem[regs[e]].cdr)  BY <1>1, <1>2, <2>3 DEF Abs!Entry
  <2> QED  BY <2>1, <2>2, <2>4
<1>3. CASE mem[regs[e]].type \notin {"TCHAR", "TNUMBER"}
  <2>1. vector_entry(regs[e]) = Cell("TREF", regs[e], 0)  BY <1>3 DEF vector_entry, IsNumber
  <2>2. EntryOf(I, Cell("TREF", regs[e], 0)) = Ref(I[regs[e]])  BY DEF EntryOf, Cell
  <2>3. I[regs[e]] = Registers[e]  BY RegisterObject
  <2>4. Abs!Entry(Registers[e]) = Ref(Registers[e])  BY <1>1, <1>3, AbsObjects DEF Abs!Entry
  <2> QED  BY <2>1, <2>2, <2>3, <2>4
<1> QED  BY <1>2, <1>3

LEMMA MakeVectorSeen ==
  ASSUME IInv, RInv, ~Interior, NEW r \in Regs, NEW e \in Regs, NEW k \in Lengths, make_vector_(r, k, e)
  PROVE  RInv' /\ AbsStep
<1>1. phase = "run"  BY DEF make_vector_
<1>2. Types /\ Run /\ g_free \in Nat \ {0} /\ k \in Nat  BY <1>1, RunHome, SizesAssumption
<1>3. CASE Stop("out of memory")  BY <1>3, StopUnseen DEF AbsStep
<1>4. ASSUME NEW block, NEW ids, NEW n \in Nat, Allocates(r, block, ids, g_free), Identities(ids, 1, n), k <= n,
             Len(block) = 1 + n, block[1] = Cell("TVECTOR", k, g_free + 1),
             \A j \in 2 .. n + 1 : block[j] = vector_entry(regs[e])
      PROVE  RInv' /\ AbsStep
  <2>1. \A j \in 1 .. Len(block) : block[j].type # "TBROKEN_HEART"
    <3>1. vector_entry(regs[e]).type # "TBROKEN_HEART"  BY <1>2, EntryOfObject DEF EntryTypes
    <3>2. \A j \in 1 .. Len(block) : j = 1 \/ j \in 2 .. n + 1  BY <1>4
    <3> QED  BY <1>4, <3>1, <3>2 DEF Cell
  <2>2. /\ RInv' /\ ids[1] \in Abs!Fresh /\ Abs!New(r, ids[1], Contents(mem', id', g_free))
        /\ \A p \in 0 .. g_free - 1 : id'[p] = id[p]
        /\ \A j \in 1 .. 1 + n : mem'[g_free + j - 1] = block[j]
    BY <1>1, <1>4, <2>1, NewBlock
  <2>3. mem'[g_free].type = "TVECTOR" /\ mem'[g_free].car = k /\ mem'[g_free].cdr = g_free + 1
    <3>1. 1 \in 1 .. 1 + n /\ g_free + 1 - 1 = g_free  BY <1>2
    <3> QED  BY <1>4, <2>2, <3>1 DEF Cell
  <2>4. ASSUME NEW j \in 1 .. k PROVE EntryOf(id', mem'[mem'[g_free].cdr + j - 1]) = Abs!Entry(Registers[e])
    <3>1. j + 1 \in 1 .. 1 + n /\ j + 1 \in 2 .. n + 1 /\ g_free + (j + 1) - 1 = mem'[g_free].cdr + j - 1
      BY <1>2, <1>4, <2>3
    <3>2. mem'[mem'[g_free].cdr + j - 1] = vector_entry(regs[e])  BY <1>4, <2>2, <3>1
    <3>3. EntryOf(id', vector_entry(regs[e])) = Abs!Entry(Registers[e])  BY <1>1, <2>2, EntryIs
    <3> QED  BY <3>2, <3>3
  <2>5. Fields(mem', id', g_free) = [j \in 1 .. k |-> Abs!Entry(Registers[e])]
    <3>1. Fields(mem', id', g_free) = [j \in 1 .. mem'[g_free].car |-> EntryOf(id', mem'[mem'[g_free].cdr + j - 1])]
      BY <2>3, ContentsOf DEF VectorTypes
    <3> QED  BY <2>3, <2>4, <3>1
  <2>6. Abs!MakeVector(r, ids[1], k, e)  BY <2>2, <2>3, <2>5, AbsObjects DEF Abs!MakeVector, Contents
  <2>7. Abs!Next  BY <2>2, <2>6, SameRegs DEF Abs!Next
  <2> QED  BY <2>2, <2>7 DEF AbsStep
<1> QED  BY <1>2, <1>3, <1>4, VectorMade

\* The fields of a vector are its cells.
LEMMA VectorField ==
  ASSUME IInv, RInv, ~Interior, phase = "run", NEW x \in Regs, IsVector(regs[x])
  PROVE  /\ Store[Registers[x]].type = "TVECTOR" /\ mem[regs[x]].car \in Nat /\ mem[regs[x]].cdr = regs[x] + 1
         /\ Store[Registers[x]].fields = [k \in 1 .. mem[regs[x]].car |-> EntryOf(id, mem[mem[regs[x]].cdr + k - 1])]
         /\ DOMAIN Store[Registers[x]].fields = 1 .. mem[regs[x]].car
         /\ \A i \in 0 .. mem[regs[x]].car - 1 :
              /\ i + 1 \in DOMAIN Store[Registers[x]].fields
              /\ Store[Registers[x]].fields[i + 1] = EntryOf(id, Element(regs[x], i))
<1>1. /\ Store[Registers[x]].type = mem[regs[x]].type
      /\ Store[Registers[x]].fields = Fields(mem, id, regs[x])
      /\ ObjectAt(mem, id, regs[x], g_free)
  BY RegisterStore
<1>2. mem[regs[x]].type = "TVECTOR" /\ mem[regs[x]].type \in VectorTypes  BY DEF IsVector, VectorTypes
<1>3. Fields(mem, id, regs[x]) = [k \in 1 .. mem[regs[x]].car |-> EntryOf(id, mem[mem[regs[x]].cdr + k - 1])]
  <2>1. ASSUME NEW a, mem[a].type \in VectorTypes
        PROVE  Fields(mem, id, a) = [k \in 1 .. mem[a].car |-> EntryOf(id, mem[mem[a].cdr + k - 1])]
    BY <2>1, ContentsOf
  <2> QED  BY <1>2, <2>1
<1>4. mem[regs[x]].cdr = regs[x] + 1 /\ mem[regs[x]].car \in Nat /\ regs[x] \in Int
  <2>1. g_free \in Nat /\ regs[x] \in Int /\ Shaped(mem, id, regs[x], g_free)  BY <1>1, RunHome DEF ObjectAt, Sound
  <2> QED  BY <1>2, <2>1 DEF Shaped
<1>5. ASSUME NEW i \in 0 .. mem[regs[x]].car - 1
      PROVE  i + 1 \in 1 .. mem[regs[x]].car /\ mem[regs[x]].cdr + (i + 1) - 1 = mem[regs[x]].cdr + i
  BY <1>4
<1> QED  BY <1>1, <1>2, <1>3, <1>4, <1>5 DEF Element

LEMMA VectorRefSeen ==
  ASSUME IInv, RInv, ~Interior, NEW r \in Regs, NEW x \in Regs, NEW i \in 0 .. ARENA_SIZE, vector_ref_(r, x, i)
  PROVE  RInv' /\ AbsStep
<1>1. phase = "run" /\ IsVector(regs[x]) /\ i < mem[regs[x]].car  BY DEF vector_ref_
<1>2. Types /\ Run  BY <1>1, RunHome
<1> DEFINE e == Element(regs[x], i)
           X == Registers[x]
<1>3. /\ Store[X].type = "TVECTOR"
      /\ i + 1 \in DOMAIN Store[X].fields /\ Store[X].fields[i + 1] = EntryOf(id, e)
  <2>1. mem[regs[x]].car \in Nat  BY <1>1, VectorField
  <2>2. i \in 0 .. mem[regs[x]].car - 1  BY <1>1, <2>1
  <2> QED  BY <1>1, <2>2, VectorField
<1>4. e \in Cells /\ e.type \in EntryTypes  BY <1>1, <1>2, ElementIsEntry
<1>5. ASSUME Abs!VectorRef(r, x, i + 1) PROVE Abs!Next  BY <1>3, <1>5, SameRegs DEF Abs!Next
<1>6. CASE e.type = "TREF"
  <2>1. Read(r, e.car)  BY <1>6 DEF vector_ref_, Read
  <2> HIDE DEF e, X
  <2>2. /\ RInv' /\ Store' = Store /\ Registers' = [Registers EXCEPT ![r] = id[e.car]]
        /\ Frames' = Frames /\ GlobalObjects' = GlobalObjects
    BY <2>1, ReadSeen
  <2>3. Store[X].fields[i + 1].kind = "ref" /\ Store[X].fields[i + 1].at = id[e.car]  BY <1>3, <1>6 DEF EntryOf, Ref
  <2>4. Abs!VectorRef(r, x, i + 1)  BY <1>3, <2>2, <2>3 DEF Abs!VectorRef, X
  <2> QED  BY <1>5, <2>2, <2>4 DEF AbsStep
<1>7. CASE e.type # "TREF"
  <2> DEFINE c == Cell("TNUMBER", 0, e.cdr)
  <2>1. Allocate(r, <<c>>, FreshIds(1), g_free)  BY <1>7 DEF vector_ref_
  <2> HIDE DEF e, X
  <2>2. c \in Cells /\ c.type = "TNUMBER" /\ c.cdr = e.cdr
    <3>1. "TNUMBER" \in CellTypes /\ 0 \in Int /\ e.cdr \in Int  BY <1>4 DEF CellTypes, Cells
    <3> QED  BY <3>1, MadeCell
  <2> HIDE DEF c
  <2>3. CASE Stop("out of memory")  BY <2>3, StopUnseen DEF AbsStep
  <2>4. ASSUME RInv', mem'[g_free] = c, NEW o \in Abs!Fresh, Abs!New(r, o, Contents(mem', id', g_free))
        PROVE  RInv' /\ AbsStep
    <3>1. Contents(mem', id', g_free) = Object("TNUMBER", <<Val(e.cdr)>>)  BY <2>2, <2>4, ContentsOf DEF Contents
    <3>2. Store[X].fields[i + 1] = Val(e.cdr) /\ Store[X].fields[i + 1].kind # "ref"
      BY <1>3, <1>7 DEF EntryOf, Val
    <3>3. Abs!New(r, o, Abs!Object("TNUMBER", <<Store[X].fields[i + 1]>>))  BY <2>4, <3>1, <3>2, AbsObjects
    <3>4. Abs!VectorRef(r, x, i + 1)  BY <1>3, <2>4, <3>2, <3>3 DEF Abs!VectorRef, X
    <3> QED  BY <1>5, <2>4, <3>4 DEF AbsStep
  <2> QED  BY <1>1, <2>1, <2>2, <2>3, <2>4, NewMade
<1> QED  BY <1>6, <1>7

\* The static symbols are objects of their own addresses.
LEMMA ConstantObject ==
  ASSUME IInv, RInv, phase = "run"
  PROVE  id[cell_nil] = cell_nil /\ id[cell_f] = cell_f /\ cell_nil \in 0 .. g_free - 1 /\ cell_f \in 0 .. g_free - 1
<1>1. Types /\ Run /\ g_free \in Nat  BY RunHome
<1>2. cell_nil \in Symbols /\ cell_f \in Symbols  BY SizesAssumption DEF cell_nil, cell_f, Symbols
<1>3. \A s \in Symbols : id[s] = s  BY <1>1 DEF Run, SymbolAt
<1>4. cell_nil \in 0 .. g_free - 1 /\ cell_f \in 0 .. g_free - 1  BY <1>1, FalseIsASymbol DEF Refers
<1> QED  BY <1>2, <1>3, <1>4

LEMMA VectorToListSeen ==
  ASSUME IInv, RInv, ~Interior, NEW r \in Regs, NEW x \in Regs, vector_to_list(r, x)
  PROVE  RInv' /\ AbsStep
<1>1. phase = "run" /\ IsVector(regs[x])  BY DEF vector_to_list
<1>2. Types /\ Run /\ g_free \in Nat \ {0}  BY <1>1, RunHome
<1> DEFINE elements == Store[Registers[x]].fields
           n == Len(elements)
           c == mem[regs[x]].car
<1>3. /\ n = c /\ n \in Nat /\ Store[Registers[x]].type = "TVECTOR" /\ DOMAIN elements = 1 .. n
  <2>1. /\ Store[Registers[x]].type = "TVECTOR" /\ DOMAIN elements = 1 .. c /\ c \in Nat
        /\ elements = [k \in 1 .. c |-> EntryOf(id, mem[mem[regs[x]].cdr + k - 1])]
    BY <1>1, VectorField
  <2> QED  BY <2>1
<1>4. /\ n \in Nat
      /\ \A k \in 0 .. n - 1 : Element(regs[x], k).type = "TREF" /\ ListItem(x, k) = Element(regs[x], k).car
                               /\ ListItem(x, k) \in 0 .. g_free - 1
  <2>1. \A k \in 0 .. c - 1 : /\ Element(regs[x], k).type # "TREF" => Interior
                              /\ Refers(mem, id, ListItem(x, k), 1, g_free - 1)
    BY <1>2, ListMade
  <2> HIDE DEF n, c
  <2> QED  BY <1>2, <1>3, <2>1 DEF ListItem, Refers
<1> HIDE DEF n
<1>6. ASSUME NEW k \in 1 .. n PROVE elements[k] = Ref(id[ListItem(x, k - 1)]) /\ elements[k].kind = "ref"
  <2>1. k - 1 \in 0 .. n - 1 /\ (k - 1) + 1 = k  BY <1>3
  <2>2. elements[(k - 1) + 1] = EntryOf(id, Element(regs[x], k - 1))
    <3>1. \A i \in 0 .. c - 1 : elements[i + 1] = EntryOf(id, Element(regs[x], i))  BY <1>1, VectorField
    <3> QED  BY <1>3, <2>1, <3>1
  <2> QED  BY <1>4, <2>1, <2>2 DEF EntryOf, Ref
<1>7. CASE Stop("out of memory")  BY <1>7, StopUnseen DEF AbsStep
<1> HIDE DEF c, elements
<1>5. ASSUME NEW block, NEW ids, Allocates(r, block, ids, ListHead(c)), Identities(ids, c, 0), Len(block) = c,
             \A j \in 1 .. c : /\ block[j].type = "TPAIR" /\ block[j].car = ListItem(x, c - j)
                               /\ block[j].cdr = ListRest(j)
      PROVE  RInv' /\ AbsStep
  <2>0. /\ Allocates(r, block, ids, ListHead(n)) /\ Identities(ids, n, 0) /\ Len(block) = n
        /\ \A j \in 1 .. n : /\ block[j].type = "TPAIR" /\ block[j].car = ListItem(x, n - j)
                              /\ block[j].cdr = ListRest(j)
    BY <1>3, <1>5
  <2>1. /\ DOMAIN Store' = DOMAIN Store \cup ({ids[k] : k \in 1 .. Len(ids)} \ {NoId})
        /\ \A o \in DOMAIN Store : Store'[o] = Store[o]
        /\ \A k \in 1 .. Len(ids) : ids[k] # NoId => Store'[ids[k]] = Contents(mem', id', g_free + k - 1)
        /\ \A p \in 0 .. g_free - 1 : id'[p] = id[p]
        /\ \A k \in 1 .. Len(ids) : id'[g_free + k - 1] = ids[k] /\ mem'[g_free + k - 1] = block[k]
        /\ Registers' = [Registers EXCEPT ![r] = id'[ListHead(n)]] /\ Frames' = Frames /\ GlobalObjects' = GlobalObjects
        /\ RInv'
    <3>1. \A k \in 1 .. Len(block) : block[k].type # "TBROKEN_HEART"  BY <2>0
    <3>2. Allocates(r, block, ids, ListHead(n))  BY <2>0
    <3> QED  BY <1>1, <3>1, <3>2, Made
  <2>2. /\ Len(ids) = n /\ \A k \in 1 .. n : ids[k] \in Fresh /\ ids[k] # NoId
        /\ \A j, k \in 1 .. n : ids[j] = ids[k] => j = k
    <3>1. NoId \notin Ids  BY Layout DEF NoId, Ids
    <3>2. Identities(ids, n, 0) /\ n + 0 = n  BY <1>4, <2>0
    <3>3. /\ Len(ids) = n + 0 /\ \A k \in 1 .. n : ids[k] \in Ids /\ ids[k] \in Fresh
          /\ \A j, k \in 1 .. Len(ids) : ids[j] = ids[k] /\ ids[j] # NoId => j = k
      BY <3>2 DEF Identities
    <3> QED  BY <3>1, <3>2, <3>3
  <2> DEFINE pair == [k \in 1 .. n |-> ids[n + 1 - k]]
             Rest_(k) == IF k = n THEN cell_nil ELSE pair[k + 1]
  <2>3. \A k \in 1 .. n : n + 1 - k \in 1 .. n /\ pair[k] = ids[n + 1 - k] /\ n + 1 - (n + 1 - k) = k  BY <1>3
  <2>4. \A j, k \in 1 .. n : pair[j] = pair[k] => j = k
    <3> SUFFICES ASSUME NEW j \in 1 .. n, NEW k \in 1 .. n, pair[j] = pair[k] PROVE j = k  OBVIOUS
    <3>1. n + 1 - j = n + 1 - k  BY <2>2, <2>3
    <3> QED  BY <1>3, <3>1
  <2>5. {ids[k] : k \in 1 .. Len(ids)} \ {NoId} = {pair[k] : k \in 1 .. n}
    <3>1. {ids[k] : k \in 1 .. Len(ids)} \ {NoId} = {ids[k] : k \in 1 .. n}  BY <2>2
    <3>2. \A k \in 1 .. n : ids[k] = pair[n + 1 - k]
      <4> SUFFICES ASSUME NEW k \in 1 .. n PROVE ids[k] = pair[n + 1 - k]  OBVIOUS
      <4>1. n + 1 - k \in 1 .. n /\ n + 1 - (n + 1 - k) = k  BY <2>3
      <4> QED  BY <4>1
    <3>3. \A k \in 1 .. n : n + 1 - k \in 1 .. n /\ pair[k] = ids[n + 1 - k]  BY <2>3
    <3> HIDE DEF pair
    <3>4. {ids[k] : k \in 1 .. n} \subseteq {pair[k] : k \in 1 .. n}  BY <3>2, <3>3
    <3>5. {pair[k] : k \in 1 .. n} \subseteq {ids[k] : k \in 1 .. n}  BY <3>3
    <3> QED  BY <3>1, <3>4, <3>5
  <2>6. \A k \in 1 .. n : pair[k] \notin DOMAIN Store /\ pair[k] \in Abs!Fresh
    BY <2>2, <2>3 DEF Abs!Fresh, Fresh, Store, Objects
  <2>7. ASSUME NEW k \in 1 .. n
        PROVE  Store'[pair[k]] = Object("TPAIR", <<elements[k], Ref(Rest_(k))>>)
    <3> DEFINE j == n + 1 - k
               a == g_free + j - 1
    <3>1. j \in 1 .. n /\ j \in 1 .. Len(ids) /\ pair[k] = ids[j] /\ n - j = k - 1 /\ j \in Int /\ a \in Int
      BY <1>2, <1>3, <2>2, <2>3
    <3>2. Store'[pair[k]] = Contents(mem', id', a) /\ mem'[a] = block[j]  BY <2>1, <2>2, <3>1
    <3>3. block[j].type = "TPAIR" /\ block[j].car = ListItem(x, k - 1) /\ block[j].cdr = ListRest(j)
      BY <2>0, <3>1
    <3>4. Ref(id'[ListItem(x, k - 1)]) = elements[k]
      <4>1. k - 1 \in 0 .. n - 1  BY <1>3
      <4>2. id'[ListItem(x, k - 1)] = id[ListItem(x, k - 1)]  BY <1>4, <2>1, <4>1
      <4> QED  BY <1>6, <4>2
    <3>5. id'[ListRest(j)] = Rest_(k)
      <4>1. CASE j = 1
        <5>1. k = n  BY <1>3, <4>1
        <5>2. id'[cell_nil] = cell_nil  BY <1>1, <2>1, ConstantObject
        <5> QED  BY <4>1, <5>1, <5>2 DEF ListRest
      <4>2. CASE j # 1
        <5>1. k # n /\ k + 1 \in 1 .. n /\ n + 1 - (k + 1) = j - 1 /\ j - 1 \in 1 .. n
          <6>1. n \in Nat  BY <1>4
          <6> QED  BY <4>2, <6>1
        <5>5. j - 1 \in 1 .. Len(ids) /\ g_free + j - 2 = g_free + (j - 1) - 1  BY <1>2, <2>2, <3>1, <5>1
        <5>2. pair[k + 1] = ids[j - 1]  BY <5>1, <2>3
        <5>3. ListRest(j) = g_free + (j - 1) - 1  BY <4>2, <5>5 DEF ListRest
        <5>4. id'[g_free + (j - 1) - 1] = ids[j - 1]  BY <2>1, <5>5
        <5> QED  BY <5>1, <5>2, <5>3, <5>4
      <4> QED  BY <4>1, <4>2
    <3> HIDE DEF j, a, pair, Rest_
    <3>6. mem'[a].type = "TPAIR" /\ mem'[a].car = ListItem(x, k - 1) /\ mem'[a].cdr = ListRest(j)
      BY <3>2, <3>3
    <3>7. Fields(mem', id', a) = <<Ref(id'[mem'[a].car]), Ref(id'[mem'[a].cdr])>>  BY <3>6, ContentsOf
    <3>8. Fields(mem', id', a) = <<elements[k], Ref(Rest_(k))>>  BY <3>4, <3>5, <3>6, <3>7
    <3> QED  BY <3>2, <3>6, <3>8 DEF Contents
  <2>8. Registers' = [Registers EXCEPT ![r] = Rest_(0)]
    <3>1. id'[ListHead(n)] = Rest_(0)
      <4>1. CASE n = 0
        <5>1. id'[cell_nil] = cell_nil  BY <1>1, <2>1, ConstantObject
        <5> QED  BY <4>1, <5>1 DEF ListHead
      <4>2. CASE n # 0
        <5>1. n \in 1 .. Len(ids) /\ 0 + 1 \in 1 .. n /\ n + 1 - (0 + 1) = n  BY <1>3, <2>2, <4>2
        <5>2. id'[g_free + n - 1] = ids[n] /\ pair[0 + 1] = ids[n]  BY <2>1, <2>3, <5>1
        <5> QED  BY <4>2, <5>2 DEF ListHead
      <4> QED  BY <4>1, <4>2
    <3> QED  BY <2>1, <3>1
  <2>9. DOMAIN pair = 1 .. n /\ pair \in [1 .. n -> Abs!Fresh]  BY <2>6
  <2>10. Abs!IsInjective(pair)
    BY <2>4, <2>9, Zenon DEF Abs!IsInjective
  <2>11. Abs!Range(pair) = {pair[k] : k \in 1 .. n}  BY <2>9 DEF Abs!Range
  <2> HIDE DEF pair
  <2>12. Store' = [j \in DOMAIN Store \cup Abs!Range(pair) |->
                     IF j \in Abs!Range(pair)
                       THEN LET k == CHOOSE k \in 1 .. n : pair[k] = j
                            IN Abs!Object("TPAIR", <<elements[k], Abs!Ref(Rest_(k))>>)
                       ELSE Store[j]]
    <3>1. Store' = [j \in DOMAIN Store' |-> Store'[j]]  BY DEF Store
    <3>2. DOMAIN Store' = DOMAIN Store \cup Abs!Range(pair)  BY <2>1, <2>5, <2>11
    <3>3. ASSUME NEW j \in Abs!Range(pair)
          PROVE  Store'[j] = Abs!Object("TPAIR", <<elements[CHOOSE k \in 1 .. n : pair[k] = j],
                                                   Abs!Ref(Rest_(CHOOSE k \in 1 .. n : pair[k] = j))>>)
      <4>1. PICK k \in 1 .. n : pair[k] = j  BY <2>11
      <4>2. (CHOOSE i \in 1 .. n : pair[i] = j) = k  BY <2>4, <4>1
      <4> HIDE DEF Rest_
      <4> QED  BY <2>7, <4>1, <4>2, AbsObjects
    <3>4. \A j \in DOMAIN Store : j \notin Abs!Range(pair) => Store'[j] = Store[j]  BY <2>1
    <3> HIDE DEF Rest_
    <3> QED  BY <3>1, <3>2, <3>3, <3>4
  <2>13. Abs!VectorToList(r, x)
    <3>1. \A k \in 1 .. n : elements[k].kind = "ref"  BY <1>6
    <3>2. \E p \in [1 .. n -> Abs!Fresh] :
            LET R(k) == IF k = n THEN cell_nil ELSE p[k + 1]
            IN /\ Abs!IsInjective(p)
               /\ Store' = [j \in DOMAIN Store \cup Abs!Range(p) |->
                     IF j \in Abs!Range(p)
                       THEN LET k == CHOOSE k \in 1 .. n : p[k] = j
                            IN Abs!Object("TPAIR", <<elements[k], Abs!Ref(R(k))>>)
                       ELSE Store[j]]
               /\ Registers' = [Registers EXCEPT ![r] = R(0)]
      <4> pair \in [1 .. n -> Abs!Fresh]  BY <2>9
      <4> WITNESS pair \in [1 .. n -> Abs!Fresh]
      <4> QED  BY <2>8, <2>10, <2>12, Zenon
    <3> QED  BY <3>1, <3>2, <1>3, <2>1, Zenon DEF Abs!VectorToList, n, elements
  <2>14. Abs!Next  BY <2>13, SameRegs DEF Abs!Next
  <2> QED  BY <2>1, <2>14 DEF AbsStep
<1> QED  BY <1>2, <1>7, <1>5, ListMade DEF c

\* A cell is of one object only.
LEMMA Apart ==
  ASSUME NEW m, NEW i, NEW top \in Int, NEW a \in Int, NEW b \in Int, i[a] # NoId, i[b] # NoId,
         Size(m[a]) \in Nat \ {0}, Size(m[b]) \in Nat \ {0},
         Shaped(m, i, a, top), Shaped(m, i, b, top), NEW j, j = a \/ j \in Rest(m, a), j = b \/ j \in Rest(m, b)
  PROVE  a = b
<1>1. /\ \A k \in a + 1 .. a + Size(m[a]) - 1 : i[k] = NoId
      /\ \A k \in b + 1 .. b + Size(m[b]) - 1 : i[k] = NoId
  BY DEF Shaped, Rest
<1>2. j \in a .. a + Size(m[a]) - 1 /\ j \in b .. b + Size(m[b]) - 1  BY DEF Rest
<1>3. a < b => b \in a + 1 .. a + Size(m[a]) - 1  BY <1>2
<1>4. b < a => a \in b + 1 .. b + Size(m[b]) - 1  BY <1>2
<1> QED  BY <1>1, <1>3, <1>4

\* Writing a cell of one object changes no other.
LEMMA OthersKept ==
  ASSUME IInv, RInv, ~Interior, phase = "run", NEW x \in Regs,
         NEW w, w = regs[x] \/ w \in Rest(mem, regs[x]),
         NEW M, NEW I, \A p \in 0 .. g_free - 1 : I[p] = id[p], \A p \in 0 .. g_free - 1 : p # w => M[p] = mem[p],
         NEW o \in DOMAIN home, o # Registers[x]
  PROVE  Contents(M, I, home[o]) = Store[o]
<1>1. /\ Types /\ g_free \in Nat \ {0} /\ mem \in [Addr -> Cells] /\ Addr = 0 .. MemTop - 1 /\ g_free <= MemTop
      /\ MemTop \in Nat
  <2>1. Types /\ g_free \in Nat \ {0}  BY RunHome
  <2>2. mem \in [Addr -> Cells] /\ g_free \in 1 .. MemTop  BY <2>1 DEF Types
  <2> QED  BY <2>1, <2>2, Layout
<1>2. /\ ObjectAt(mem, id, home[o], g_free) /\ id[home[o]] = o
      /\ ObjectAt(mem, id, regs[x], g_free) /\ id[regs[x]] = Registers[x] /\ id[regs[x]] # NoId
  BY RunHome, RegisterStore, RegisterObject
<1>3. o # NoId
  <2>1. o \in Ids /\ NoId \notin Ids  BY <1>1, Layout DEF Types, Ids, NoId
  <2> QED  BY <2>1
<1>4. /\ home[o] \in 0 .. g_free - 1 /\ regs[x] \in 0 .. g_free - 1 /\ home[o] \in Addr /\ regs[x] \in Addr
      /\ Shaped(mem, id, home[o], g_free) /\ Shaped(mem, id, regs[x], g_free)
  BY <1>1, <1>2 DEF ObjectAt, Sound
<1>5. Size(mem[home[o]]) \in Nat \ {0} /\ Size(mem[regs[x]]) \in Nat \ {0}  BY <1>1, <1>4, ShapedSize
<1>6. ASSUME NEW j, j = home[o] \/ j \in Rest(mem, home[o]) PROVE M[j] = mem[j]
  <2>1. j \in 0 .. g_free - 1  BY <1>1, <1>4, <1>5, <1>6 DEF Rest, Shaped
  <2>2. j # w
    <3>1. SUFFICES ASSUME j = w PROVE FALSE  OBVIOUS
    <3>2. regs[x] # home[o]  BY <1>2
    <3>3. j = regs[x] \/ j \in Rest(mem, regs[x])  BY <3>1
    <3>4. home[o] \in Int /\ regs[x] \in Int /\ g_free \in Int /\ id[home[o]] # NoId  BY <1>1, <1>2, <1>3, <1>4
    <3>5. home[o] = regs[x]  BY <1>2, <1>4, <1>5, <1>6, <3>3, <3>4, Apart
    <3> QED  BY <3>2, <3>5
  <2> QED  BY <2>1, <2>2
<1>7. g_free \in Nat /\ ObjectAt(mem, id, home[o], g_free)  BY <1>1, <1>2
<1>8. Contents(M, I, home[o]) = Contents(mem, id, home[o])  BY <1>6, <1>7, KeptCells
<1> QED  BY <1>8 DEF Store, Objects

\* A step that writes the cell w of the object in register x ..
WritesCell(x, w) ==
  /\ w = regs[x] \/ w \in Rest(mem, regs[x])
  /\ \A p \in 0 .. g_free - 1 : id'[p] = id[p]
  /\ \A p \in 0 .. g_free - 1 : p # w => mem'[p] = mem[p]
  /\ DOMAIN home' = DOMAIN home /\ \A o \in DOMAIN home : home'[o] = home[o]
  /\ UNCHANGED <<regs, globals, g_stack, g_stack_array, g_news>>

\* .. so that its n-th field is e ..
WritesField(x, n, e) ==
  Contents(mem', id', regs[x]) = Object(mem[regs[x]].type, [Fields(mem, id, regs[x]) EXCEPT ![n] = e])

\* .. does that to the store, and nothing else.
LEMMA SetSeen ==
  ASSUME IInv, RInv, ~Interior, phase = "run", NEW x \in Regs, NEW w, WritesCell(x, w),
         NEW n, NEW e, WritesField(x, n, e)
  PROVE  /\ Store' = [Store EXCEPT ![Registers[x]].fields[n] = e]
         /\ Registers' = Registers /\ Frames' = Frames /\ GlobalObjects' = GlobalObjects
<1>0. /\ w = regs[x] \/ w \in Rest(mem, regs[x])
      /\ \A p \in 0 .. g_free - 1 : id'[p] = id[p]
      /\ \A p \in 0 .. g_free - 1 : p # w => mem'[p] = mem[p]
      /\ DOMAIN home' = DOMAIN home /\ \A o \in DOMAIN home : home'[o] = home[o]
      /\ UNCHANGED <<regs, globals, g_stack, g_stack_array, g_news>>
  BY DEF WritesCell
<1>1. /\ Registers[x] \in DOMAIN home /\ DOMAIN Store = DOMAIN home /\ home[Registers[x]] = regs[x]
      /\ Store[Registers[x]] = Contents(mem, id, regs[x])
  BY RegisterStore
<1>2. DOMAIN Store' = DOMAIN home /\ \A o \in DOMAIN home : Store'[o] = Contents(mem', id', home[o])
  BY <1>0 DEF Store, Objects
<1>3. \A o \in DOMAIN home : o # Registers[x] => Store'[o] = Store[o]
  <2>1. SUFFICES ASSUME NEW o \in DOMAIN home, o # Registers[x] PROVE Contents(mem', id', home[o]) = Store[o]
    BY <1>2
  <2> QED  BY <1>0, <2>1, OthersKept
<1>4. Store[Registers[x]] = Object(mem[regs[x]].type, Fields(mem, id, regs[x]))  BY <1>1 DEF Contents
<1>5. Store'[Registers[x]] = Object(mem[regs[x]].type, [Fields(mem, id, regs[x]) EXCEPT ![n] = e])
  BY <1>1, <1>2 DEF WritesField
<1>6. Store = [o \in DOMAIN Store |-> Store[o]] /\ Store' = [o \in DOMAIN Store' |-> Store'[o]]  BY DEF Store
<1>7. Store' = [Store EXCEPT ![Registers[x]].fields[n] = e]
  <2>1. PICK s : s = Store  OBVIOUS
  <2>2. PICK S : S = Store'  OBVIOUS
  <2>3. PICK X : X = Registers[x]  OBVIOUS
  <2>4. PICK f : f = Fields(mem, id, regs[x])  OBVIOUS
  <2>5. PICK t : t = mem[regs[x]].type  OBVIOUS
  <2>6. /\ DOMAIN S = DOMAIN s /\ s = [o \in DOMAIN s |-> s[o]] /\ S = [o \in DOMAIN S |-> S[o]]
        /\ X \in DOMAIN s /\ \A o \in DOMAIN s : o # X => S[o] = s[o]
        /\ s[X] = Object(t, f) /\ S[X] = Object(t, [f EXCEPT ![n] = e])
    BY <1>1, <1>2, <1>3, <1>4, <1>5, <1>6, <2>1, <2>2, <2>3, <2>4, <2>5
  <2>7. [s EXCEPT ![X].fields[n] = e] = [s EXCEPT ![X] = [s[X] EXCEPT !.fields = [s[X].fields EXCEPT ![n] = e]]]
    OBVIOUS
  <2>8. [s[X] EXCEPT !.fields = [s[X].fields EXCEPT ![n] = e]] = S[X]  BY <2>6 DEF Object
  <2>9. S = [s EXCEPT ![X] = S[X]]  BY <2>6
  <2> QED  BY <2>1, <2>2, <2>3, <2>7, <2>8, <2>9
<1>8. Registers' = Registers
  <2>1. \A q \in Regs : id'[regs'[q]] = id[regs[q]]  BY <1>0, RegisterObject
  <2> QED  BY <2>1 DEF Registers
<1>9. Frames' = Frames
  <2>1. UNCHANGED <<g_stack, g_stack_array, g_news>>  BY <1>0
  <2> QED  BY <1>0, <2>1, RunFrames
<1>10. GlobalObjects' = GlobalObjects  BY <1>0, RunGlobals
<1> QED  BY <1>7, <1>8, <1>9, <1>10

\* A step of the program that makes no object leaves the homes as they are.
LEMMA QuietHomes ==
  ASSUME IInv, RInv, phase = "run", UNCHANGED <<id, home, g_free, g_news, phase>>,
         \A a \in 0 .. g_free - 1 : mem'[a].type # "TBROKEN_HEART"
  PROVE  RInv'
<1>1. g_news = 0 /\ AtHome(mem, id, home, g_free) /\ \A a \in 0 .. g_free - 1 : mem[a].type # "TBROKEN_HEART"
  BY RunHome
<1>2. AtHome(mem', id', home', g_free')  BY <1>1 DEF AtHome
<1> QED  BY <1>1, <1>2 DEF RInv, Collecting

\* set_car_x and set_cdr_x.
LEMMA PairSet ==
  ASSUME IInv, RInv, ~Interior, NEW x \in Regs, NEW e \in Regs, mem[regs[x]].type = "TPAIR",
         NEW c, Write([mem EXCEPT ![regs[x]] = c]), c.type = "TPAIR",
         NEW n \in 1 .. 2, IF n = 1 THEN c.car = regs[e] /\ c.cdr = mem[regs[x]].cdr
                                    ELSE c.car = mem[regs[x]].car /\ c.cdr = regs[e]
  PROVE  RInv' /\ AbsStep
<1>1. /\ phase = "run" /\ mem' = [mem EXCEPT ![regs[x]] = c]
      /\ UNCHANGED <<id, home, g_free, g_news, phase>>
      /\ UNCHANGED <<regs, globals, g_stack, g_stack_array, g_news>>
  BY DEF Write, history, Collector
<1>2. /\ mem \in [Addr -> Cells] /\ \A a \in 0 .. g_free - 1 : a \in Addr /\ mem[a].type # "TBROKEN_HEART"
  <2>1. Types /\ g_free \in Nat \ {0}  BY <1>1, RunHome
  <2> QED  BY <1>1, <2>1, RunHome, Layout DEF Types
<1>3. regs[x] \in 0 .. g_free - 1 /\ regs[x] \in Addr  BY <1>1, <1>2, RegisterObject
<1>4. mem'[regs[x]] = c /\ \A p \in 0 .. g_free - 1 : p # regs[x] => mem'[p] = mem[p]  BY <1>1, <1>2, <1>3
<1>5. RInv'
  <2>1. \A a \in 0 .. g_free - 1 : mem'[a].type # "TBROKEN_HEART"  BY <1>2, <1>4
  <2>2. UNCHANGED <<id, home, g_free, g_news, phase>>  BY <1>1
  <2> QED  BY <1>1, <2>1, <2>2, QuietHomes
<1> DEFINE f == <<Ref(id[mem[regs[x]].car]), Ref(id[mem[regs[x]].cdr])>>
           v == Ref(Registers[e])
<1>6. Fields(mem, id, regs[x]) = f
  <2>1. ASSUME NEW a, mem[a].type = "TPAIR" PROVE Fields(mem, id, a) = <<Ref(id[mem[a].car]), Ref(id[mem[a].cdr])>>
    BY <2>1, ContentsOf
  <2> QED  BY <2>1
<1>7. Contents(mem', id', regs[x]) = Object("TPAIR", [f EXCEPT ![n] = v])
  <2>1. ASSUME NEW m, NEW i, NEW a, m[a].type = "TPAIR"
        PROVE  Contents(m, i, a) = Object("TPAIR", <<Ref(i[m[a].car]), Ref(i[m[a].cdr])>>)
    BY <2>1, ContentsOf DEF Contents
  <2>2. Contents(mem', id', regs[x]) = Object("TPAIR", <<Ref(id[c.car]), Ref(id[c.cdr])>>)
    <3>1. id' = id /\ mem'[regs[x]] = c /\ mem'[regs[x]].type = "TPAIR"  BY <1>1, <1>4
    <3>2. Contents(mem', id', regs[x]) =
            Object("TPAIR", <<Ref(id'[mem'[regs[x]].car]), Ref(id'[mem'[regs[x]].cdr])>>)
      BY <2>1, <3>1
    <3> QED  BY <3>1, <3>2
  <2>3. id[regs[e]] = Registers[e]  BY <1>1, RegisterObject
  <2>4. <<Ref(id[c.car]), Ref(id[c.cdr])>> = [f EXCEPT ![n] = v]
    <3>1. CASE n = 1  BY <2>3, <3>1
    <3>2. CASE n = 2  BY <2>3, <3>2
    <3> QED  BY <3>1, <3>2
  <2> QED  BY <2>2, <2>4
<1>8. /\ Store' = [Store EXCEPT ![Registers[x]].fields[n] = v]
      /\ Registers' = Registers /\ Frames' = Frames /\ GlobalObjects' = GlobalObjects
  <2> HIDE DEF f, v
  <2>1. WritesCell(x, regs[x])  BY <1>1, <1>4 DEF WritesCell
  <2>2. WritesField(x, n, v)  BY <1>6, <1>7 DEF WritesField
  <2> QED  BY <1>1, <2>1, <2>2, SetSeen
<1>9. Store[Registers[x]].type = "TPAIR"  BY <1>1, RegisterStore
<1>10. Abs!Store(x, n, e)  BY <1>8, <1>9, AbsObjects DEF Abs!Store
<1>11. Abs!Next  BY <1>10, SameRegs DEF Abs!Next
<1> QED  BY <1>5, <1>11 DEF AbsStep

LEMMA SetCarSeen ==
  ASSUME IInv, RInv, ~Interior, NEW x \in Regs, NEW e \in Regs, set_car_x(x, e)
  PROVE  RInv' /\ AbsStep
<1>1. mem[regs[x]].type = "TPAIR" /\ Write([mem EXCEPT ![regs[x]].car = regs[e]])  BY DEF set_car_x
<1> DEFINE c == [mem[regs[x]] EXCEPT !.car = regs[e]]
<1>2. mem[regs[x]] \in Cells
  <2>1. phase = "run"  BY <1>1 DEF Write
  <2> QED  BY <2>1, RunHome, RegisterIsSound DEF Types
<1>3. c.type = "TPAIR" /\ c.car = regs[e] /\ c.cdr = mem[regs[x]].cdr  BY <1>1, <1>2 DEF Cells
<1>4. [mem EXCEPT ![regs[x]].car = regs[e]] = [mem EXCEPT ![regs[x]] = c]  OBVIOUS
<1> HIDE DEF c
<1>5. Write([mem EXCEPT ![regs[x]] = c])  BY <1>1, <1>4
<1> QED  BY <1>1, <1>3, <1>5, PairSet

LEMMA SetCdrSeen ==
  ASSUME IInv, RInv, ~Interior, NEW x \in Regs, NEW e \in Regs, set_cdr_x(x, e)
  PROVE  RInv' /\ AbsStep
<1>1. mem[regs[x]].type = "TPAIR" /\ Write([mem EXCEPT ![regs[x]].cdr = regs[e]])  BY DEF set_cdr_x
<1> DEFINE c == [mem[regs[x]] EXCEPT !.cdr = regs[e]]
<1>2. mem[regs[x]] \in Cells
  <2>1. phase = "run"  BY <1>1 DEF Write
  <2> QED  BY <2>1, RunHome, RegisterIsSound DEF Types
<1>3. c.type = "TPAIR" /\ c.car = mem[regs[x]].car /\ c.cdr = regs[e]  BY <1>1, <1>2 DEF Cells
<1>4. [mem EXCEPT ![regs[x]].cdr = regs[e]] = [mem EXCEPT ![regs[x]] = c]  OBVIOUS
<1> HIDE DEF c
<1>5. Write([mem EXCEPT ![regs[x]] = c])  BY <1>1, <1>4
<1> QED  BY <1>1, <1>3, <1>5, PairSet

LEMMA SetGlobalSeen ==
  ASSUME IInv, RInv, NEW g \in Assigned, NEW r \in Regs, SetGlobal(g, r)
  PROVE  RInv' /\ AbsStep
<1>1. /\ phase = "run" /\ globals' = [globals EXCEPT ![g] = regs[r]]
      /\ UNCHANGED <<mem, id, home, g_free, g_news, phase, g_stack, g_stack_array, regs>>
  BY DEF SetGlobal, history, Collector
<1>2. RInv'
  <2>1. \A a \in 0 .. g_free - 1 : mem'[a].type # "TBROKEN_HEART"  BY <1>1, RunHome
  <2>2. UNCHANGED <<id, home, g_free, g_news, phase>>  BY <1>1
  <2> QED  BY <1>1, <2>1, <2>2, QuietHomes
<1>3. Store' = Store /\ Registers' = Registers  BY <1>1 DEF Store, Objects, Registers
<1>4. Frames' = Frames
  <2>1. UNCHANGED <<g_stack, g_stack_array, g_news>> /\ \A p \in 0 .. g_free - 1 : id'[p] = id[p]  BY <1>1
  <2> QED  BY <1>1, <2>1, RunFrames
<1>5. globals \in [Globals -> 0 .. g_free]  BY <1>1, RunHome DEF Types
<1>6. GlobalObjects' = [GlobalObjects EXCEPT ![g] = Registers[r]]
  BY <1>1, <1>5 DEF GlobalObjects, Registers
<1>7. ASSUME g \in Globals PROVE Abs!Next
  <2>1. Abs!SetGlobal(g, r)  BY <1>3, <1>4, <1>6 DEF Abs!SetGlobal
  <2> QED  BY <1>7, <2>1, SameRegs DEF Abs!Next
<1>8. ASSUME g \notin Globals PROVE UNCHANGED Abs!vars
  <2>1. GlobalObjects' = GlobalObjects  BY <1>6, <1>8 DEF GlobalObjects
  <2> QED  BY <1>3, <1>4, <2>1, Unseen
<1> QED  BY <1>2, <1>7, <1>8 DEF AbsStep

\* The frame that Pushed writes, and those behind it.
LEMMA PushedFrames ==
  ASSUME IInv, RInv, phase = "run", ~(g_stack < GC_FRAME_SIZE)
  PROVE  /\ g_stack - GC_FRAME_SIZE \in Nat /\ (g_stack - GC_FRAME_SIZE) + GC_FRAME_SIZE = g_stack
         /\ \A k \in g_stack .. STACK_SIZE - 1 : Pushed[k] = g_stack_array[k]
         /\ \A k \in 0 .. NRegs : Pushed[g_stack - GC_FRAME_SIZE + k] =
                                    IF k = NRegs THEN cell_f ELSE regs[NRegs - 1 - k]
         /\ FramesOf(id, Pushed, g_stack) = Frames
<1>1. Types /\ Run /\ FrameStart = g_stack  BY RunHome
<1>2. NRegs \in Nat \ {0} /\ STACK_SIZE \in Nat /\ GC_FRAME_SIZE = NRegs + 1
  BY SizesAssumption DEF GC_FRAME_SIZE
<1>3. g_stack \in 0 .. STACK_SIZE /\ DOMAIN g_stack_array = 0 .. STACK_SIZE - 1  BY <1>1 DEF Types
<1>4. g_stack - GC_FRAME_SIZE \in Nat /\ (g_stack - GC_FRAME_SIZE) + GC_FRAME_SIZE = g_stack  BY <1>2, <1>3
<1>5. ASSUME NEW k \in g_stack .. STACK_SIZE - 1 PROVE Pushed[k] = g_stack_array[k]
  <2>1. k \in DOMAIN g_stack_array /\ k \notin g_stack - GC_FRAME_SIZE .. g_stack - 1  BY <1>3, <1>4
  <2> QED  BY <2>1 DEF Pushed
<1>6. ASSUME NEW k \in 0 .. NRegs
      PROVE  Pushed[g_stack - GC_FRAME_SIZE + k] = IF k = NRegs THEN cell_f ELSE regs[NRegs - 1 - k]
  <2> DEFINE s == g_stack - GC_FRAME_SIZE
  <2>1. s \in Nat /\ s + k \in DOMAIN g_stack_array /\ s + k \in s .. g_stack - 1 /\ s + k \in s .. s + NRegs
    BY <1>2, <1>3, <1>4
  <2>2. Pushed[s + k] = FrameAt(s)[s + k]  BY <2>1 DEF Pushed
  <2>3. FrameAt(s)[s + k] = IF s + k = s + NRegs THEN cell_f ELSE regs[s + NRegs - 1 - (s + k)]
    BY <2>1 DEF FrameAt
  <2>4. (s + k = s + NRegs <=> k = NRegs) /\ s + NRegs - 1 - (s + k) = NRegs - 1 - k  BY <1>2, <2>1
  <2> QED  BY <2>2, <2>3, <2>4
<1>7. FramesOf(id, Pushed, g_stack) = Frames
  <2>1. Frames = FramesOf(id, g_stack_array, g_stack)  BY <1>1, FramesAre
  <2>2. \A k \in g_stack .. STACK_SIZE - 1 : id[Pushed[k]] = id[g_stack_array[k]]  BY <1>5
  <2> QED  BY <1>3, <2>1, <2>2, SameFrames
<1> QED  BY <1>4, <1>5, <1>6, <1>7

LEMMA PushFrameSeen ==
  ASSUME IInv, RInv, gc_push_frame
  PROVE  RInv' /\ AbsStep
<1>1. phase = "run"  BY DEF gc_push_frame
<1>2. CASE g_stack < GC_FRAME_SIZE
  <2>1. Stop("stack full")  BY <1>2 DEF gc_push_frame
  <2> QED  BY <2>1, StopUnseen DEF AbsStep
<1>3. CASE ~(g_stack < GC_FRAME_SIZE)
  <2> DEFINE s == g_stack - GC_FRAME_SIZE
  <2>1. /\ g_stack_array' = Pushed /\ g_stack' = s
        /\ UNCHANGED <<mem, id, home, g_free, g_news, phase, regs, globals>>
    BY <1>3 DEF gc_push_frame, history, Collector
  <2>2. RInv'
    <3>1. \A a \in 0 .. g_free - 1 : mem'[a].type # "TBROKEN_HEART"  BY <1>1, <2>1, RunHome
    <3>2. UNCHANGED <<id, home, g_free, g_news, phase>>  BY <2>1
    <3> QED  BY <1>1, <3>1, <3>2, QuietHomes
  <2>3. Store' = Store /\ Registers' = Registers /\ GlobalObjects' = GlobalObjects
    BY <2>1 DEF Store, Objects, Registers, GlobalObjects
  <2>4. /\ s \in Nat /\ s + GC_FRAME_SIZE = g_stack
        /\ \A k \in 0 .. NRegs : Pushed[s + k] = IF k = NRegs THEN cell_f ELSE regs[NRegs - 1 - k]
        /\ FramesOf(id, Pushed, g_stack) = Frames
    BY <1>1, <1>3, PushedFrames
  <2>5. g_stack \in 0 .. STACK_SIZE /\ STACK_SIZE \in Nat  BY <1>1, RunHome, SizesAssumption DEF Types
  <2> HIDE DEF s
  <2>6. Frames' = FramesOf(id, Pushed, s)
    <3>1. FrameStart' = s  BY <1>1, <2>1, RunHome DEF FrameStart
    <3>2. Frames' = FramesOf(id', g_stack_array', FrameStart')  BY FramesAre DEF Frames, FramesOf, FrameIn
    <3> QED  BY <2>1, <3>1, <3>2
  <2>7. Frames' = <<FrameIn(id, Pushed, s)>> \o Frames /\ Len(Frames) < STACK_SIZE \div GC_FRAME_SIZE
    <3>1. s + GC_FRAME_SIZE <= STACK_SIZE  BY <2>4, <2>5
    <3>2. /\ FramesOf(id, Pushed, s) = <<FrameIn(id, Pushed, s)>> \o FramesOf(id, Pushed, s + GC_FRAME_SIZE)
          /\ Len(FramesOf(id, Pushed, s + GC_FRAME_SIZE)) < STACK_SIZE \div GC_FRAME_SIZE
      BY <2>4, <3>1, MoreFrames
    <3>3. FramesOf(id, Pushed, s + GC_FRAME_SIZE) = Frames  BY <2>4
    <3> QED  BY <2>6, <3>2, <3>3
  <2>8. FrameIn(id, Pushed, s) = [k \in 0 .. NRegs |-> IF k = NRegs THEN cell_f ELSE Registers[NRegs - 1 - k]]
    <3>1. ASSUME NEW k \in 0 .. NRegs
          PROVE  id[Pushed[s + k]] = IF k = NRegs THEN cell_f ELSE Registers[NRegs - 1 - k]
      <4>1. k # NRegs => NRegs - 1 - k \in Regs  BY SizesAssumption DEF Regs
      <4>2. id[cell_f] = cell_f  BY <1>1, ConstantObject
      <4> QED  BY <2>4, <4>1, <4>2 DEF Registers
    <3> QED  BY <3>1 DEF FrameIn
  <2>9. Abs!Push  BY <2>3, <2>7, <2>8 DEF Abs!Push
  <2>10. Abs!Next  BY <2>9 DEF Abs!Next
  <2> QED  BY <2>2, <2>10 DEF AbsStep
<1> QED  BY <1>2, <1>3

LEMMA PopFrameSeen ==
  ASSUME IInv, RInv, gc_pop_frame
  PROVE  RInv' /\ AbsStep
<1>1. /\ phase = "run" /\ g_stack + GC_FRAME_SIZE <= STACK_SIZE
      /\ regs' = Popped(g_stack_array) /\ g_stack_array' = Cleared(g_stack_array)
      /\ g_stack' = g_stack + GC_FRAME_SIZE
      /\ UNCHANGED <<mem, id, home, g_free, g_news, phase, globals>>
  BY DEF gc_pop_frame, history, Collector
<1>2. Types /\ FrameStart = g_stack /\ g_news = 0  BY <1>1, RunHome
<1>3. /\ g_stack \in 0 .. STACK_SIZE /\ g_stack \in Nat /\ g_free \in Nat
      /\ DOMAIN g_stack_array = 0 .. STACK_SIZE - 1
      /\ \A k \in g_stack .. STACK_SIZE - 1 : g_stack_array[k] \in 0 .. g_free
  BY <1>2 DEF Types
<1>4. /\ g_stack + GC_FRAME_SIZE \in 0 .. STACK_SIZE
      /\ \A r \in Regs : Popped(g_stack_array)[r] = g_stack_array[g_stack + NRegs - 1 - r]
      /\ \A k \in g_stack + GC_FRAME_SIZE .. STACK_SIZE - 1 : Cleared(g_stack_array)[k] = g_stack_array[k]
  <2>1. g_stack + GC_FRAME_SIZE <= STACK_SIZE  BY <1>1
  <2>2. PICK a : a = g_stack_array  OBVIOUS
  <2>3. DOMAIN a = 0 .. STACK_SIZE - 1 /\ \A k \in g_stack .. STACK_SIZE - 1 : a[k] \in 0 .. g_free
    BY <1>3, <2>2
  <2>4. /\ g_stack + GC_FRAME_SIZE \in 0 .. STACK_SIZE
        /\ \A r \in Regs : Popped(a)[r] = a[g_stack + NRegs - 1 - r]
        /\ \A k \in g_stack + GC_FRAME_SIZE .. STACK_SIZE - 1 : Cleared(a)[k] = a[k]
    <3>1. g_stack \in 0 .. STACK_SIZE /\ g_free \in Nat  BY <1>3
    <3> QED  BY <2>1, <2>3, <3>1, PoppedFrame
  <2> QED  BY <2>2, <2>4
<1>5. RInv'
  <2>1. \A a \in 0 .. g_free - 1 : mem'[a].type # "TBROKEN_HEART"  BY <1>1, RunHome
  <2>2. UNCHANGED <<id, home, g_free, g_news, phase>>  BY <1>1
  <2> QED  BY <1>1, <2>1, <2>2, QuietHomes
<1>6. Store' = Store /\ GlobalObjects' = GlobalObjects  BY <1>1 DEF Store, Objects, GlobalObjects
<1>7. Frames = FramesOf(id, g_stack_array, g_stack)  BY <1>2, FramesAre
<1>8. /\ Frames # <<>> /\ Head(Frames) = FrameIn(id, g_stack_array, g_stack)
      /\ Tail(Frames) = FramesOf(id, g_stack_array, g_stack + GC_FRAME_SIZE)
  BY <1>1, <1>3, <1>7, MoreFrames
<1>9. Frames' = Tail(Frames)
  <2>1. FrameStart' = g_stack + GC_FRAME_SIZE  BY <1>1, <1>2 DEF FrameStart
  <2>2. Frames' = FramesOf(id', g_stack_array', FrameStart')  BY FramesAre DEF Frames, FramesOf, FrameIn
  <2>3. Frames' = FramesOf(id, Cleared(g_stack_array), g_stack + GC_FRAME_SIZE)  BY <1>1, <2>1, <2>2
  <2>4. \A k \in g_stack + GC_FRAME_SIZE .. STACK_SIZE - 1 : id[Cleared(g_stack_array)[k]] = id[g_stack_array[k]]
    BY <1>4
  <2>5. FramesOf(id, Cleared(g_stack_array), g_stack + GC_FRAME_SIZE)
        = FramesOf(id, g_stack_array, g_stack + GC_FRAME_SIZE)
    BY <1>4, <2>4, SameFrames
  <2> QED  BY <1>8, <2>3, <2>5
<1>10. Registers' = [r \in Regs |-> Head(Frames)[NRegs - 1 - r]]
  <2>1. ASSUME NEW r \in Regs PROVE id'[regs'[r]] = Head(Frames)[NRegs - 1 - r]
    <3>1. NRegs - 1 - r \in 0 .. NRegs /\ g_stack + (NRegs - 1 - r) = g_stack + NRegs - 1 - r
      BY <1>3, SizesAssumption DEF Regs
    <3>2. FrameIn(id, g_stack_array, g_stack)[NRegs - 1 - r] = id[g_stack_array[g_stack + (NRegs - 1 - r)]]
      BY <3>1 DEF FrameIn
    <3> QED  BY <1>1, <1>4, <1>8, <3>1, <3>2
  <2> QED  BY <2>1 DEF Registers
<1>11. Abs!Pop  BY <1>6, <1>8, <1>9, <1>10, SameRegs DEF Abs!Pop
<1>12. Abs!Next  BY <1>11 DEF Abs!Next
<1> QED  BY <1>5, <1>12 DEF AbsStep

LEMMA VectorSetSeen ==
  ASSUME IInv, RInv, ~Interior, NEW x \in Regs, NEW e \in Regs, NEW i \in 0 .. ARENA_SIZE, vector_set_x_(x, i, e)
  PROVE  RInv' /\ AbsStep
<1>1. phase = "run" /\ IsVector(regs[x]) /\ i < mem[regs[x]].car  BY DEF vector_set_x_
<1>2. /\ Types /\ Run /\ g_free \in Nat \ {0} /\ mem \in [Addr -> Cells]
      /\ \A a \in 0 .. g_free - 1 : a \in Addr
  <2>1. Types /\ Run /\ g_free \in Nat \ {0}  BY <1>1, RunHome
  <2> QED  BY <2>1, Layout DEF Types
<1> DEFINE n == mem[regs[x]].car
           w == mem[regs[x]].cdr + i
           entry == vector_entry(regs[e])
           v == Abs!Entry(Registers[e])
           F == Fields(mem, id, regs[x])
<1>3. /\ Store[Registers[x]].type = "TVECTOR" /\ n \in Nat /\ mem[regs[x]].cdr = regs[x] + 1
      /\ DOMAIN Store[Registers[x]].fields = 1 .. n
  BY <1>1, VectorField
<1>4. i \in Nat /\ i \in 0 .. n - 1 /\ i + 1 \in 1 .. n  BY <1>1, <1>3
<1>5. w \in Addr /\ w \in 0 .. g_free - 1 /\ mem[w].type \in EntryTypes
  BY <1>1, <1>2, <1>4, ElementIsEntry DEF Element
<1>6. regs[x] \in 0 .. g_free - 1 /\ regs[x] \in Int /\ ObjectAt(mem, id, regs[x], g_free)
  BY <1>1, <1>2, RegisterObject, RegisterStore
<1>7. w = regs[x] + (i + 1) /\ w # regs[x] /\ w \in Rest(mem, regs[x])
  <2>1. w = regs[x] + (i + 1) /\ w # regs[x]  BY <1>3, <1>4, <1>6
  <2>2. Shaped(mem, id, regs[x], g_free) /\ mem[regs[x]].type \in VectorTypes
    BY <1>1, <1>6 DEF ObjectAt, Sound, IsVector, VectorTypes
  <2>3. \A k \in 1 .. mem[regs[x]].car : regs[x] + k \in Rest(mem, regs[x])
    BY <1>2, <1>6, <2>2, VectorRest
  <2> QED  BY <1>4, <2>1, <2>3
<1>8. entry.type \in EntryTypes /\ (entry.type \in CarTypes => entry.car \in 0 .. g_free - 1)
  <2>1. entry.type \in CarTypes => Refers(mem, id, entry.car, 1, g_free - 1)  BY <1>2, EntryOfObject
  <2>2. entry.type \in EntryTypes  BY <1>2, EntryOfObject
  <2>3. \A p : Refers(mem, id, p, 1, g_free - 1) => p \in 0 .. g_free - 1  BY <1>1, RunHome
  <2> QED  BY <2>1, <2>2, <2>3
<1>9. CASE Stop("out of memory")  BY <1>9, StopUnseen DEF AbsStep
<1>10. ASSUME NEW m, NEW block, NEW ids, SetsElement(x, i, e, m, block, ids)
       PROVE  RInv' /\ AbsStep
  <2>1. /\ m = [mem EXCEPT ![w] = entry] /\ m \in [Addr -> Cells] /\ Makes(block, ids, m)
        /\ \A a \in 0 .. g_free - 1 : m[a].type # "TBROKEN_HEART"
        /\ \A k \in 1 .. Len(block) : block[k] = entry /\ ids[k] = NoId
        /\ UNCHANGED Collector
    BY <1>10 DEF SetsElement, RunCells, Sound
  <2>2. UNCHANGED <<regs, globals, g_stack, g_stack_array, g_news>>  BY <1>10 DEF SetsElement, Collector
  <2>3. \A k \in 1 .. Len(block) : block[k].type # "TBROKEN_HEART"  BY <1>8, <2>1 DEF EntryTypes
  <2>4. {ids[k] : k \in 1 .. Len(ids)} \ {NoId} = {}
    <3>1. Len(ids) = Len(block)  BY <2>1 DEF Makes
    <3> QED  BY <2>1, <3>1
  <2> HIDE DEF entry, v, w, n, F
  <2>5. /\ DOMAIN home' = DOMAIN home \cup ({ids[k] : k \in 1 .. Len(ids)} \ {NoId})
        /\ \A o \in DOMAIN home : home'[o] = home[o]
        /\ \A k \in 1 .. Len(ids) : ids[k] # NoId => home'[ids[k]] = g_free + k - 1
        /\ \A p \in 0 .. g_free - 1 : id'[p] = id[p] /\ mem'[p] = m[p]
        /\ \A k \in 1 .. Len(ids) : id'[g_free + k - 1] = ids[k] /\ mem'[g_free + k - 1] = block[k]
        /\ RInv'
    <3>1. phase = "run"  BY <1>1
    <3>2. m \in [Addr -> Cells] /\ Makes(block, ids, m)  BY <2>1
    <3>3. \A a \in 0 .. g_free - 1 : m[a].type # "TBROKEN_HEART"  BY <2>1
    <3>4. UNCHANGED Collector  BY <2>1
    <3> QED  BY <3>1, <3>2, <3>3, <3>4, <2>3, MadeHomes
  <2>6. /\ DOMAIN home' = DOMAIN home
        /\ \A p \in 0 .. g_free - 1 : id'[p] = id[p]
        /\ \A p \in 0 .. g_free - 1 : p # w => mem'[p] = mem[p]
        /\ mem'[w] = entry
    BY <1>2, <1>5, <2>1, <2>4, <2>5
  <2>7. Contents(mem', id', regs[x]) = Object("TVECTOR", [F EXCEPT ![i + 1] = v])
    <3>1. mem'[regs[x]] = mem[regs[x]]  BY <1>6, <1>7, <2>6
    <3>2. mem[regs[x]].type = "TVECTOR"  BY <1>1 DEF IsVector
    <3>3. ASSUME NEW a, mem'[a].type = "TVECTOR"
          PROVE  Fields(mem', id', a) = [k \in 1 .. mem'[a].car |-> EntryOf(id', mem'[mem'[a].cdr + k - 1])]
      BY <3>3, ContentsOf DEF VectorTypes
    <3>4. F = [k \in 1 .. n |-> EntryOf(id, mem[mem[regs[x]].cdr + k - 1])]
      <4>1. ASSUME NEW a, mem[a].type = "TVECTOR"
            PROVE  Fields(mem, id, a) = [k \in 1 .. mem[a].car |-> EntryOf(id, mem[mem[a].cdr + k - 1])]
        BY <4>1, ContentsOf DEF VectorTypes
      <4> QED  BY <3>2, <4>1 DEF F, n
    <3>5. Fields(mem', id', regs[x]) = [k \in 1 .. n |-> EntryOf(id', mem'[mem[regs[x]].cdr + k - 1])]
      <4>1. mem'[regs[x]].type = "TVECTOR"  BY <3>1, <3>2
      <4>2. Fields(mem', id', regs[x]) =
              [k \in 1 .. mem'[regs[x]].car |-> EntryOf(id', mem'[mem'[regs[x]].cdr + k - 1])]
        BY <3>3, <4>1
      <4> QED  BY <3>1, <4>2 DEF n
    <3>6. ASSUME NEW k \in 1 .. n, k # i + 1
          PROVE  EntryOf(id', mem'[mem[regs[x]].cdr + k - 1]) = EntryOf(id, mem[mem[regs[x]].cdr + k - 1])
      <4> DEFINE j == k - 1
                 p == mem[regs[x]].cdr + j
      <4>1. j \in Nat  BY <1>3
      <4>2. j \in Nat /\ j < mem[regs[x]].car /\ mem[regs[x]].cdr + k - 1 = p /\ p # w
        BY <1>3, <1>4, <1>6, <1>7, <3>6 DEF n
      <4>3. /\ p \in 0 .. g_free - 1 /\ mem[p].type \in EntryTypes
            /\ mem[p].type \in CarTypes => Refers(mem, id, mem[p].car, 1, g_free - 1)
        BY <1>1, <1>2, <4>2, ElementIsEntry DEF Element
      <4>4. mem[p].type = "TREF" => id'[mem[p].car] = id[mem[p].car]
        <5>1. mem[p].type = "TREF" => mem[p].car \in 0 .. g_free - 1  BY <1>1, <4>3, RunHome DEF CarTypes
        <5> QED  BY <2>6, <5>1
      <4>5. mem'[p] = mem[p]  BY <2>6, <4>2, <4>3
      <4> HIDE DEF p
      <4>6. EntryOf(id', mem'[p]) = EntryOf(id, mem[p])  BY <4>4, <4>5 DEF EntryOf
      <4> QED  BY <4>2, <4>6
    <3>7. EntryOf(id', mem'[mem[regs[x]].cdr + (i + 1) - 1]) = v
      <4>1. mem[regs[x]].cdr + (i + 1) - 1 = w  BY <1>3, <1>4, <1>6, <1>7
      <4>2. EntryOf(id', entry) = v  BY <1>1, <2>6, EntryIs DEF entry, v
      <4> QED  BY <2>6, <4>1, <4>2
    <3>8. Fields(mem', id', regs[x]) = [F EXCEPT ![i + 1] = v]  BY <3>4, <3>5, <3>6, <3>7
    <3> QED  BY <3>1, <3>2, <3>8 DEF Contents
  <2>8. /\ Store' = [Store EXCEPT ![Registers[x]].fields[i + 1] = v]
        /\ Registers' = Registers /\ Frames' = Frames /\ GlobalObjects' = GlobalObjects
    <3>1. WritesField(x, i + 1, v)  BY <1>1, <2>7 DEF WritesField, IsVector, F
    <3>2. \A o \in DOMAIN home : home'[o] = home[o]  BY <2>5
    <3>3. WritesCell(x, w)  BY <1>7, <2>2, <2>6, <3>2 DEF WritesCell
    <3> QED  BY <1>1, <3>1, <3>3, SetSeen
  <2>9. Abs!VectorSet(x, i + 1, e)  BY <1>3, <1>4, <2>8 DEF Abs!VectorSet, v
  <2>10. i + 1 \in DOMAIN Store[Registers[x]].fields  BY <1>3, <1>4 DEF n
  <2>11. Abs!Next  BY <2>9, <2>10, SameRegs DEF Abs!Next
  <2> QED  BY <2>5, <2>11 DEF AbsStep
<1> QED  BY <1>2, <1>9, <1>10, VectorSetMade

\* A step of the program is an operation of the abstract heap.
LEMMA ProgramSeen ==
  ASSUME IInv, RInv, ~Interior, Program
  PROVE  RInv' /\ AbsStep
<1>1. CASE \E r, a, d \in Regs : cons(r, a, d)  BY <1>1, ConsSeen
<1>2. CASE \E r, a \in Regs, lexical_p \in {0, 1} : make_binding_(r, a, lexical_p)  BY <1>2, MakeBindingSeen
<1>3. CASE \E r, d \in Regs : make_closure_(r, d)  BY <1>3, MakeClosureSeen
<1>4. CASE \E r \in Regs, v \in Values : make_number(r, v)  BY <1>4, MakeNumberSeen
<1>5. CASE \E r \in Regs, v \in Values : make_string(r, v)  BY <1>5, MakeStringSeen
<1>6. CASE \E r, e \in Regs, k \in Lengths : make_vector_(r, k, e)  BY <1>6, MakeVectorSeen
<1>7. CASE \E r, x \in Regs, i \in 0 .. ARENA_SIZE : vector_ref_(r, x, i)  BY <1>7, VectorRefSeen
<1>8. CASE \E x, e \in Regs, i \in 0 .. ARENA_SIZE : vector_set_x_(x, i, e)  BY <1>8, VectorSetSeen
<1>9. CASE \E r, x \in Regs : vector_to_list(r, x)  BY <1>9, VectorToListSeen
<1>10. CASE \E r, x \in Regs : car(r, x)  BY <1>10, CarSeen
<1>11. CASE \E r, x \in Regs : cdr(r, x)  BY <1>11, CdrSeen
<1>12. CASE \E x, e \in Regs : set_car_x(x, e)  BY <1>12, SetCarSeen
<1>13. CASE \E x, e \in Regs : set_cdr_x(x, e)  BY <1>13, SetCdrSeen
<1>14. CASE \E g \in Assigned, r \in Regs : SetGlobal(g, r)  BY <1>14, SetGlobalSeen
<1>15. CASE gc_push_frame  BY <1>15, PushFrameSeen
<1>16. CASE gc_pop_frame  BY <1>16, PopFrameSeen
<1> QED  BY <1>1, <1>2, <1>3, <1>4, <1>5, <1>6, <1>7, <1>8, <1>9, <1>10, <1>11, <1>12, <1>13, <1>14, <1>15, <1>16
         DEF Program

-----------------------------------------------------------------------------
(***************************************************************************)
(* The collector.                                                          *)
(***************************************************************************)
LEMMA GcCheckSeen ==
  ASSUME IInv, RInv, gc_check
  PROVE  RInv' /\ UNCHANGED Abs!vars
<1>1. phase = "run" /\ gc  BY DEF gc_check
<1>2. CASE g_stack < GC_FRAME_SIZE
  <2>1. Stop("stack full")  BY <1>1, <1>2 DEF gc
  <2> QED  BY <2>1, StopUnseen
<1>3. CASE ~(g_stack < GC_FRAME_SIZE) /\ g_free + 2 > MemTop
  <2>1. Stop("overrun")  BY <1>1, <1>3 DEF gc
  <2> QED  BY <2>1, StopUnseen
<1>4. CASE ~(g_stack < GC_FRAME_SIZE) /\ ~(g_free + 2 > MemTop)
  <2>1. /\ g_stack_array' = Pushed /\ g_stack' = g_stack - GC_FRAME_SIZE
        /\ mem' = [mem EXCEPT ![g_free] = Cell("TVECTOR", 1000, g_free + 1), ![g_free + 1] = Cell("TCHAR", 0, 0)]
        /\ g_news' = g_free + 1 /\ g_free' = g_free + 2 /\ phase' = "roots"
        /\ regs' = regs /\ globals' = globals /\ id' = id /\ home' = home
    BY <1>1, <1>4 DEF gc, gc_init_news, history
  <2>2. /\ Types /\ g_free \in Nat \ {0} /\ AtHome(mem, id, home, g_free) /\ mem \in [Addr -> Cells]
        /\ \A a \in Addr : a >= g_free => id[a] = NoId
        /\ g_stack \in 0 .. STACK_SIZE /\ g_stack \in Int
    <3>1. Types /\ g_free \in Nat \ {0} /\ AtHome(mem, id, home, g_free)  BY <1>1, RunHome
    <3> QED  BY <3>1 DEF Types
  <2>3. /\ g_stack - GC_FRAME_SIZE \in Nat /\ (g_stack - GC_FRAME_SIZE) + GC_FRAME_SIZE = g_stack
        /\ \A k \in 0 .. NRegs : Pushed[g_stack - GC_FRAME_SIZE + k] =
                                   IF k = NRegs THEN cell_f ELSE regs[NRegs - 1 - k]
        /\ FramesOf(id, Pushed, g_stack) = Frames
    BY <1>1, <1>4, PushedFrames
  <2>4. \A a \in 0 .. g_free - 1 : mem'[a] = mem[a]
    <3>1. \A a \in 0 .. g_free - 1 : a \in Addr /\ a # g_free /\ a # g_free + 1  BY <1>4, <2>2, Layout
    <3> QED  BY <2>1, <2>2, <3>1
  <2>5. Store' = Store
    <3>1. ASSUME NEW o \in DOMAIN home PROVE Contents(mem', id', home[o]) = Contents(mem, id, home[o])
      <4>0. ObjectAt(mem, id, home[o], g_free)  BY <1>1, RunHome
      <4>1. ObjectAt(mem, id, home[o], g_free) /\ home[o] \in 0 .. g_free - 1  BY <4>0 DEF ObjectAt
      <4>2. home[o] \in Addr /\ Shaped(mem, id, home[o], g_free)  BY <1>4, <2>2, <4>1, Layout DEF ObjectAt, Sound
      <4>3. Size(mem[home[o]]) \in Nat \ {0}  BY <2>2, <4>2, ShapedSize
      <4>4. \A j : j = home[o] \/ j \in Rest(mem, home[o]) => mem'[j] = mem[j]
        <5>1. \A j \in Rest(mem, home[o]) : j \in 0 .. g_free - 1  BY <2>2, <4>1, <4>2, <4>3 DEF Rest, Shaped
        <5> QED  BY <2>4, <4>1, <5>1
      <4>5. \A p \in 0 .. g_free - 1 : id'[p] = id[p]  BY <2>1
      <4>6. g_free \in Nat  BY <2>2
      <4> QED  BY <4>0, <4>4, <4>5, <4>6, KeptCells, SMTT(60)
    <3>2. home' = home  BY <2>1
    <3>3. \A o \in DOMAIN home : Contents(mem', id', home'[o]) = Contents(mem, id, home[o])
      BY <3>1, <3>2
    <3> QED  BY <3>2, <3>3, Zenon DEF Store, Objects
  <2>6. Registers' = Registers /\ GlobalObjects' = GlobalObjects  BY <2>1 DEF Registers, GlobalObjects
  <2>7. Frames' = Frames
    <3>1. FrameStart' = g_stack
      <4>1. g_news' # 0  BY <2>1, <2>2
      <4> QED  BY <2>1, <2>3, <4>1 DEF FrameStart
    <3>2. Frames' = FramesOf(id', g_stack_array', FrameStart')  BY FramesAre DEF Frames, FramesOf, FrameIn
    <3> QED  BY <2>1, <2>3, <3>1, <3>2
  <2>8. AtHome(mem', id', home', g_free')
    <3>1. SUFFICES ASSUME NEW a \in 0 .. g_free + 1, id[a] # NoId
                   PROVE  /\ id[a] \in DOMAIN home
                          /\ home[id[a]] = IF mem'[a].type = "TBROKEN_HEART" THEN mem'[a].car ELSE a
      <4>1. id' = id /\ home' = home /\ 0 .. g_free' - 1 = 0 .. g_free + 1  BY <2>1, <2>2
      <4> QED  BY <4>1 DEF AtHome
    <3>2. a \in 0 .. g_free - 1  BY <1>4, <2>2, <3>1, Layout
    <3> QED  BY <2>2, <2>4, <3>1, <3>2 DEF AtHome
  <2>9. Saved'
    <3>1. ASSUME NEW r \in Regs
          PROVE  /\ regs[r] \in 1 .. (g_free + 1) - 2
                 /\ id[Pushed[(g_stack - GC_FRAME_SIZE) + NRegs - 1 - r]] = id[regs[r]]
      <4>1. regs[r] \in 1 .. g_free - 1  BY <1>1, RegisterObject
      <4>2. /\ NRegs - 1 - r \in 0 .. NRegs /\ NRegs - 1 - r # NRegs /\ NRegs - 1 - (NRegs - 1 - r) = r
            /\ (g_stack - GC_FRAME_SIZE) + NRegs - 1 - r = g_stack - GC_FRAME_SIZE + (NRegs - 1 - r)
        BY <2>3, SizesAssumption DEF Regs
      <4>3. Pushed[g_stack - GC_FRAME_SIZE + (NRegs - 1 - r)] = regs[r]  BY <2>3, <4>2
      <4> QED  BY <2>2, <4>1, <4>2, <4>3
    <3> QED  BY <2>1, <3>1 DEF Saved
  <2>10. RInv'  BY <2>1, <2>8, <2>9 DEF RInv, Collecting
  <2> QED  BY <2>5, <2>6, <2>7, <2>10, Unseen
<1> QED  BY <1>2, <1>3, <1>4

\* A step of the collector that moves no object the program holds.
LEMMA CollectorUnseen ==
  ASSUME IInv, RInv, Collecting, Collecting', UNCHANGED <<g_news, g_stack, regs>>,
         Store' = Store, AtHome(mem', id', home', g_free'), \A p \in 0 .. g_free - 1 : id'[p] = id[p],
         \A k \in g_stack .. STACK_SIZE - 1 : id'[g_stack_array'[k]] = id[g_stack_array[k]],
         \A g \in Globals : id'[globals'[g]] = id[globals[g]]
  PROVE  RInv' /\ UNCHANGED Abs!vars
<1>1. Types /\ Collection /\ Saved  BY DEF IInv, RInv
<1>2. g_news \in Nat /\ g_news > 2 /\ g_free \in Nat /\ g_news < g_free  BY <1>1, Spaces
<1>3. /\ g_stack \in 0 .. STACK_SIZE /\ g_stack + GC_FRAME_SIZE <= STACK_SIZE
      /\ NRegs \in Nat \ {0} /\ STACK_SIZE \in Nat /\ GC_FRAME_SIZE = NRegs + 1
  BY <1>1, SizesAssumption DEF Types, Collection, GC_FRAME_SIZE
<1>4. \A r \in Regs : id'[regs[r]] = id[regs[r]]  BY <1>1, <1>2 DEF Saved
<1>5. Registers' = Registers /\ GlobalObjects' = GlobalObjects  BY <1>4 DEF Registers, GlobalObjects
<1>6. Frames' = Frames
  <2> DEFINE s == g_stack + GC_FRAME_SIZE
  <2>1. FrameStart = s /\ FrameStart' = s  BY <1>2 DEF FrameStart
  <2>2. Frames = FramesOf(id, g_stack_array, s)  BY <2>1, FramesAre
  <2>3. Frames' = FramesOf(id', g_stack_array', s)
    <3>1. Frames' = FramesOf(id', g_stack_array', FrameStart')  BY FramesAre DEF Frames, FramesOf, FrameIn
    <3> QED  BY <2>1, <3>1
  <2>4. s \in 0 .. STACK_SIZE /\ \A k \in s .. STACK_SIZE - 1 : k \in g_stack .. STACK_SIZE - 1  BY <1>3
  <2> HIDE DEF s
  <2>5. \A k \in s .. STACK_SIZE - 1 : id'[g_stack_array'[k]] = id[g_stack_array[k]]  BY <2>4
  <2> QED  BY <2>2, <2>3, <2>4, <2>5, SameFrames
<1>7. Saved'
  <2>1. ASSUME NEW r \in Regs
        PROVE  id'[g_stack_array'[g_stack + NRegs - 1 - r]] = id'[regs[r]] /\ regs[r] \in 1 .. g_news - 2
    <3>1. g_stack + NRegs - 1 - r \in g_stack .. STACK_SIZE - 1  BY <1>3 DEF Regs
    <3> QED  BY <1>1, <1>4, <3>1 DEF Saved
  <2> QED  BY <2>1 DEF Saved
<1>8. RInv'  BY <1>7 DEF RInv, Collecting
<1> QED  BY <1>5, <1>6, <1>8, Unseen

\* Saying the same is transitive.
LEMMA SameTwice ==
  ASSUME NEW c, NEW i, NEW C, NEW I, NEW D, NEW J, Same(c, i, C, I), Same(C, I, D, J)
  PROVE  Same(c, i, D, J)
  BY DEF Same

\* gc_copy, and what gc_loop then writes into the cell it scans, change no
\* object, and an object that is copied has its home in the new space.
LEMMA CopySeen ==
  ASSUME IInv, RInv, ~Interior, Collecting, NEW old, Refers(mem, id, old, 1, g_news - 2),
         NEW M, Copies(old, M, id', home', g_free'),
         \A a \in Addr : Same(M[a], id', mem'[a], id'),
         \A a \in Addr : M[a].type \in VectorTypes \cup {"TBROKEN_HEART"} => mem'[a] = M[a]
  PROVE  /\ Store' = Store
         /\ AtHome(mem', id', home', g_free')
         /\ \A p \in 0 .. g_free - 1 : id'[p] = id[p]
<1>1. Types /\ Collection /\ AtHome(mem, id, home, g_free)  BY DEF IInv, RInv
<1>2. /\ g_news \in Nat /\ g_news > 2 /\ g_free \in Nat /\ g_news < g_free
      /\ g_free <= MemTop /\ MemTop \in Nat /\ Addr = 0 .. MemTop - 1
      /\ mem \in [Addr -> Cells] /\ id \in [Addr -> Ids \cup {NoId}]
  BY <1>1, Spaces
<1>3. /\ DOMAIN home' = DOMAIN home /\ \A p \in 0 .. g_free - 1 : id'[p] = id[p]
      /\ \A a \in 0 .. g_free - 1 : a # old => M[a] = mem[a]
  BY <1>1, CopyKeeps DEF Keeps
<1>4. \A a \in 0 .. g_free - 1 : a \in Addr  BY <1>2
<1>5. old \in 1 .. g_news - 2 /\ old \in 0 .. g_free - 1 /\ old \in Int /\ id[old] # NoId  BY <1>2 DEF Refers
<1>6. ASSUME NEW o \in DOMAIN home
      PROVE  /\ ObjectAt(mem, id, home[o], g_free) /\ id[home[o]] = o /\ o # NoId
             /\ home[o] \in 0 .. g_free - 1
             /\ \A j \in Rest(mem, home[o]) : j \in 0 .. g_free - 1 /\ id[j] = NoId
  <2>1. ObjectAt(mem, id, home[o], g_free) /\ id[home[o]] = o /\ o # NoId  BY <1>1, HomeObjects
  <2>2. home[o] \in 0 .. g_free - 1 /\ Shaped(mem, id, home[o], g_free)  BY <2>1 DEF ObjectAt, Sound
  <2>3. Size(mem[home[o]]) \in Nat \ {0}  BY <1>2, <1>4, <2>2, ShapedSize
  <2>4. \A j \in Rest(mem, home[o]) : j \in 0 .. g_free - 1  BY <1>2, <2>2, <2>3 DEF Rest, Shaped
  <2> QED  BY <2>1, <2>2, <2>4 DEF Shaped
\* A cell that gc_copy does not change.
<1>7. ASSUME NEW a \in 0 .. g_free - 1, M[a] = mem[a],
             CarRefers(mem, id, a, 1, g_free - 1), CdrRefers(mem, id, a, 1, g_free - 1)
      PROVE  Same(mem[a], id, mem'[a], id')
  <2>1. \A p \in 1 .. g_free - 1 : id'[p] = id[p]  BY <1>2, <1>3
  <2>2. Same(mem[a], id, M[a], id')  BY <1>2, <1>7, <2>1, SameCell
  <2>3. Same(M[a], id', mem'[a], id')  BY <1>4
  <2> QED  BY <2>2, <2>3, SameTwice
\* An object that gc_copy does not change.
<1>8. ASSUME NEW o \in DOMAIN home, M[home[o]] = mem[home[o]], \A j \in Rest(mem, home[o]) : M[j] = mem[j]
      PROVE  Contents(mem', id', home[o]) = Contents(mem, id, home[o])
  <2> DEFINE a == home[o]
  <2>1. ObjectAt(mem, id, a, g_free) /\ a \in 0 .. g_free - 1 /\ M[a] = mem[a]  BY <1>6, <1>8
  <2>2. \A j \in Rest(mem, a) : j \in 0 .. g_free - 1 /\ M[j] = mem[j]  BY <1>6, <1>8
  <2> HIDE DEF a
  <2>3. Same(mem[a], id, mem'[a], id')  BY <1>7, <2>1 DEF ObjectAt, Sound
  <2>4. mem[a].type \in VectorTypes => mem'[a] = mem[a]  BY <1>4, <2>1
  <2>5. ASSUME NEW j \in Rest(mem, a), mem[a].type \in VectorTypes PROVE Same(mem[j], id, mem'[j], id')
    <3>1. CarRefers(mem, id, j, 1, g_free - 1) /\ mem[j].type \in EntryTypes  BY <2>1, <2>5 DEF ObjectAt
    <3>2. CdrRefers(mem, id, j, 1, g_free - 1)  BY <3>1 DEF CdrRefers, CdrTypes, EntryTypes
    <3> QED  BY <1>7, <2>2, <3>1, <3>2
  <2>6. g_free \in Nat  BY <1>2
  <2> QED  BY <2>1, <2>3, <2>4, <2>5, <2>6, KeptObject DEF a
<1>9. \A a \in Addr : mem'[a].type = M[a].type  BY DEF Same
<1>10. CASE Forwarded(old)
  <2>1. M = mem /\ id' = id /\ home' = home /\ g_free' = g_free
    <3>1. g_free' = g_free  BY <1>2, <1>10 DEF Copies, Taken
    <3>2. M = mem  BY <1>10 DEF Copies, Copied
    <3>3. id' = id /\ home' = home  BY <1>10 DEF Copies
    <3> QED  BY <3>1, <3>2, <3>3
  <2>2. \A o \in DOMAIN home : Contents(mem', id', home[o]) = Contents(mem, id, home[o])  BY <1>8, <2>1
  <2>3. Store' = Store
    <3>1. home' = home  BY <2>1
    <3>2. \A o \in DOMAIN home : Contents(mem', id', home'[o]) = Contents(mem, id, home[o])  BY <2>2, <3>1
    <3> QED  BY <3>1, <3>2, Zenon DEF Store, Objects
  <2>4. AtHome(mem', id', home', g_free')
    <3>1. \A a \in 0 .. g_free - 1 :
            mem'[a].type = mem[a].type /\ (mem[a].type = "TBROKEN_HEART" => mem'[a] = mem[a])
      BY <1>4, <1>9, <2>1
    <3>2. home' = home /\ id' = id /\ g_free' = g_free  BY <2>1
    <3> QED  BY <1>1, <3>1, <3>2 DEF AtHome
  <2> QED  BY <1>3, <2>3, <2>4
<1>11. CASE ~Forwarded(old)
  <2>1. /\ g_free' = g_free + Size(mem[old]) /\ g_free' \in g_free + 1 .. MemTop
        /\ M[old].type = "TBROKEN_HEART" /\ M[old].car = g_free
        /\ M[g_free].type = mem[old].type /\ M[g_free].car = mem[old].car
        /\ mem[old].type \notin VectorTypes => M[g_free] = mem[old]
        /\ mem[old].type \in VectorTypes => M[g_free].cdr = g_free + 1
        /\ \A a \in g_free + 1 .. g_free' - 1 : M[a] = mem[old + a - g_free]
        /\ id'[g_free] = id[old] /\ \A a \in Addr : a # g_free => id'[a] = id[a]
    BY <1>1, <1>11, CopiedCells
  <2>2. home' = [o \in DOMAIN home |-> IF o = id[old] THEN g_free ELSE home[o]]  BY <1>11 DEF Copies
  <2>3. id[old] \in DOMAIN home /\ home[id[old]] = old  BY <1>1, <1>5, <1>11 DEF AtHome, Forwarded
  <2>4. g_free \in Addr /\ g_free' \in Nat  BY <1>2, <2>1
  <2>5. ASSUME NEW o \in DOMAIN home, o # id[old]
        PROVE  Contents(mem', id', home'[o]) = Contents(mem, id, home[o])
    <3>1. home'[o] = home[o]  BY <2>2, <2>5
    <3>2. home[o] # old /\ \A j \in Rest(mem, home[o]) : j # old  BY <1>5, <1>6, <2>5
    <3>3. M[home[o]] = mem[home[o]] /\ \A j \in Rest(mem, home[o]) : M[j] = mem[j]  BY <1>3, <1>6, <3>2
    <3>4. Contents(mem', id', home[o]) = Contents(mem, id, home[o])  BY <1>8, <3>3
    <3> QED  BY <3>1, <3>4
  <2>6. Contents(mem', id', g_free) = Contents(mem, id, old)
    <3>1. ObjectAt(mem, id, old, g_free)  BY <1>6, <2>3
    <3>2. CarRefers(mem, id, old, 1, g_free - 1) /\ CdrRefers(mem, id, old, 1, g_free - 1)
          /\ Shaped(mem, id, old, g_free)
      BY <3>1 DEF ObjectAt, Sound
    <3>3. \A p \in 1 .. g_free - 1 : id'[p] = id[p]  BY <1>2, <1>3
    <3>4. Same(mem[old], id, M[g_free], id')
      <4>1. mem[old].type \in CarTypes => id'[mem[old].car] = id[mem[old].car]  BY <3>2, <3>3 DEF CarRefers, Refers
      <4>2. mem[old].type \in CdrTypes => id'[mem[old].cdr] = id[mem[old].cdr]  BY <3>2, <3>3 DEF CdrRefers, Refers
      <4>3. mem[old].type \in CdrTypes => mem[old].type \notin VectorTypes  BY DEF CdrTypes, VectorTypes
      <4> QED  BY <2>1, <4>1, <4>2, <4>3 DEF Same
    <3>5. Same(M[g_free], id', mem'[g_free], id')  BY <2>4
    <3>6. Same(mem[old], id, mem'[g_free], id')  BY <3>4, <3>5, SameTwice
    <3>7. ASSUME mem[old].type \in VectorTypes
          PROVE  /\ mem[old].cdr = old + 1 /\ mem'[g_free].cdr = g_free + 1 /\ mem[old].car \in Nat
                 /\ \A k \in 1 .. mem[old].car :
                      mem[old + k].type \in EntryTypes /\ Same(mem[old + k], id, mem'[g_free + k], id')
      <4>1. /\ mem[old].cdr = old + 1 /\ mem[old].car \in Nat
            /\ \A k \in 1 .. mem[old].car : old + k \in Rest(mem, old)
        BY <1>2, <1>5, <3>2, <3>7, VectorRest
      <4>2. mem'[g_free].cdr = g_free + 1  BY <2>1, <2>4, <3>7
      <4>3. g_free' = g_free + 1 + mem[old].car  BY <1>2, <2>1, <3>7, <4>1 DEF Size
      <4>4. ASSUME NEW k \in 1 .. mem[old].car
            PROVE  mem[old + k].type \in EntryTypes /\ Same(mem[old + k], id, mem'[g_free + k], id')
        <5>1. CarRefers(mem, id, old + k, 1, g_free - 1) /\ mem[old + k].type \in EntryTypes
          BY <3>1, <3>7, <4>1 DEF ObjectAt
        <5>2. mem[old + k].type \notin CdrTypes  BY <5>1 DEF CdrTypes, EntryTypes
        <5>3. M[g_free + k] = mem[old + k] /\ g_free + k \in Addr
          <6>1. g_free + k \in g_free + 1 .. g_free' - 1 /\ old + (g_free + k) - g_free = old + k /\ g_free + k \in Addr
            BY <1>2, <1>5, <2>1, <4>1, <4>3
          <6> QED  BY <2>1, <6>1
        <5>4. Same(mem[old + k], id, M[g_free + k], id')
          BY <3>3, <5>1, <5>2, <5>3 DEF Same, CarRefers, Refers
        <5>5. Same(M[g_free + k], id', mem'[g_free + k], id')  BY <5>3
        <5>6. Same(mem[old + k], id, mem'[g_free + k], id')  BY <5>4, <5>5, SameTwice
        <5> QED  BY <5>1, <5>6
      <4> QED  BY <4>1, <4>2, <4>4
    <3>8. SameObject(mem, id, old, mem', id', g_free)  BY <3>6, <3>7 DEF SameObject
    <3>9. old \in Int /\ g_free \in Int  BY <1>2, <1>5
    <3> QED  BY <3>8, <3>9, SameContents
  <2>7. \A o \in DOMAIN home : Contents(mem', id', home'[o]) = Contents(mem, id, home[o])
    <3>1. home'[id[old]] = g_free  BY <2>2, <2>3
    <3>2. ASSUME NEW o \in DOMAIN home PROVE Contents(mem', id', home'[o]) = Contents(mem, id, home[o])
      <4>1. CASE o = id[old]  BY <2>3, <2>6, <3>1, <4>1
      <4>2. CASE o # id[old]  BY <2>5, <4>2
      <4> QED  BY <4>1, <4>2
    <3> QED  BY <3>2
  <2>8. Store' = Store
    <3>1. DOMAIN home' = DOMAIN home  BY <1>3
    <3> QED  BY <2>7, <3>1, Zenon DEF Store, Objects
  <2>9. ASSUME NEW a \in 0 .. g_free' - 1, id'[a] # NoId
        PROVE  id'[a] \in DOMAIN home' /\ home'[id'[a]] = IF mem'[a].type = "TBROKEN_HEART" THEN mem'[a].car ELSE a
    <3>1. a \in Addr /\ (a \in 0 .. g_free - 1 \/ a = g_free \/ a \in g_free + 1 .. g_free' - 1)  BY <1>2, <2>1
    <3>2. CASE a = old
      <4>1. mem'[a].type = "TBROKEN_HEART" /\ mem'[a].car = g_free  BY <2>1, <3>1, <3>2
      <4>2. id'[a] = id[old]  BY <1>3, <1>5, <3>2
      <4> QED  BY <1>3, <2>2, <2>3, <4>1, <4>2
    <3>3. CASE a # old /\ a \in 0 .. g_free - 1
      <4>1. id'[a] = id[a] /\ M[a] = mem[a]  BY <1>3, <3>3
      <4>2. mem'[a].type = mem[a].type /\ (mem[a].type = "TBROKEN_HEART" => mem'[a].car = mem[a].car)
        BY <1>9, <3>1, <4>1
      <4>3. id[a] \in DOMAIN home /\ home[id[a]] = IF mem[a].type = "TBROKEN_HEART" THEN mem[a].car ELSE a
        BY <1>1, <2>9, <3>3, <4>1 DEF AtHome
      <4>4. id[a] # id[old]
        <5>1. SUFFICES ASSUME mem[a].type = "TBROKEN_HEART", mem[a].car = old PROVE FALSE
          BY <2>3, <3>3, <4>3
        <5>2. a \in 0 .. g_news - 2 \/ a = g_news - 1 \/ a = g_news \/ a \in g_news + 1 .. g_free - 1
          BY <1>2, <3>3
        <5>3. a # g_news - 1 /\ a # g_news  BY <1>1, <2>9, <4>1 DEF Collection
        <5>4. a \notin g_news + 1 .. g_free - 1  BY <1>1, <5>1 DEF Collection, NewCell
        <5>5. Heart(mem, id, a, g_news, g_free)  BY <1>1, <5>1, <5>2, <5>3, <5>4 DEF Collection, OldCell
        <5>6. old \in g_news + 1 .. g_free - 1  BY <5>1, <5>5 DEF Heart, Refers
        <5> QED  BY <1>2, <1>5, <5>6
      <4>5. home'[id[a]] = home[id[a]]  BY <2>2, <4>3, <4>4
      <4> QED  BY <1>3, <4>1, <4>2, <4>3, <4>5
    <3>4. CASE a = g_free
      <4>1. mem'[a].type # "TBROKEN_HEART"  BY <1>9, <1>11, <2>1, <3>1, <3>4 DEF Forwarded
      <4>2. id'[a] = id[old] /\ home'[id[old]] = a  BY <2>1, <2>2, <2>3, <3>4
      <4> QED  BY <1>3, <2>3, <4>1, <4>2
    <3>5. CASE a \in g_free + 1 .. g_free' - 1
      <4>1. a # g_free /\ a >= g_free  BY <1>2, <3>5
      <4>2. id[a] = NoId  BY <1>1, <3>1, <4>1 DEF Types
      <4> QED  BY <2>1, <2>9, <3>1, <4>1, <4>2
    <3> QED  BY <3>1, <3>2, <3>3, <3>4, <3>5
  <2>10. AtHome(mem', id', home', g_free')  BY <2>9 DEF AtHome
  <2> QED  BY <1>3, <2>8, <2>10
<1> QED  BY <1>10, <1>11

\* What the slots of the stack and the C globals hold, while the collector runs.
LEMMA CollectorRoots ==
  ASSUME IInv, Collecting
  PROVE  /\ \A k \in g_stack .. STACK_SIZE - 1 : g_stack_array[k] \in 0 .. g_free - 1
         /\ \A g \in Globals : globals[g] \in 0 .. g_free - 1
<1>1. Types /\ Collection  BY DEF IInv
<1>2. g_news \in Nat /\ g_news > 2 /\ g_free \in Nat /\ g_news < g_free  BY <1>1, Spaces
<1>3. \A k, p : Root(mem, id, k, p, g_news, g_free) => p \in 0 .. g_free - 1  BY <1>2 DEF Root, Refers
<1>4. \A k \in g_stack .. STACK_SIZE - 1 : g_stack_array[k] \in 0 .. g_free - 1
  BY <1>1, <1>3 DEF Collection, Roots
<1>5. \A k \in 1 .. 7 : globals[GlobalNames[k]] \in 0 .. g_free - 1
  BY <1>1, <1>3, SevenGlobals DEF Collection, Roots
<1> QED  BY <1>4, <1>5, SevenGlobals

\* A step copies the root old, which is a symbol, or what a C global or a slot
\* of the stack refers to.
RootCopied(old) ==
  /\ phase = "roots" /\ NextRoot
  /\ UNCHANGED <<g_news, g_stack, regs>>
  /\ Refers(mem, id, old, 1, g_news - 2)
  /\ Copies(old, mem', id', home', g_free')
  /\ \A k \in g_stack .. STACK_SIZE - 1 :
       \/ g_stack_array'[k] = g_stack_array[k]
       \/ g_stack_array[k] = old /\ g_stack_array'[k] = NewOf(old)
  /\ \A g \in Globals :
       \/ globals'[g] = globals[g]
       \/ globals[g] = old /\ globals'[g] = NewOf(old)
  /\ \/ id[old] \in Symbols
     \/ \E g \in Globals : old = globals[g]
     \/ \E k \in g_stack .. STACK_SIZE - 1 : old = g_stack_array[k]

\* It changes nothing the program can see.
LEMMA RootSeen ==
  ASSUME IInv, RInv, ~Interior, NEW old, RootCopied(old)
  PROVE  RInv' /\ UNCHANGED Abs!vars
<1>0. /\ phase = "roots" /\ NextRoot /\ UNCHANGED <<g_news, g_stack, regs>>
      /\ Refers(mem, id, old, 1, g_news - 2) /\ Copies(old, mem', id', home', g_free')
      /\ \A k \in g_stack .. STACK_SIZE - 1 :
           \/ g_stack_array'[k] = g_stack_array[k]
           \/ g_stack_array[k] = old /\ g_stack_array'[k] = NewOf(old)
      /\ \A g \in Globals :
           \/ globals'[g] = globals[g]
           \/ globals[g] = old /\ globals'[g] = NewOf(old)
  BY DEF RootCopied
<1>1. Types /\ Collection /\ Collecting  BY <1>0 DEF IInv, Collecting
<1>2. Collecting'  BY <1>0, RootsGoOn
<1>3. PICK M : M = mem'  OBVIOUS
<1>4. /\ Store' = Store /\ AtHome(mem', id', home', g_free')
      /\ \A p \in 0 .. g_free - 1 : id'[p] = id[p]
  <2>1. Copies(old, M, id', home', g_free')  BY <1>0, <1>3
  <2>2. \A a \in Addr : Same(M[a], id', mem'[a], id')  BY <1>3 DEF Same
  <2>3. \A a \in Addr : M[a].type \in VectorTypes \cup {"TBROKEN_HEART"} => mem'[a] = M[a]  BY <1>3
  <2> QED  BY <1>0, <1>1, <2>1, <2>2, <2>3, CopySeen
<1>5. id'[NewOf(old)] = id[old]  BY <1>0, <1>1, CopyResult
<1>6. /\ \A k \in g_stack .. STACK_SIZE - 1 : g_stack_array[k] \in 0 .. g_free - 1
      /\ \A g \in Globals : globals[g] \in 0 .. g_free - 1
  BY <1>1, CollectorRoots
<1>7. \A k \in g_stack .. STACK_SIZE - 1 : id'[g_stack_array'[k]] = id[g_stack_array[k]]  BY <1>0, <1>4, <1>5, <1>6
<1>8. \A g \in Globals : id'[globals'[g]] = id[globals[g]]  BY <1>0, <1>4, <1>5, <1>6
<1> QED  BY <1>0, <1>1, <1>2, <1>4, <1>7, <1>8, CollectorUnseen

\* That is what the steps from one root to the next do, unless the arena is full.
LEMMA CopySymbolStep ==
  ASSUME IInv, ~Interior, copy_symbol
  PROVE  Stop("overrun") \/ \E old : RootCopied(old)
<1>1. Types /\ Collection /\ Collecting /\ phase = "roots" /\ next <= NSymbols
  BY DEF IInv, Collecting, copy_symbol
<1>2. g_news \in Nat /\ g_news > 2  BY <1>1, Spaces
<1>3. NSymbols \in Nat \ {0} /\ next \in Symbols /\ next \in Nat \ {0} /\ next \in 1 .. g_news - 2
  BY <1>1, <1>2, SizesAssumption DEF Collection, Symbols
<1> DEFINE s == cell_nil + next - 1
<1>4. s = next  BY <1>3 DEF cell_nil
<1>5. gc_copy(s, Copied(s), NextRoot /\ UNCHANGED <<globals, g_stack_array>>)  BY DEF copy_symbol
<1> HIDE DEF s
<1>6. SymbolAt(mem, id, next, next)
  BY <1>1, <1>3 DEF Collection, SymbolsInOrder, RootDone
<1>7. Refers(mem, id, s, 1, g_news - 2)
  <2>1. NoId \notin Nat  BY DEF NoId
  <2> QED  BY <2>1, <1>3, <1>4, <1>6 DEF Refers, SymbolAt
<1>8. Taken(s) \in Nat /\ g_free \in Nat /\ MemTop \in Nat  BY <1>1, <1>7, TakenCells
<1>9. CASE g_free + Taken(s) > MemTop
  BY <1>5, <1>9 DEF gc_copy
<1>10. CASE ~(g_free + Taken(s) > MemTop)
  <2>1. /\ Copies(s, mem', id', home', g_free')
        /\ UNCHANGED <<g_news, g_stack, regs>> /\ NextRoot /\ UNCHANGED <<globals, g_stack_array>>
    BY <1>5, <1>8, <1>10 DEF gc_copy, Copies, history
  <2>2. id[s] \in Symbols  BY <1>3, <1>4, <1>6 DEF SymbolAt
  <2> QED  BY <1>1, <1>7, <2>1, <2>2 DEF RootCopied
<1> QED  BY <1>9, <1>10

LEMMA CopyGlobalStep ==
  ASSUME IInv, ~Interior, copy_global
  PROVE  Stop("overrun") \/ \E old : RootCopied(old)
<1>1. Types /\ Collection /\ Collecting /\ phase = "roots" /\ next - NSymbols \in 1 .. 7
  BY SevenGlobals DEF IInv, Collecting, copy_global
<1>2. next \in 1 .. NRoots /\ next \in Int /\ NSymbols \in Nat \ {0} /\ next > NSymbols /\ next <= NSymbols + 7
  BY <1>1, RootNumbers DEF Collection
<1> DEFINE q == next - NSymbols
           g == GlobalNames[next - NSymbols]
           old == globals[GlobalNames[next - NSymbols]]
<1>3. q \in 1 .. 7 /\ g \in Globals /\ GlobalRoot(q) = next /\ g = GlobalNames[q] /\ old = globals[g]
  BY <1>1, <1>2, SevenGlobals DEF GlobalRoot
<1>4. gc_copy(old, Copied(old),
              /\ NextRoot
              /\ globals' = [globals EXCEPT ![g] = NewOf(old)]
              /\ UNCHANGED g_stack_array)
  BY DEF copy_global
<1> HIDE DEF q, g, old
<1>5. Refers(mem, id, old, 1, g_news - 2)
  <2>1. Root(mem, id, GlobalRoot(q), globals[GlobalNames[q]], g_news, g_free)
    BY <1>1, <1>3, SevenGlobals DEF Collection, Roots
  <2>2. ~RootDone(GlobalRoot(q))  BY <1>1, <1>2, <1>3 DEF RootDone
  <2> QED  BY <2>1, <2>2, <1>3 DEF Root
<1>6. Taken(old) \in Nat /\ g_free \in Nat /\ MemTop \in Nat  BY <1>1, <1>5, TakenCells
<1>7. CASE g_free + Taken(old) > MemTop
  BY <1>4, <1>7 DEF gc_copy
<1>8. CASE ~(g_free + Taken(old) > MemTop)
  <2>1. /\ Copies(old, mem', id', home', g_free')
        /\ UNCHANGED <<g_news, g_stack, regs>> /\ NextRoot
        /\ globals' = [globals EXCEPT ![g] = NewOf(old)] /\ g_stack_array' = g_stack_array
    BY <1>4, <1>6, <1>8 DEF gc_copy, Copies, history
  <2>2. globals \in [Globals -> 0 .. g_free]  BY <1>1 DEF Types
  <2>3. \A f \in Globals : globals'[f] = globals[f] \/ (globals[f] = old /\ globals'[f] = NewOf(old))
    BY <1>3, <2>1, <2>2
  <2> QED  BY <1>1, <1>3, <1>5, <2>1, <2>3 DEF RootCopied
<1> QED  BY <1>7, <1>8

LEMMA CopyStackStep ==
  ASSUME IInv, ~Interior, copy_stack
  PROVE  Stop("overrun") \/ \E old : RootCopied(old)
<1>1. Types /\ Collection /\ Collecting /\ phase = "roots" /\ next > NSymbols + 7
  BY SevenGlobals DEF IInv, Collecting, copy_stack
<1>2. /\ next \in 1 .. NRoots /\ next \in Int /\ NSymbols \in Nat \ {0}
      /\ NRoots = NSymbols + 7 + STACK_SIZE - g_stack /\ STACK_SIZE \in Nat /\ g_stack \in 0 .. STACK_SIZE
  BY <1>1, SizesAssumption, SevenGlobals DEF Collection, NRoots, Types
<1> DEFINE i == g_stack + next - NSymbols - Len(GlobalNames) - 1
           old == g_stack_array[i]
<1>3. i \in g_stack .. STACK_SIZE - 1 /\ i \in 0 .. STACK_SIZE - 1 /\ StackRoot(i) = next
  BY <1>1, <1>2, SevenGlobals DEF StackRoot
<1>4. gc_copy(old, Copied(old),
              /\ NextRoot
              /\ g_stack_array' = [g_stack_array EXCEPT ![i] = NewOf(old)]
              /\ UNCHANGED globals)
  BY DEF copy_stack
<1>a. old = g_stack_array[i]  OBVIOUS
<1> HIDE DEF i, old
<1>5. Refers(mem, id, old, 1, g_news - 2)
  <2>1. Root(mem, id, StackRoot(i), g_stack_array[i], g_news, g_free)
    BY <1>1, <1>3 DEF Collection, Roots
  <2>2. ~RootDone(StackRoot(i))  BY <1>1, <1>2, <1>3 DEF RootDone
  <2> QED  BY <2>1, <2>2, <1>a DEF Root
<1>6. Taken(old) \in Nat /\ g_free \in Nat /\ MemTop \in Nat  BY <1>1, <1>5, TakenCells
<1>7. CASE g_free + Taken(old) > MemTop
  BY <1>4, <1>7 DEF gc_copy
<1>8. CASE ~(g_free + Taken(old) > MemTop)
  <2>1. /\ Copies(old, mem', id', home', g_free')
        /\ UNCHANGED <<g_news, g_stack, regs>> /\ NextRoot
        /\ g_stack_array' = [g_stack_array EXCEPT ![i] = NewOf(old)] /\ globals' = globals
    BY <1>4, <1>6, <1>8 DEF gc_copy, Copies, history
  <2>2. g_stack_array \in [0 .. STACK_SIZE - 1 -> 0 .. g_free]  BY <1>1 DEF Types
  <2>3. \A k \in g_stack .. STACK_SIZE - 1 :
          g_stack_array'[k] = g_stack_array[k] \/ (g_stack_array[k] = old /\ g_stack_array'[k] = NewOf(old))
    <3>1. \A k \in g_stack .. STACK_SIZE - 1 : k \in 0 .. STACK_SIZE - 1  BY <1>2
    <3> QED  BY <1>3, <1>a, <2>1, <2>2, <3>1
  <2> QED  BY <1>1, <1>3, <1>a, <1>5, <2>1, <2>3 DEF RootCopied
<1> QED  BY <1>7, <1>8

\* A step of gc_loop copies old, to which the cell at scan refers, and writes
\* the place of the copy into that cell.
LoopCopied(old, M) ==
  /\ phase \in {"car", "cdr"} /\ phase' \in {"car", "cdr"} /\ scan < g_free
  /\ UNCHANGED <<g_news, g_stack, regs, globals, g_stack_array>>
  /\ Refers(mem, id, old, 1, g_news - 2)
  /\ Copies(old, M, id', home', g_free')
  /\ mem[scan].type \notin VectorTypes /\ mem'[scan].type = mem[scan].type
  /\ \/ /\ mem[scan].type \in CarTypes
        /\ mem[scan].car = old /\ mem'[scan].car = NewOf(old) /\ mem'[scan].cdr = mem[scan].cdr
     \/ /\ mem[scan].type \in CdrTypes
        /\ mem[scan].cdr = old /\ mem'[scan].cdr = NewOf(old) /\ mem'[scan].car = mem[scan].car
  /\ \A a \in Addr : a # scan => mem'[a] = M[a]

\* No cell says anything else for that, but the one at old, which is now a
\* broken heart.
LEMMA LoopCells ==
  ASSUME IInv, ~Interior, NEW old, NEW M, LoopCopied(old, M)
  PROVE  /\ \A a \in Addr : Same(M[a], id', mem'[a], id')
         /\ \A a \in Addr : M[a].type \in VectorTypes \cup {"TBROKEN_HEART"} => mem'[a] = M[a]
<1>0. /\ phase \in {"car", "cdr"} /\ phase' \in {"car", "cdr"} /\ scan < g_free
      /\ UNCHANGED <<g_news, g_stack, regs, globals, g_stack_array>>
      /\ Refers(mem, id, old, 1, g_news - 2) /\ Copies(old, M, id', home', g_free')
      /\ mem[scan].type \notin VectorTypes /\ mem'[scan].type = mem[scan].type
      /\ \A a \in Addr : a # scan => mem'[a] = M[a]
  BY DEF LoopCopied
<1>1. /\ Types /\ Collection /\ Collecting
      /\ scan \in g_news + 1 .. g_free - 1 /\ scan \in Addr /\ scan \in 0 .. g_free - 1
      /\ NewCell(mem, id, scan, g_news, g_free, scan, phase)
  BY <1>0, ScanCell
<1>3. g_news \in Nat /\ g_news > 2 /\ g_free \in Nat /\ g_news < g_free  BY <1>1, Spaces
<1>4. id'[NewOf(old)] = id[old]  BY <1>0, <1>1, CopyResult
<1>5. /\ \A p \in 0 .. g_free - 1 : id'[p] = id[p]
      /\ \A a \in 0 .. g_free - 1 : a # old => M[a] = mem[a]
  BY <1>0, <1>1, CopyKeeps DEF Keeps
<1>6. old \in 0 .. g_free - 1 /\ scan # old  BY <1>0, <1>1, <1>3 DEF Refers
<1>7. M[scan] = mem[scan]  BY <1>1, <1>5, <1>6
<1>8. id'[NewOf(old)] = id'[old]  BY <1>4, <1>5, <1>6
<1>9. Same(M[scan], id', mem'[scan], id')
  <2>1. CASE mem[scan].type \in CarTypes /\ mem[scan].car = old /\ mem'[scan].car = NewOf(old)
             /\ mem'[scan].cdr = mem[scan].cdr
    BY <1>0, <1>7, <1>8, <2>1 DEF Same
  <2>2. CASE mem[scan].type \in CdrTypes /\ mem[scan].cdr = old /\ mem'[scan].cdr = NewOf(old)
             /\ mem'[scan].car = mem[scan].car
    BY <1>0, <1>7, <1>8, <2>2 DEF Same
  <2> QED  BY <2>1, <2>2 DEF LoopCopied
<1>10. \A a \in Addr : Same(M[a], id', mem'[a], id')
  <2>1. \A a \in Addr : a # scan => Same(M[a], id', mem'[a], id')  BY <1>0 DEF Same
  <2> QED  BY <1>9, <2>1
<1>11. mem[scan].type # "TBROKEN_HEART"  BY <1>1 DEF NewCell
<1>12. \A a \in Addr : M[a].type \in VectorTypes \cup {"TBROKEN_HEART"} => mem'[a] = M[a]  BY <1>0, <1>7, <1>11
<1> QED  BY <1>10, <1>12

\* So the program sees no change.
LEMMA LoopSeen ==
  ASSUME IInv, RInv, ~Interior, NEW old, NEW M, LoopCopied(old, M)
  PROVE  RInv' /\ UNCHANGED Abs!vars
<1>0. /\ phase \in {"car", "cdr"} /\ phase' \in {"car", "cdr"} /\ scan < g_free
      /\ UNCHANGED <<g_news, g_stack, regs, globals, g_stack_array>>
      /\ Refers(mem, id, old, 1, g_news - 2) /\ Copies(old, M, id', home', g_free')
  BY DEF LoopCopied
<1>1. Types /\ Collection /\ Collecting  BY <1>0, ScanCell
<1>2. Collecting'  BY <1>0 DEF Collecting
<1>3. \A p \in 0 .. g_free - 1 : id'[p] = id[p]  BY <1>0, <1>1, CopyKeeps DEF Keeps
<1>4. Store' = Store /\ AtHome(mem', id', home', g_free')
  BY <1>0, <1>1, LoopCells, CopySeen
<1>5. /\ \A k \in g_stack .. STACK_SIZE - 1 : g_stack_array[k] \in 0 .. g_free - 1
      /\ \A g \in Globals : globals[g] \in 0 .. g_free - 1
  BY <1>1, CollectorRoots
<1>6. \A k \in g_stack .. STACK_SIZE - 1 : id'[g_stack_array'[k]] = id[g_stack_array[k]]  BY <1>0, <1>3, <1>5
<1>7. \A g \in Globals : id'[globals'[g]] = id[globals[g]]  BY <1>0, <1>3, <1>5
<1> QED  BY <1>0, <1>1, <1>2, <1>3, <1>4, <1>6, <1>7, CollectorUnseen

\* A step of gc_loop that copies nothing changes nothing at all.
LoopSkipped ==
  /\ Collecting /\ Collecting'
  /\ UNCHANGED <<g_news, g_stack, regs, globals, g_stack_array, mem, id, home, g_free>>

LEMMA LoopSkips ==
  ASSUME IInv, RInv, LoopSkipped
  PROVE  RInv' /\ UNCHANGED Abs!vars
<1>1. AtHome(mem', id', home', g_free')  BY DEF LoopSkipped, RInv, AtHome
<1>2. Store' = Store  BY DEF LoopSkipped, Store, Objects, Contents, Fields
<1> QED  BY <1>1, <1>2, CollectorUnseen DEF LoopSkipped

\* That is what the two steps of a round do, unless the arena is full.
LEMMA GcLoopCarStep ==
  ASSUME IInv, ~Interior, gc_loop_car
  PROVE  Stop("overrun") \/ LoopSkipped \/ \E old, M : LoopCopied(old, M)
<1>1. phase = "car" /\ scan < g_free  BY DEF gc_loop_car
<1>2. /\ Types /\ Collection /\ Collecting
      /\ scan \in g_news + 1 .. g_free - 1 /\ scan \in Addr /\ scan \in Nat /\ scan \in 0 .. g_free - 1
      /\ mem[scan] \in Cells
      /\ NewCell(mem, id, scan, g_news, g_free, scan, phase)
  BY <1>1, ScanCell
<1> DEFINE c == mem[scan]
           old == c.car
<1>3. ~CarDone(scan, scan, phase) /\ c.type # "TBROKEN_HEART"  BY <1>1, <1>2 DEF CarDone, NewCell
<1>4. CASE c.type \in CarTypes
  <2>1. gc_copy(old, gc_relocate_car(Copied(old), scan, NewOf(old)), CarScanned)
    BY <1>3, <1>4 DEF gc_loop_car
  <2>2. Refers(mem, id, old, 1, g_news - 2)  BY <1>2, <1>3, <1>4 DEF NewCell, CarRefers
  <2>3. Taken(old) \in Nat /\ g_free \in Nat /\ MemTop \in Nat  BY <1>2, <2>2, TakenCells
  <2>a. old = mem[scan].car  OBVIOUS
  <2> HIDE DEF old
  <2>4. CASE g_free + Taken(old) > MemTop
    BY <2>1, <2>4 DEF gc_copy
  <2>5. CASE ~(g_free + Taken(old) > MemTop)
    <3>1. PICK M : M = Copied(old)  OBVIOUS
    <3>2. /\ Copies(old, M, id', home', g_free')
          /\ mem' = gc_relocate_car(M, scan, NewOf(old))
          /\ UNCHANGED <<g_news, g_stack, regs>> /\ CarScanned
      BY <2>1, <2>3, <2>5, <3>1 DEF gc_copy, Copies, history
    <3>3. M \in [Addr -> Cells] /\ \A a \in 0 .. g_free - 1 : a # old => M[a] = mem[a]
      BY <1>2, <2>2, <3>2, CopyKeeps DEF Keeps
    <3>4. M[scan] = mem[scan]
      <4>1. scan # old  BY <1>2, <2>2, Spaces DEF Refers
      <4> QED  BY <4>1, <1>2, <3>3
    <3>5. \A a \in Addr : a # scan => mem'[a] = M[a]  BY <3>2, <3>3 DEF gc_relocate_car
    <3>6. mem'[scan].type = mem[scan].type /\ mem'[scan].car = NewOf(old) /\ mem'[scan].cdr = mem[scan].cdr
      <4>1. \A r \in Cells : \A x :
              LET e == [r EXCEPT !.car = x] IN e.type = r.type /\ e.car = x /\ e.cdr = r.cdr
        BY DEF Cells
      <4>2. mem'[scan] = [mem[scan] EXCEPT !.car = NewOf(old)]  BY <1>2, <3>2, <3>3, <3>4 DEF gc_relocate_car
      <4> QED  BY <1>2, <4>1, <4>2
    <3>7. mem[scan].type \notin VectorTypes  BY <1>4 DEF CarTypes, VectorTypes
    <3>8. phase' = "cdr" /\ UNCHANGED <<globals, g_stack_array>>  BY <3>2 DEF CarScanned
    <3> QED  BY <1>1, <1>4, <2>2, <2>a, <3>2, <3>5, <3>6, <3>7, <3>8 DEF LoopCopied
  <2> QED  BY <2>4, <2>5
<1>5. CASE c.type \notin CarTypes
  <2>1. CarScanned /\ UNCHANGED <<mem, history, g_free, g_news, g_stack, regs, uses>>
    BY <1>3, <1>5 DEF gc_loop_car
  <2>2. Collecting' /\ UNCHANGED <<globals, g_stack_array>>  BY <2>1 DEF CarScanned, Collecting
  <2> QED  BY <1>2, <2>1, <2>2 DEF history, LoopSkipped
<1> QED  BY <1>4, <1>5

LEMMA GcLoopCdrStep ==
  ASSUME IInv, ~Interior, gc_loop_cdr
  PROVE  Stop("overrun") \/ LoopSkipped \/ \E old, M : LoopCopied(old, M)
<1>1. phase = "cdr" /\ scan < g_free
  BY DEF gc_loop_cdr, IInv, Collecting, Collection
<1>2. /\ Types /\ Collection /\ Collecting
      /\ scan \in g_news + 1 .. g_free - 1 /\ scan \in Addr /\ scan \in Nat /\ scan \in 0 .. g_free - 1
      /\ mem[scan] \in Cells
      /\ NewCell(mem, id, scan, g_news, g_free, scan, phase)
  BY <1>1, ScanCell
<1> DEFINE c == mem[scan]
           old == c.cdr
<1>3. scan >= scan  BY <1>2
<1>4. CASE c.type \in CdrTypes
  <2>1. gc_copy(old, gc_relocate_cdr(Copied(old), scan, NewOf(old)), Scanned)
    BY <1>4 DEF gc_loop_cdr
  <2>2. Refers(mem, id, old, 1, g_news - 2)  BY <1>2, <1>3, <1>4 DEF NewCell, CdrRefers
  <2>3. Taken(old) \in Nat /\ g_free \in Nat /\ MemTop \in Nat  BY <1>2, <2>2, TakenCells
  <2>a. old = mem[scan].cdr  OBVIOUS
  <2> HIDE DEF old
  <2>4. CASE g_free + Taken(old) > MemTop
    BY <2>1, <2>4 DEF gc_copy
  <2>5. CASE ~(g_free + Taken(old) > MemTop)
    <3>1. PICK M : M = Copied(old)  OBVIOUS
    <3>2. /\ Copies(old, M, id', home', g_free')
          /\ mem' = gc_relocate_cdr(M, scan, NewOf(old))
          /\ UNCHANGED <<g_news, g_stack, regs>> /\ Scanned
      BY <2>1, <2>3, <2>5, <3>1 DEF gc_copy, Copies, history
    <3>3. M \in [Addr -> Cells] /\ \A a \in 0 .. g_free - 1 : a # old => M[a] = mem[a]
      BY <1>2, <2>2, <3>2, CopyKeeps DEF Keeps
    <3>4. M[scan] = mem[scan]
      <4>1. scan # old  BY <1>2, <2>2, Spaces DEF Refers
      <4> QED  BY <4>1, <1>2, <3>3
    <3>5. \A a \in Addr : a # scan => mem'[a] = M[a]  BY <3>2, <3>3 DEF gc_relocate_cdr
    <3>6. mem'[scan].type = mem[scan].type /\ mem'[scan].cdr = NewOf(old) /\ mem'[scan].car = mem[scan].car
      <4>1. \A r \in Cells : \A x :
              LET e == [r EXCEPT !.cdr = x] IN e.type = r.type /\ e.cdr = x /\ e.car = r.car
        BY DEF Cells
      <4>2. mem'[scan] = [mem[scan] EXCEPT !.cdr = NewOf(old)]  BY <1>2, <3>2, <3>3, <3>4 DEF gc_relocate_cdr
      <4> QED  BY <1>2, <4>1, <4>2
    <3>7. mem[scan].type \notin VectorTypes  BY <1>4 DEF CdrTypes, VectorTypes
    <3>8. phase' = "car" /\ UNCHANGED <<globals, g_stack_array>>  BY <3>2 DEF Scanned
    <3> QED  BY <1>1, <1>4, <2>2, <2>a, <3>2, <3>5, <3>6, <3>7, <3>8 DEF LoopCopied
  <2> QED  BY <2>4, <2>5
<1>5. CASE c.type \notin CdrTypes
  <2>1. Scanned /\ UNCHANGED <<mem, history, g_free, g_news, g_stack, regs, uses>>
    BY <1>5 DEF gc_loop_cdr
  <2>2. Collecting' /\ UNCHANGED <<globals, g_stack_array>>  BY <2>1 DEF Scanned, Collecting
  <2> QED  BY <1>2, <2>1, <2>2 DEF history, LoopSkipped
<1> QED  BY <1>4, <1>5

\* A step of the collector before gc_flip.
Copying == copy_symbol \/ copy_global \/ copy_stack \/ gc_loop_car \/ gc_loop_cdr

LEMMA CopyingStep ==
  ASSUME IInv, ~Interior, Copying
  PROVE  \/ Stop("overrun")
         \/ LoopSkipped
         \/ \E old : RootCopied(old)
         \/ \E old, M : LoopCopied(old, M)
  BY CopySymbolStep, CopyGlobalStep, CopyStackStep, GcLoopCarStep, GcLoopCdrStep DEF Copying

LEMMA CopyingSeen ==
  ASSUME IInv, RInv, ~Interior, Copying
  PROVE  RInv' /\ UNCHANGED Abs!vars
<1>1. CASE Stop("overrun")  BY <1>1, StopUnseen
<1>2. CASE LoopSkipped  BY <1>2, LoopSkips
<1>3. CASE \E old : RootCopied(old)  BY <1>3, RootSeen
<1>4. CASE \E old, M : LoopCopied(old, M)  BY <1>4, LoopSeen
<1> QED  BY <1>1, <1>2, <1>3, <1>4, CopyingStep

\* The objects after gc_flip are those that have been copied, with the
\* contents they had.
LEMMA FlippedObjects ==
  ASSUME IInv, RInv, ~Interior, gc_flip
  PROVE  /\ AtHome(mem', id', home', g_free')
         /\ DOMAIN home' \subseteq DOMAIN home
         /\ \A o \in DOMAIN home' : Contents(mem', id', home'[o]) = Contents(mem, id, home[o])
<1>1. /\ Types /\ Collection /\ Collecting /\ phase = "car" /\ scan >= g_free
      /\ AtHome(mem, id, home, g_free)
  BY DEF IInv, RInv, Collecting, gc_flip
<1>2. /\ g_news \in Nat /\ g_free \in Nat /\ g_news < g_free
      /\ Addr = 0 .. MemTop - 1 /\ mem \in [Addr -> Cells]
  BY <1>1, Spaces
<1>3. Flipped(mem', id', g_free')  BY DEF gc_flip, Flipped
<1>4. home' = [i \in {j \in DOMAIN home : home[j] >= g_news} |-> home[i] - g_news]  BY DEF gc_flip
<1>5. /\ g_free' \in Nat /\ g_free' = g_free - g_news
      /\ \A a \in 0 .. g_free' - 1 : /\ a + g_news \in g_news .. g_free - 1 /\ a + g_news \in Addr
                                     /\ mem'[a] = Moved(mem[a + g_news], g_news)
                                     /\ mem'[a].type = mem[a + g_news].type
                                     /\ id'[a] = id[a + g_news]
  BY <1>1, <1>3, FlippedCells
<1>6. \A a \in g_news + 1 .. g_free - 1 :
        /\ mem[a].type \notin {"free", "TBROKEN_HEART"}
        /\ Shaped(mem, id, a, g_free)
        /\ CarRefers(mem, id, a, g_news + 1, g_free - 1)
        /\ CdrRefers(mem, id, a, g_news + 1, g_free - 1)
  BY <1>1, AllScanned
<1>7. id[g_news] = NoId  BY <1>1 DEF Collection
<1>8. AtHome(mem', id', home', g_free')
  <2>1. ASSUME NEW a \in 0 .. g_free' - 1, id'[a] # NoId
        PROVE  id'[a] \in DOMAIN home' /\ mem'[a].type # "TBROKEN_HEART" /\ home'[id'[a]] = a
    <3>1. PICK b : b = a + g_news  OBVIOUS
    <3>2. /\ b \in g_news .. g_free - 1 /\ b \in Int /\ id'[a] = id[b] /\ mem'[a].type = mem[b].type
          /\ b - g_news = a /\ b >= g_news
      BY <1>2, <1>5, <3>1
    <3>3. b # g_news  BY <1>7, <2>1, <3>2
    <3>4. b \in g_news + 1 .. g_free - 1 /\ b \in 0 .. g_free - 1  BY <1>2, <3>2, <3>3
    <3>5. mem[b].type # "TBROKEN_HEART"  BY <1>6, <3>4
    <3>6. id[b] \in DOMAIN home /\ home[id[b]] = b  BY <1>1, <2>1, <3>2, <3>4, <3>5 DEF AtHome
    <3>7. id[b] \in DOMAIN home' /\ home'[id[b]] = b - g_news  BY <1>4, <3>2, <3>6
    <3> QED  BY <3>2, <3>5, <3>7
  <2> QED  BY <2>1 DEF AtHome
\* A cell moves, and what it refers to moves with it.
<1>9. ASSUME NEW b \in g_news + 1 .. g_free - 1
      PROVE  /\ Same(mem[b], id, mem'[b - g_news], id')
             /\ mem[b].type \in VectorTypes => mem'[b - g_news].cdr = mem[b].cdr - g_news
  <2>1. PICK a : a = b - g_news  OBVIOUS
  <2>2. a \in 0 .. g_free' - 1 /\ a + g_news = b  BY <1>2, <1>5, <2>1
  <2>3. mem[b] \in Cells /\ g_news \in Nat /\ mem'[a] = Moved(mem[b], g_news)  BY <1>2, <1>5, <2>2
  <2>4. /\ mem'[a].type = mem[b].type
        /\ mem[b].type \in CarTypes => mem'[a].car = mem[b].car - g_news
        /\ mem[b].type \notin CarTypes => mem'[a].car = mem[b].car
        /\ mem[b].type \in CdrTypes \cup VectorTypes => mem'[a].cdr = mem[b].cdr - g_news
        /\ mem[b].type \notin CdrTypes \cup VectorTypes => mem'[a].cdr = mem[b].cdr
    BY <2>3, MovedCell
  <2>5. \A p : Refers(mem, id, p, g_news + 1, g_free - 1) => id'[p - g_news] = id[p]
    BY <1>1, <1>3, FlippedReference
  <2>6. mem[b].type \in CarTypes => id'[mem[b].car - g_news] = id[mem[b].car]  BY <1>6, <2>5 DEF CarRefers
  <2>7. mem[b].type \in CdrTypes => id'[mem[b].cdr - g_news] = id[mem[b].cdr]  BY <1>6, <2>5 DEF CdrRefers
  <2>8. Same(mem[b], id, mem'[a], id')  BY <2>4, <2>6, <2>7 DEF Same
  <2> QED  BY <2>1, <2>4, <2>8
<1>10. DOMAIN home' \subseteq DOMAIN home  BY <1>4
<1>11. ASSUME NEW o \in DOMAIN home' PROVE Contents(mem', id', home'[o]) = Contents(mem, id, home[o])
  <2>1. PICK b : b = home[o]  OBVIOUS
  <2>2. o \in DOMAIN home /\ b >= g_news /\ home'[o] = b - g_news  BY <1>4, <2>1
  <2>3. ObjectAt(mem, id, b, g_free) /\ id[b] # NoId  BY <1>1, <2>1, <2>2, HomeObjects
  <2>4. b \in 0 .. g_free - 1 /\ b # g_news  BY <1>7, <2>3 DEF ObjectAt
  <2>5. b \in g_news + 1 .. g_free - 1 /\ b \in Int /\ b - g_news \in Int  BY <1>2, <2>2, <2>4
  <2>6. Same(mem[b], id, mem'[b - g_news], id')  BY <1>9, <2>5
  <2>7. ASSUME mem[b].type \in VectorTypes
        PROVE  /\ mem[b].cdr = b + 1 /\ mem'[b - g_news].cdr = (b - g_news) + 1 /\ mem[b].car \in Nat
               /\ \A k \in 1 .. mem[b].car :
                    mem[b + k].type \in EntryTypes /\ Same(mem[b + k], id, mem'[(b - g_news) + k], id')
    <3>1. Shaped(mem, id, b, g_free)  BY <1>6, <2>5
    <3>2. /\ mem[b].cdr = b + 1 /\ mem[b].car \in Nat
          /\ Rest(mem, b) \subseteq b + 1 .. g_free - 1
          /\ \A k \in 1 .. mem[b].car : b + k \in Rest(mem, b)
      <4>1. b \in Int /\ g_free \in Int  BY <1>2, <2>5
      <4> QED  BY <2>7, <3>1, <4>1, VectorRest
    <3>3. mem'[b - g_news].cdr = (b - g_news) + 1  BY <1>2, <1>9, <2>5, <2>7, <3>2
    <3>4. ASSUME NEW k \in 1 .. mem[b].car
          PROVE  mem[b + k].type \in EntryTypes /\ Same(mem[b + k], id, mem'[(b - g_news) + k], id')
      <4>1. mem[b + k].type \in EntryTypes  BY <2>3, <2>7, <3>2 DEF ObjectAt
      <4>2. b + k \in g_news + 1 .. g_free - 1 /\ (b + k) - g_news = (b - g_news) + k
        <5>1. b + k \in b + 1 .. g_free - 1 /\ k \in Int  BY <3>2
        <5> QED  BY <5>1, <1>2, <2>5
      <4>3. Same(mem[b + k], id, mem'[(b + k) - g_news], id')  BY <1>9, <4>2
      <4> QED  BY <4>1, <4>2, <4>3
    <3> QED  BY <3>2, <3>3, <3>4
  <2>8. SameObject(mem, id, b, mem', id', b - g_news)  BY <2>6, <2>7 DEF SameObject
  <2>9. Contents(mem', id', b - g_news) = Contents(mem, id, b)  BY <2>5, <2>8, SameContents
  <2> QED  BY <2>1, <2>2, <2>9
<1> QED  BY <1>8, <1>10, <1>11

\* What the registers, the frames and the globals hold after gc_flip.
LEMMA FlippedRoots ==
  ASSUME IInv, RInv, gc_flip
  PROVE  Registers' = Registers /\ Frames' = Frames /\ GlobalObjects' = GlobalObjects
<1>1. Types /\ Collection /\ Collecting /\ phase = "car" /\ scan >= g_free /\ Saved
  BY DEF IInv, RInv, Collecting, gc_flip
<1>2. /\ g_news \in Nat /\ g_news > 2 /\ STACK_SIZE \in Nat /\ NRegs \in Nat \ {0} /\ GC_FRAME_SIZE = NRegs + 1
  BY <1>1, Spaces, SizesAssumption DEF GC_FRAME_SIZE
<1> DEFINE stack == [k \in DOMAIN g_stack_array |->
                       IF k >= g_stack THEN g_stack_array[k] - g_news ELSE g_stack_array[k]]
<1>3. /\ Flipped(mem', id', g_free')
      /\ globals' = [g \in DOMAIN globals |-> globals[g] - g_news]
      /\ regs' = Popped(stack) /\ g_stack_array' = Cleared(stack)
      /\ g_stack' = g_stack + GC_FRAME_SIZE /\ g_news' = 0
  BY DEF gc_flip, Flipped
<1>4. ASSUME NEW p, Refers(mem, id, p, g_news + 1, g_free - 1) PROVE id'[p - g_news] = id[p]
  BY <1>1, <1>3, <1>4, FlippedReference
<1>5. Roots(mem, id, g_news, g_free) /\ \A k : RootDone(k)  BY <1>1 DEF Collection, RootDone
<1>6. \A g \in Globals : Refers(mem, id, globals[g], g_news + 1, g_free - 1)
  BY <1>5, SevenGlobals DEF Roots, Root
<1>7. \A k \in g_stack .. STACK_SIZE - 1 : Refers(mem, id, g_stack_array[k], g_news + 1, g_free - 1)
  BY <1>5 DEF Roots, Root
<1>8. /\ g_stack \in 0 .. STACK_SIZE /\ g_stack + GC_FRAME_SIZE <= STACK_SIZE
      /\ DOMAIN stack = 0 .. STACK_SIZE - 1 /\ DOMAIN globals = Globals
      /\ \A k \in g_stack .. STACK_SIZE - 1 : stack[k] = g_stack_array[k] - g_news
  BY <1>1, <1>2 DEF Types, Collection
<1> HIDE DEF stack
<1>9. \A k \in g_stack .. STACK_SIZE - 1 : id'[stack[k]] = id[g_stack_array[k]]  BY <1>4, <1>7, <1>8
<1>10. Registers' = Registers
  <2>1. ASSUME NEW r \in Regs PROVE id'[regs'[r]] = id[regs[r]]
    <3>1. PICK k : k = g_stack + NRegs - 1 - r  OBVIOUS
    <3>2. k \in g_stack .. STACK_SIZE - 1  BY <1>2, <1>8, <3>1 DEF Regs
    <3>3. regs'[r] = stack[k]  BY <1>3, <3>1 DEF Popped
    <3>4. id[g_stack_array[k]] = id[regs[r]]  BY <1>1, <3>1 DEF Saved
    <3> QED  BY <1>9, <3>2, <3>3, <3>4
  <2> QED  BY <2>1 DEF Registers
<1>11. GlobalObjects' = GlobalObjects
  <2>1. \A g \in Globals : id'[globals'[g]] = id[globals[g]]  BY <1>3, <1>4, <1>6, <1>8
  <2> QED  BY <2>1 DEF GlobalObjects
<1>12. Frames' = Frames
  <2> DEFINE s == g_stack + GC_FRAME_SIZE
  <2>1. FrameStart = s /\ FrameStart' = s  BY <1>2, <1>3 DEF FrameStart
  <2>2. Frames = FramesOf(id, g_stack_array, s)  BY <2>1, FramesAre
  <2>3. Frames' = FramesOf(id', g_stack_array', s)
    <3>1. Frames' = FramesOf(id', g_stack_array', FrameStart')  BY FramesAre DEF Frames, FramesOf, FrameIn
    <3> QED  BY <2>1, <3>1
  <2>4. s \in 0 .. STACK_SIZE /\ \A k \in s .. STACK_SIZE - 1 : k \in g_stack .. STACK_SIZE - 1
    BY <1>2, <1>8
  <2>5. ASSUME NEW k \in s .. STACK_SIZE - 1 PROVE g_stack_array'[k] = stack[k]
    <3>1. k \in DOMAIN stack /\ ~(k < g_stack + GC_FRAME_SIZE)  BY <1>2, <1>8
    <3>2. Cleared(stack)[k] = stack[k]  BY <3>1 DEF Cleared
    <3> QED  BY <1>3, <3>2
  <2> HIDE DEF s
  <2>6. \A k \in s .. STACK_SIZE - 1 : id'[g_stack_array'[k]] = id[g_stack_array[k]]  BY <1>9, <2>4, <2>5
  <2> QED  BY <2>2, <2>3, <2>4, <2>6, SameFrames
<1> QED  BY <1>10, <1>11, <1>12

\* While the program runs, the store is closed: no object refers to what has
\* no home.
LEMMA RunClosed ==
  ASSUME NEW m, NEW i, NEW h, NEW top \in Nat, RunCells(m, i, top), Homes(i, h, top), AtHome(m, i, h, top),
         ~Interior
  PROVE  \A o \in DOMAIN h : References(Contents(m, i, h[o])) \subseteq DOMAIN h
<1>1. ASSUME NEW o \in DOMAIN h PROVE References(Contents(m, i, h[o])) \subseteq DOMAIN h
  <2>1. ObjectAt(m, i, h[o], top)  BY RunObjects
  <2> QED  BY <2>1, ReferredObjects
<1> QED  BY <1>1

\* A cell below the top of the heap, counted from 1, is one counted from 0.
LEMMA BelowTop ==
  ASSUME NEW top \in Nat
  PROVE  /\ \A p \in 1 .. top - 1 : p \in 0 .. top - 1
         /\ \A n \in Nat : n < top => \A p \in 1 .. n : p \in 0 .. top - 1
OBVIOUS

\* gc_flip ends a collection: the store forgets what has not been copied, and
\* that is nothing a root leads to.
LEMMA FlipSeen ==
  ASSUME IInv, IInv', RInv, ~Interior, gc_flip
  PROVE  RInv' /\ Abs!Collect
<1>1. /\ AtHome(mem', id', home', g_free')
      /\ DOMAIN home' \subseteq DOMAIN home
      /\ \A o \in DOMAIN home' : Contents(mem', id', home'[o]) = Contents(mem, id, home[o])
  BY FlippedObjects
<1>2. phase' = "run" /\ g_news' = 0  BY DEF gc_flip
<1>3. RInv'  BY <1>1, <1>2 DEF RInv, Collecting
<1>4. Registers' = Registers /\ Frames' = Frames /\ GlobalObjects' = GlobalObjects  BY FlippedRoots
<1>5. Types' /\ Run'  BY <1>2 DEF IInv
<1>6. g_free' \in Nat /\ g_stack' \in 0 .. STACK_SIZE  BY <1>5, Layout DEF Types
<1>7. \A p : Refers(mem', id', p, 1, g_free' - 1) => id'[p] \in DOMAIN home'
  <2>1. \A a \in 0 .. g_free' - 1 : id'[a] # NoId => id'[a] \in DOMAIN home'  BY <1>1 DEF AtHome
  <2>2. g_free' \in Nat  BY <1>6
  <2>3. \A p \in 1 .. g_free' - 1 : p \in 0 .. g_free' - 1  BY <2>2, BelowTop
  <2> QED  BY <2>1, <2>3 DEF Refers
<1>8. /\ RunCells(mem', id', g_free') /\ Homes(id', home', g_free')
      /\ \A s \in Symbols : SymbolAt(mem', id', s, s)
      /\ NSymbols < g_free'
      /\ \A r \in Regs : Refers(mem', id', regs'[r], 1, g_free' - 1)
      /\ \A g \in Globals : Refers(mem', id', globals'[g], 1, g_free' - 1)
      /\ \A k \in g_stack' .. STACK_SIZE - 1 : Refers(mem', id', g_stack_array'[k], 1, g_free' - 1)
  BY <1>5 DEF Run, RunRoots
<1>9. \A r \in Regs : Registers[r] \in DOMAIN home'
  <2>1. \A r \in Regs : Registers'[r] = id'[regs'[r]]  BY DEF Registers
  <2> QED  BY <1>4, <1>7, <1>8, <2>1
<1>10. \A g \in Globals : GlobalObjects[g] \in DOMAIN home'
  <2>1. \A g \in Globals : GlobalObjects'[g] = id'[globals'[g]]  BY DEF GlobalObjects
  <2> QED  BY <1>4, <1>7, <1>8, <2>1
<1>11. \A n \in DOMAIN Frames : \A k \in DOMAIN Frames[n] : Frames[n][k] \in DOMAIN home'
  <2>1. Frames' = FramesOf(id', g_stack_array', FrameStart')  BY FramesAre DEF Frames, FramesOf, FrameIn
  <2>2. FrameStart' = g_stack'  BY <1>2 DEF FrameStart
  <2>3. Frames = FramesOf(id', g_stack_array', g_stack')  BY <1>4, <2>1, <2>2
  <2>4. ASSUME NEW n \in 1 .. (STACK_SIZE - g_stack') \div GC_FRAME_SIZE, NEW k \in 0 .. NRegs
        PROVE  id'[g_stack_array'[g_stack' + (n - 1) * GC_FRAME_SIZE + k]] \in DOMAIN home'
    <3>1. g_stack' + (n - 1) * GC_FRAME_SIZE + k \in g_stack' .. STACK_SIZE - 1  BY <1>6, FrameSlot
    <3> QED  BY <1>7, <1>8, <3>1
  <2> QED  BY <2>3, <2>4 DEF FramesOf, FrameIn
<1>12. 1 .. NSymbols \subseteq DOMAIN home'
  <2>1. ASSUME NEW s \in 1 .. NSymbols PROVE s \in DOMAIN home'
    <3>1. id'[s] = s  BY <1>8 DEF Symbols, SymbolAt
    <3>2. s # NoId  BY DEF NoId
    <3>3. s \in 0 .. g_free' - 1
      <4>1. NSymbols < g_free' /\ g_free' \in Nat /\ NSymbols \in Nat  BY <1>6, <1>8, SizesAssumption
      <4> QED  BY <4>1, BelowTop
    <3> QED  BY <1>1, <3>1, <3>2, <3>3 DEF AtHome
  <2> QED  BY <2>1
<1>13. DOMAIN Store = DOMAIN home /\ DOMAIN Store' = DOMAIN home'  BY DEF Store, Objects
<1>14. Abs!Roots \subseteq DOMAIN Store'
  BY <1>9, <1>10, <1>11, <1>12, <1>13, SameRegs DEF Abs!Roots
<1>15. Store' = [o \in DOMAIN Store' |-> Store[o]]
  <2>1. Store' = [o \in DOMAIN home' |-> Contents(mem', id', home'[o])]  BY DEF Store, Objects
  <2>2. \A o \in DOMAIN home' : Store[o] = Contents(mem', id', home'[o])  BY <1>1 DEF Store, Objects
  <2> QED  BY <1>13, <2>1, <2>2
<1>16. Abs!Closed(DOMAIN Store', Store')
  <2>1. \A o \in DOMAIN home' : References(Contents(mem', id', home'[o])) \subseteq DOMAIN home'
    BY <1>1, <1>6, <1>8, RunClosed
  <2>2. \A o \in DOMAIN home' : Store'[o] = Contents(mem', id', home'[o])  BY DEF Store, Objects
  <2> QED  BY <1>13, <2>1, <2>2, AbsObjects DEF Abs!Closed
<1>17. Abs!Collect  BY <1>1, <1>4, <1>13, <1>14, <1>15, <1>16 DEF Abs!Collect
<1> QED  BY <1>3, <1>17

\* The first state: the symbols and their table, and no frame.
LEMMA InitSeen ==
  ASSUME Init, ~Interior
  PROVE  RInv /\ Abs!Init
<1>1. /\ NSymbols \in Nat \ {0} /\ TableAt = NSymbols + 1 /\ BucketsAt = NSymbols + 3
      /\ StaticTop = 4 + 5 * NSymbols
      /\ \A n \in Symbols : n \in Nat \ {0} /\ n <= NSymbols /\ NameAt(n) = 1 + 2 * NSymbols + 3 * n
  BY StaticLayout
<1>2. /\ g_free = StaticTop /\ g_news = 0 /\ phase = "run" /\ g_stack = STACK_SIZE
      /\ regs = [r \in Regs |-> cell_nil]
      /\ globals = [g \in Globals |-> IF g = "g_symbols" THEN TableAt ELSE cell_nil]
      /\ DOMAIN home = Symbols \cup {TableAt, BucketsAt} \cup {NameAt(n) : n \in Symbols}
      /\ id = [a \in Addr |-> IF a \in DOMAIN home THEN a ELSE NoId]
  BY DEF Init
<1>3. Types /\ Run  BY <1>2, InitIInv DEF IInv
<1>4. \A o \in DOMAIN home : home[o] = o /\ id[o] = o  BY StaticIds
<1>5. RunCells(mem, id, g_free) /\ Homes(id, home, g_free) /\ g_free \in Nat  BY <1>1, <1>2, <1>3 DEF Run
<1>6. AtHome(mem, id, home, g_free)
  <2>1. ASSUME NEW a \in 0 .. g_free - 1, id[a] # NoId
        PROVE  id[a] \in DOMAIN home /\ home[id[a]] = a /\ mem[a].type # "TBROKEN_HEART"
    <3>1. a \in Addr  BY <1>3, <1>5, Layout DEF Types
    <3>2. id[a] = a /\ a \in DOMAIN home  BY <1>2, <2>1, <3>1
    <3>3. mem[a].type # "TBROKEN_HEART"  BY <1>5 DEF RunCells, Sound
    <3> QED  BY <1>4, <3>2, <3>3
  <2> QED  BY <2>1 DEF AtHome
<1>7. RInv  BY <1>2, <1>6 DEF RInv, Collecting
<1>8. DOMAIN Store = DOMAIN home /\ \A o \in DOMAIN home : Store[o] = Contents(mem, id, home[o])
  BY DEF Store, Objects
<1>9. 1 .. NSymbols \subseteq DOMAIN Store  BY <1>2, <1>8 DEF Symbols
<1>10. Abs!Closed(DOMAIN Store, Store)
  <2>1. \A o \in DOMAIN home : References(Contents(mem, id, home[o])) \subseteq DOMAIN home
    BY <1>5, <1>6, RunClosed
  <2> QED  BY <1>8, <2>1, AbsObjects DEF Abs!Closed
<1>11. cell_nil \in 1 .. NSymbols /\ id[cell_nil] = cell_nil
  <2>1. cell_nil \in 1 .. NSymbols  BY <1>1 DEF cell_nil
  <2> QED  BY <1>2, <1>4, <2>1 DEF Symbols
<1>12. \A r \in Regs : Registers[r] \in 1 .. NSymbols  BY <1>2, <1>11 DEF Registers
<1>13. \A g \in Globals : GlobalObjects[g] \in DOMAIN Store
  <2>1. id[TableAt] = TableAt /\ TableAt \in DOMAIN Store  BY <1>2, <1>4, <1>8
  <2>2. \A g \in Globals : globals[g] = TableAt \/ globals[g] = cell_nil  BY <1>2
  <2> QED  BY <1>9, <1>11, <2>1, <2>2 DEF GlobalObjects
<1>14. Frames = <<>>
  <2>1. STACK_SIZE \in Nat /\ GC_FRAME_SIZE \in Nat \ {0}  BY SizesAssumption DEF GC_FRAME_SIZE
  <2>2. FrameStart = STACK_SIZE  BY <1>2 DEF FrameStart
  <2>3. (STACK_SIZE - STACK_SIZE) \div GC_FRAME_SIZE = 0
    <3>1. \A f \in Nat \ {0} : 0 \div f = 0  OBVIOUS
    <3> QED  BY <2>1, <3>1
  <2>4. DOMAIN Frames = 1 .. 0  BY <2>2, <2>3 DEF Frames
  <2>5. Frames = [n \in DOMAIN Frames |-> Frames[n]]  BY DEF Frames
  <2>6. Frames \in [1 .. 0 -> {}]  BY <2>4, <2>5
  <2> QED  BY <2>6
<1>15. Abs!Init  BY <1>9, <1>10, <1>12, <1>13, <1>14, SameRegs DEF Abs!Init
<1> QED  BY <1>7, <1>15

\* Every step maps to a step of the abstract heap, or to none.
LEMMA NextSeen ==
  ASSUME IInv, IInv', RInv, ~Interior, [Next]_vars
  PROVE  RInv' /\ [Abs!Next]_(Abs!vars)
<1>1. CASE Program
  <2>1. RInv' /\ AbsStep  BY <1>1, ProgramSeen
  <2> QED  BY <2>1 DEF AbsStep
<1>2. CASE gc_check  BY <1>2, GcCheckSeen
<1>3. CASE Copying  BY <1>3, CopyingSeen
<1>4. CASE gc_flip
  <2>1. RInv' /\ Abs!Collect  BY <1>4, FlipSeen
  <2> QED  BY <2>1 DEF Abs!Next
<1>5. CASE UNCHANGED vars
  <2>1. UNCHANGED <<mem, g_free, g_news, g_stack, g_stack_array, regs, globals, phase, id, home>>
    BY <1>5 DEF vars
  <2>2. Store' = Store  BY <2>1 DEF Store, Objects
  <2>3. Registers' = Registers /\ GlobalObjects' = GlobalObjects  BY <2>1 DEF Registers, GlobalObjects
  <2>4. FrameStart' = FrameStart  BY <2>1 DEF FrameStart
  <2>5. Frames' = Frames  BY <2>1, <2>4 DEF Frames
  <2>6. RInv'  BY <2>1 DEF RInv, AtHome, Saved, Collecting
  <2> QED  BY <2>2, <2>3, <2>5, <2>6, Unseen
<1> QED  BY <1>1, <1>2, <1>3, <1>4, <1>5 DEF Next, Collect, Copying

-----------------------------------------------------------------------------
\* What a program sees is a heap of objects without addresses: each operation
\* does to the objects what it says, a collection moves all of them in steps
\* the program cannot tell, and drops only objects it cannot reach.  For every
\* size of the arena and the stack, every number of symbols, and every program
\* that does not go inside a vector with a C pointer.
THEOREM HeapIsAbstract == ~Interior => (Spec => ImplementsAbstractHeap)
<1>1. CASE Interior  BY <1>1
<1>2. CASE ~Interior
  <2>1. Init => RInv /\ Abs!Init  BY <1>2, InitSeen
  <2>2. IInv /\ IInv' /\ RInv /\ [Next]_vars => RInv' /\ [Abs!Next]_(Abs!vars)  BY <1>2, NextSeen
  <2> QED  BY <2>1, <2>2, Invariance, PTL DEF Spec, ImplementsAbstractHeap, Abs!Spec
<1> QED  BY <1>1, <1>2
=============================================================================
