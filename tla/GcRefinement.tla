---------------------------- MODULE GcRefinement ----------------------------
(***************************************************************************)
(* Module Gc implements module AbstractHeap.  An object of the abstract    *)
(* store is what its cells say, in the new space once it has been copied   *)
(* and in the old space before that.                                       *)
(***************************************************************************)
EXTENDS Gc, HeapObjects

\* What the cells at address a of memory m say, where i are the identities.
EntryOf(i, e) == IF e.type = "TREF" THEN Ref(i[e.car]) ELSE Val(e.cdr)

Fields(m, i, a) ==
  LET c == m[a]
  IN CASE c.type = "TPAIR"    -> <<Ref(i[c.car]), Ref(i[c.cdr])>>
       [] c.type = "TBINDING" -> <<Ref(i[c.car]), Val(c.cdr)>>
       [] c.type = "TCLOSURE" -> <<Ref(i[c.cdr])>>
       [] c.type \in {"TNUMBER", "TCHAR"} -> <<Val(c.cdr)>>
       [] c.type = "TBYTES"   -> <<Val(c.car), Val(c.cdr)>>
       [] c.type \in {"TSTRING", "TSPECIAL"} -> <<Val(c.car), Ref(i[c.cdr])>>
       [] c.type \in VectorTypes -> [k \in 1 .. c.car |-> EntryOf(i, m[c.cdr + k - 1])]
       [] OTHER -> <<>>

Contents(m, i, a) == Object(m[a].type, Fields(m, i, a))

Objects == DOMAIN home
Store   == [o \in Objects |-> Contents(mem, id, home[o])]

\* The frame that gc () pushed is not one of the program's.  It is there from
\* gc_init_news to gc_flip, also when the collector has stopped in between.
FrameStart == IF g_news # 0 THEN g_stack + GC_FRAME_SIZE ELSE g_stack
Frames ==
  [n \in 1 .. (STACK_SIZE - FrameStart) \div GC_FRAME_SIZE |->
     [k \in 0 .. NRegs |-> id[g_stack_array[FrameStart + (n - 1) * GC_FRAME_SIZE + k]]]]

\* What the registers and the C globals hold.
Registers     == [r \in Regs |-> id[regs[r]]]
GlobalObjects == [g \in Globals |-> id[globals[g]]]

Abs == INSTANCE AbstractHeap WITH
         store     <- Store,
         regs      <- Registers,
         frames    <- Frames,
         globals   <- GlobalObjects,
         Globals   <- Globals,
         MaxFrames <- STACK_SIZE \div GC_FRAME_SIZE,
         cell_nil  <- cell_nil,
         cell_f    <- cell_f,
         Static    <- 1 .. NSymbols

\* Every step of the program is an operation of the abstract heap, whatever
\* was moved before it; a step of the collector changes nothing the program
\* can see, and the last one drops objects that it cannot reach.
ImplementsAbstractHeap == Abs!Spec

-----------------------------------------------------------------------------
\* The objects that can be reached from set S in n steps, in a store.
Reachable(objects, S, n) ==
  LET reach[k \in 0 .. n] ==
        IF k = 0 THEN S
        ELSE LET before == reach[k - 1]
             IN before \cup UNION {References(objects[i]) : i \in before}
  IN reach[n]

\* A collection keeps nothing the program cannot reach: the objects behind it
\* are those of the roots and of the static symbols.
CollectionIsExact ==
  [][phase = "car" /\ phase' = "run" =>
       Objects' = Reachable(Store, Abs!Roots, Cardinality(Objects))']_vars
=============================================================================
