--------------------------- MODULE GcArena_proofs ---------------------------
(***************************************************************************)
(* Proofs about GcArena, for all settings, stacks and programs.            *)
(***************************************************************************)
EXTENDS GcArena, TLAPS

\* While it copies, the collector has at most the live data to copy, and no
\* more than was in use before; the frame that gc pushed is on the stack.
CopyBounds ==
  phase = "copy" =>
    /\ 1 <= g_news /\ g_news <= g_free
    /\ g_free - g_news + live <= MaxLive + 1
    /\ g_free - g_news + live <= g_news - 1
    /\ g_stack + GC_FRAME_SIZE <= STACK_SIZE

\* The cells in use, and the start of the new space, are in the arena.
InArena ==
  grown = 0 =>
    /\ phase = "run" => g_free <= ARENA_SIZE
    /\ phase = "copy" => g_news - 1 <= ARENA_SIZE

\* What the program may still allocate before gc_check fits in the arena.
Margin ==
  phase = "run" /\ SafetyCoversTheProgram =>
    g_free + MaxAlloc - since <= ARENA_SIZE

IInv == /\ TypeOK
        /\ CopyBounds
        /\ InArena
        /\ Margin
        /\ RoomyJamKeepsTheStack
        /\ SafetyMarginHolds

\* The floor of a natural number divided by 2 or by 3 is one.
LEMMA Halves == ASSUME NEW n \in Nat PROVE n \div 2 \in Nat
  OBVIOUS

LEMMA Thirds == ASSUME NEW n \in Nat PROVE n \div 3 \in Nat
  OBVIOUS

\* A slot of the stack is never below the beginning of the stack.
LEMMA SlotAboveStack ==
  ASSUME NEW s \in Nat, stack_at \in Int
  PROVE  CellOfSlot(s) \in Int /\ stack_at <= CellOfSlot(s)
  BY Thirds DEF CellOfSlot, CELL_WORDS

\* gc_init makes the invariant true.
LEMMA InitIInv == Init => IInv
  <1> SUFFICES ASSUME Init PROVE IInv
    OBVIOUS
  <1>1. /\ build \in Builds
        /\ ARENA_SIZE \in Nat /\ MAX_ARENA_SIZE \in Nat
        /\ Static <= ARENA_SIZE
    BY SettingsAssumption, ProgramAssumption DEF Init, gc_init
  <1>2. JAM_SIZE \in Nat
    <2>1. PICK jam \in Jams : JAM_SIZE = Setting(jam, ARENA_SIZE \div 10)
      BY DEF Init, gc_init
    <2> QED
      BY <1>1, <2>1, SettingsAssumption DEF Setting
  <1>3. GC_SAFETY \in Nat
    <2>1. PICK safety \in Safeties : GC_SAFETY = Setting(safety, ARENA_SIZE \div 100)
      BY DEF Init, gc_init
    <2> QED
      BY <1>1, <2>1, SettingsAssumption DEF Setting
  <1>4. /\ stack_at \in Int /\ g_free = Static /\ g_news = 0 /\ g_stack = STACK_SIZE
        /\ live = 0 /\ since = 0 /\ grown = 0 /\ phase = "run"
    BY <1>1, <1>2 DEF Init, gc_init, StackAt
  <1>5. TypeOK
    BY <1>1, <1>2, <1>3, <1>4, SettingsAssumption, ProgramAssumption DEF TypeOK
  <1>6. CopyBounds /\ InArena
    BY <1>1, <1>4 DEF CopyBounds, InArena
  <1>7. Margin
    BY <1>1, <1>3, <1>4, ProgramAssumption DEF Margin, SafetyCoversTheProgram
  <1>8. RoomyJamKeepsTheStack /\ SafetyMarginHolds
    BY <1>4 DEF RoomyJamKeepsTheStack, SafetyMarginHolds
  <1> QED
    BY <1>5, <1>6, <1>7, <1>8 DEF IInv

\* A step that only stops the program keeps the invariant, when the reason is
\* not one that the properties exclude.
LEMMA StopIInv ==
  ASSUME NEW why \in Stopped, IInv, Stop(why),
         why = "overrun" => ~JamHoldsTheLiveData,
         why = "out of memory" => ~SafetyCoversTheProgram
  PROVE  IInv'
  <1> USE DEF Stop, settings, sizes, Stopped
  <1>1. TypeOK'
    BY DEF IInv, TypeOK
  <1>2. CopyBounds' /\ InArena' /\ Margin'
    BY DEF CopyBounds, InArena, Margin
  <1>3. JamHoldsTheLiveData' = JamHoldsTheLiveData
        /\ SafetyCoversTheProgram' = SafetyCoversTheProgram
    BY DEF JamHoldsTheLiveData, SafetyCoversTheProgram
  <1>4. RoomyJamKeepsTheStack' /\ SafetyMarginHolds'
    BY <1>3 DEF RoomyJamKeepsTheStack, SafetyMarginHolds
  <1> QED
    BY <1>1, <1>2, <1>4 DEF IInv

\* Every step of a program or of a collection keeps the invariant.
LEMMA AllocIInv ==
  ASSUME IInv, NEW n \in 1 .. MaxAlloc, alloc(n)
  PROVE  IInv'
  <1>0. /\ TypeOK /\ phase = "run" /\ since + n <= MaxAlloc
        /\ MaxLive \in Nat /\ MaxAlloc \in Nat
    BY ProgramAssumption DEF IInv, alloc
  <1>1. CASE Exceeds(n)
    <2>1. Stop("out of memory")
      BY <1>1 DEF alloc
    <2>2. ~SafetyCoversTheProgram
      BY <1>0, <1>1 DEF IInv, Margin, Exceeds, TypeOK, SafetyCoversTheProgram
    <2> QED
      BY <2>1, <2>2, StopIInv DEF Stopped
  <1>2. CASE ~Exceeds(n) /\ g_free + n > CellOfSlot(g_stack)
    <2>1. Stop("overrun")
      BY <1>2 DEF alloc
    <2>2. stack_at <= CellOfSlot(g_stack) /\ CellOfSlot(g_stack) \in Int
      BY <1>0, SlotAboveStack, SettingsAssumption DEF TypeOK
    <2>3. ~JamHoldsTheLiveData
      BY <1>0, <1>2, <2>2 DEF Exceeds, TypeOK, JamHoldsTheLiveData
    <2> QED
      BY <2>1, <2>3, StopIInv DEF Stopped
  <1>3. CASE ~Exceeds(n) /\ ~(g_free + n > CellOfSlot(g_stack))
    <2>1. /\ g_free' = g_free + n /\ since' = since + n
          /\ UNCHANGED <<settings, sizes, g_news, g_stack, stack_at, live, phase>>
      BY <1>3 DEF alloc
    <2>2. TypeOK'
      BY <1>0, <2>1 DEF TypeOK, settings, sizes
    <2>3. CopyBounds' /\ InArena' /\ Margin'
      BY <1>0, <1>3, <2>1
      DEF IInv, TypeOK, CopyBounds, InArena, Margin, SafetyCoversTheProgram,
          Exceeds, settings, sizes
    <2>4. RoomyJamKeepsTheStack' /\ SafetyMarginHolds'
      BY <1>0, <2>1 DEF RoomyJamKeepsTheStack, SafetyMarginHolds
    <2> QED
      BY <2>2, <2>3, <2>4 DEF IInv
  <1> QED
    BY <1>1, <1>2, <1>3

LEMMA PushIInv ==
  ASSUME IInv, gc_push_frame
  PROVE  IInv'
  <1>0. TypeOK /\ phase = "run" /\ STACK_SIZE \in Nat /\ MaxLive \in Nat
    BY SettingsAssumption, ProgramAssumption DEF IInv, gc_push_frame
  <1>1. CASE g_stack < GC_FRAME_SIZE
    BY <1>1, StopIInv DEF gc_push_frame, Stopped
  <1>2. CASE ~(g_stack < GC_FRAME_SIZE) /\ g_free > CellOfSlot(g_stack - GC_FRAME_SIZE)
    <2>1. g_stack - GC_FRAME_SIZE \in Nat
      BY <1>0, <1>2 DEF TypeOK, GC_FRAME_SIZE
    <2>2. /\ stack_at <= CellOfSlot(g_stack - GC_FRAME_SIZE)
          /\ CellOfSlot(g_stack - GC_FRAME_SIZE) \in Int
      BY <1>0, <2>1, SlotAboveStack DEF TypeOK
    <2>3. ~JamHoldsTheLiveData
      BY <1>0, <1>2, <2>2 DEF IInv, InArena, TypeOK, JamHoldsTheLiveData
    <2> QED
      BY <1>2, <2>3, StopIInv DEF gc_push_frame, Stopped
  <1>3. CASE ~(g_stack < GC_FRAME_SIZE)
             /\ ~(g_free > CellOfSlot(g_stack - GC_FRAME_SIZE))
    <2>1. /\ g_stack' = g_stack - GC_FRAME_SIZE
          /\ UNCHANGED <<settings, sizes, g_free, g_news, stack_at, live, since, phase>>
      BY <1>3 DEF gc_push_frame
    <2>2. g_stack' \in 0 .. STACK_SIZE
      BY <1>0, <1>3, <2>1 DEF TypeOK, GC_FRAME_SIZE
    <2>3. TypeOK'
      BY <1>0, <2>1, <2>2 DEF TypeOK, settings, sizes
    <2> QED
      BY <1>0, <2>1, <2>3
      DEF IInv, CopyBounds, InArena, Margin, SafetyCoversTheProgram, settings,
          sizes, RoomyJamKeepsTheStack, SafetyMarginHolds
  <1> QED
    BY <1>1, <1>2, <1>3

LEMMA PopIInv ==
  ASSUME IInv, gc_pop_frame
  PROVE  IInv'
  <1>0. TypeOK /\ phase = "run" /\ STACK_SIZE \in Nat
    BY SettingsAssumption DEF IInv, gc_pop_frame
  <1>1. /\ g_stack' = g_stack + GC_FRAME_SIZE /\ g_stack + GC_FRAME_SIZE <= STACK_SIZE
        /\ UNCHANGED <<settings, sizes, g_free, g_news, stack_at, live, since, phase>>
    BY DEF gc_pop_frame
  <1>2. g_stack' \in 0 .. STACK_SIZE
    BY <1>0, <1>1 DEF TypeOK, GC_FRAME_SIZE
  <1>3. TypeOK'
    BY <1>0, <1>1, <1>2 DEF TypeOK, settings, sizes
  <1> QED
    BY <1>0, <1>1, <1>3
    DEF IInv, CopyBounds, InArena, Margin, SafetyCoversTheProgram, settings,
        sizes, RoomyJamKeepsTheStack, SafetyMarginHolds

\* The sizes that gc_up_arena computes are sizes.
LEMMA Remainder ==
  ASSUME NEW a \in Int, NEW b \in Nat \ {0}
  PROVE  a % b \in Nat
  OBVIOUS

\* The sizes after growth are natural numbers.
LEMMA GrownSizes ==
  ASSUME TypeOK
  PROVE  GrownArena \in Nat /\ GrownJam \in Nat /\ GrownSafety \in Nat
  <1>1. (MAX_ARENA_SIZE - JAM_SIZE) % WORD \in Nat
    BY Remainder, SettingsAssumption DEF TypeOK
  <1> QED
    BY <1>1 DEF TypeOK, GrownArena, GrownJam, GrownSafety

\* A collection starts within the bounds, whether or not the sizes change.
LEMMA StartIInv ==
  ASSUME IInv, StartCopy, phase = "run", GC_FRAME_SIZE <= g_stack,
         ARENA_SIZE' \in Nat, JAM_SIZE' \in Nat, GC_SAFETY' \in Nat,
         grown' \in {0, 1}, grown' = 0 => grown = 0 /\ ARENA_SIZE' = ARENA_SIZE
  PROVE  IInv'
  <1>0. /\ TypeOK /\ STACK_SIZE \in Nat /\ MaxLive \in Nat /\ Static \in Nat
        /\ 1 < Static
    BY SettingsAssumption, ProgramAssumption DEF IInv
  <1>1. /\ g_news' = g_free + 1 /\ g_free' = g_free + 2
        /\ g_stack' = g_stack - GC_FRAME_SIZE /\ phase' = "copy"
        /\ live' \in Static - 1 .. MaxLive /\ live' < g_free
        /\ UNCHANGED <<settings, stack_at, since>>
    BY DEF StartCopy
  <1>2. g_stack' \in 0 .. STACK_SIZE
    BY <1>0, <1>1 DEF TypeOK, GC_FRAME_SIZE
  <1>3. TypeOK'
    BY <1>0, <1>1, <1>2 DEF TypeOK, settings
  <1>4. CopyBounds'
    <2>1. g_free \in Nat /\ live' \in Nat /\ live' <= MaxLive /\ live' < g_free
      BY <1>0, <1>1 DEF TypeOK
    <2>2. /\ 1 <= g_news' /\ g_news' <= g_free' /\ g_free' - g_news' = 1
          /\ g_news' - 1 = g_free
      BY <1>1, <2>1
    <2>3. g_stack' + GC_FRAME_SIZE <= STACK_SIZE
      BY <1>0, <1>1 DEF TypeOK, GC_FRAME_SIZE
    <2> QED
      BY <1>0, <2>1, <2>2, <2>3 DEF CopyBounds
  <1>5. InArena' /\ Margin'
    BY <1>0, <1>1 DEF IInv, InArena, Margin, TypeOK
  <1>6. RoomyJamKeepsTheStack' /\ SafetyMarginHolds'
    BY <1>1 DEF RoomyJamKeepsTheStack, SafetyMarginHolds
  <1> QED
    BY <1>3, <1>4, <1>5, <1>6 DEF IInv

\* gc_up_arena grows the arena and a collection starts, or the program stops.
LEMMA GrowIInv ==
  ASSUME IInv, gc_up_arena, phase = "run", GC_FRAME_SIZE <= g_stack
  PROVE  IInv'
  <1>1. CASE /\ ARENA_SIZE' = GrownArena /\ JAM_SIZE' = GrownJam
             /\ GC_SAFETY' = GrownSafety /\ grown' = 1 /\ StartCopy
    BY <1>1, GrownSizes, StartIInv DEF IInv
  <1>2. CASE Stop("realloc failed")
    BY <1>2, StopIInv DEF Stopped
  <1>3. CASE Stop("use after free")
    BY <1>3, StopIInv DEF Stopped
  <1> QED
    BY <1>1, <1>2, <1>3 DEF gc_up_arena

\* gc_check leaves the margin, grows the arena, or starts a collection.
LEMMA CheckIInv ==
  ASSUME IInv, gc_check
  PROVE  IInv'
  <1>0. /\ TypeOK /\ phase = "run"
        /\ STACK_SIZE \in Nat /\ MaxLive \in Nat /\ MaxAlloc \in Nat
    BY SettingsAssumption, ProgramAssumption DEF IInv, gc_check
  <1>1. CASE ~NearlyFull
    <2>1. /\ since' = 0
          /\ UNCHANGED <<settings, sizes, g_free, g_news, g_stack, stack_at, live, phase>>
      BY <1>1 DEF gc_check
    <2>2. TypeOK'
      BY <1>0, <2>1 DEF TypeOK, settings, sizes
    <2>3. Margin'
      BY <1>0, <1>1, <2>1
      DEF TypeOK, Margin, SafetyCoversTheProgram, NearlyFull, settings, sizes
    <2> QED
      BY <1>0, <2>1, <2>2, <2>3
      DEF IInv, CopyBounds, InArena, settings, sizes, RoomyJamKeepsTheStack,
          SafetyMarginHolds
  <1>2. CASE NearlyFull
    <2>0. gc
      BY <1>2 DEF gc_check
    <2>1. CASE g_stack < GC_FRAME_SIZE
      BY <2>0, <2>1, StopIInv DEF gc, Stopped
    <2>2. CASE /\ ~(g_stack < GC_FRAME_SIZE)
               /\ g_free + 2 > CellOfSlot(g_stack - GC_FRAME_SIZE)
      <3>1. g_stack - GC_FRAME_SIZE \in Nat
        BY <1>0, <2>2 DEF TypeOK, GC_FRAME_SIZE
      <3>2. /\ stack_at <= CellOfSlot(g_stack - GC_FRAME_SIZE)
            /\ CellOfSlot(g_stack - GC_FRAME_SIZE) \in Int
        BY <1>0, <3>1, SlotAboveStack DEF TypeOK
      <3>3. ~JamHoldsTheLiveData
        BY <1>0, <2>2, <3>2 DEF IInv, InArena, TypeOK, JamHoldsTheLiveData
      <3> QED
        BY <2>0, <2>2, <3>3, StopIInv DEF gc, Stopped
    <2>3. CASE /\ ~(g_stack < GC_FRAME_SIZE)
               /\ ~(g_free + 2 > CellOfSlot(g_stack - GC_FRAME_SIZE))
      <3>1. GC_FRAME_SIZE <= g_stack
        BY <1>0, <2>3 DEF TypeOK, GC_FRAME_SIZE
      <3>2. CASE MayGrow
        BY <1>0, <2>0, <2>3, <3>1, <3>2, GrowIInv DEF gc
      <3>3. CASE ~MayGrow
        <4>1. StartCopy /\ UNCHANGED sizes
          BY <2>0, <2>3, <3>3 DEF gc
        <4> QED
          BY <1>0, <3>1, <4>1, StartIInv DEF TypeOK, sizes
      <3> QED
        BY <3>2, <3>3
    <2> QED
      BY <2>1, <2>2, <2>3
  <1> QED
    BY <1>1, <1>2

\* Copies stay within the bounds.
LEMMA CopyIInv ==
  ASSUME IInv, NEW n \in 1 .. MaxLive, gc_copy(n)
  PROVE  IInv'
  <1>0. /\ TypeOK /\ phase = "copy" /\ n <= live
        /\ STACK_SIZE \in Nat /\ MaxLive \in Nat
    BY SettingsAssumption, ProgramAssumption DEF IInv, gc_copy
  <1>1. CASE g_free + n > CellOfSlot(g_stack)
    <2>1. stack_at <= CellOfSlot(g_stack) /\ CellOfSlot(g_stack) \in Int
      BY <1>0, SlotAboveStack DEF TypeOK
    <2>2. ~JamHoldsTheLiveData
      BY <1>0, <1>1, <2>1 DEF IInv, CopyBounds, InArena, TypeOK, JamHoldsTheLiveData
    <2> QED
      BY <1>1, <2>2, StopIInv DEF gc_copy, Stopped
  <1>2. CASE ~(g_free + n > CellOfSlot(g_stack))
    <2>1. /\ g_free' = g_free + n /\ live' = live - n
          /\ UNCHANGED <<settings, sizes, g_news, g_stack, stack_at, since, phase>>
      BY <1>2 DEF gc_copy
    <2>2. TypeOK'
      BY <1>0, <2>1 DEF TypeOK, settings, sizes
    <2>3. CopyBounds'
      BY <1>0, <2>1 DEF IInv, CopyBounds, TypeOK
    <2> QED
      BY <1>0, <2>1, <2>2, <2>3
      DEF IInv, InArena, Margin, settings, sizes, RoomyJamKeepsTheStack,
          SafetyMarginHolds
  <1> QED
    BY <1>1, <1>2

\* gc_flip: what was copied is the program's, the jam is new.
LEMMA FlipIInv ==
  ASSUME IInv, gc_flip
  PROVE  IInv'
  <1>0. /\ TypeOK /\ phase = "copy" /\ live = 0
        /\ STACK_SIZE \in Nat /\ MaxLive \in Nat /\ MaxAlloc \in Nat
    BY SettingsAssumption, ProgramAssumption DEF IInv, gc_flip
  <1>1. /\ g_free' = g_free - g_news /\ g_news' = 0
        /\ g_stack' = g_stack + GC_FRAME_SIZE /\ since' = 0 /\ phase' = "run"
        /\ UNCHANGED <<settings, ARENA_SIZE, GC_SAFETY, grown, stack_at, live>>
    BY DEF gc_flip
  <1>2. /\ g_free \in Nat /\ g_news \in Nat /\ g_free - g_news \in Nat
        /\ g_free - g_news <= MaxLive + 1 /\ g_free - g_news <= g_news - 1
        /\ g_stack + GC_FRAME_SIZE <= STACK_SIZE
    BY <1>0 DEF IInv, CopyBounds, TypeOK
  <1>3. JAM_SIZE' \in Nat
    <2>1. PointerDistance \in Nat
      BY <1>2, SettingsAssumption DEF PointerDistance
    <2>2. (PointerDistance * 3) \div 2 \in Nat
      BY <2>1, Halves
    <2> QED
      BY <1>0, <2>2 DEF gc_flip, TypeOK
  <1>4. TypeOK'
    BY <1>0, <1>1, <1>2, <1>3 DEF TypeOK, settings, GC_FRAME_SIZE
  <1>5. CopyBounds'
    BY <1>1 DEF CopyBounds
  <1>6. InArena'
    BY <1>0, <1>1, <1>2 DEF IInv, InArena, TypeOK
  <1>7. Margin'
    BY <1>0, <1>1, <1>2 DEF Margin, SafetyCoversTheProgram, TypeOK, settings
  <1>8. RoomyJamKeepsTheStack' /\ SafetyMarginHolds'
    BY <1>1 DEF RoomyJamKeepsTheStack, SafetyMarginHolds
  <1> QED
    BY <1>4, <1>5, <1>6, <1>7, <1>8 DEF IInv

\* The invariant is inductive.
LEMMA NextIInv == IInv /\ [Next]_vars => IInv'
  <1> SUFFICES ASSUME IInv, [Next]_vars
               PROVE  IInv'
    OBVIOUS
  <1>1. CASE Next
    BY <1>1, AllocIInv, PushIInv, PopIInv, CheckIInv, CopyIInv, FlipIInv DEF Next
  <1>2. CASE UNCHANGED vars
    BY <1>2 DEF vars, settings, sizes, IInv, TypeOK, CopyBounds, InArena, Margin,
                RoomyJamKeepsTheStack, JamHoldsTheLiveData, SafetyMarginHolds,
                SafetyCoversTheProgram
  <1> QED
    BY <1>1, <1>2

\* The invariant holds in every state of every program.
THEOREM Inductive == Spec => []IInv
  BY InitIInv, NextIInv, PTL DEF Spec

\* Sizes, limits and counts keep their types: the unsigned words of gc_up_arena
\* and the difference of pointers in gc_flip stay natural numbers, and g_stack
\* stays within the stack.
THEOREM TypeCorrect == Spec => []TypeOK
  <1>1. IInv => TypeOK
    BY DEF IInv
  <1> QED
    BY <1>1, Inductive, PTL

\* With room for the live data behind a full arena, no allocation, no frame and
\* no collection reaches the stack, whatever the sizes.
THEOREM StackIsKept == Spec => []RoomyJamKeepsTheStack
  <1>1. IInv => RoomyJamKeepsTheStack
    BY DEF IInv
  <1> QED
    BY <1>1, Inductive, PTL

\* A program whose allocations between two calls of gc_check fit in GC_SAFETY
\* never meets the limit, whatever the sizes, in arenas that grow, too.
THEOREM SafetySuffices == Spec => []SafetyMarginHolds
  <1>1. IInv => SafetyMarginHolds
    BY DEF IInv
  <1> QED
    BY <1>1, Inductive, PTL
=============================================================================
