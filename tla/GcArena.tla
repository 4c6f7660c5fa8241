------------------------------ MODULE GcArena ------------------------------
(***************************************************************************)
(* The sizes of the arena: gc_init, the limit on allocations, gc_check,    *)
(* the room a collection needs behind the arena, and gc_up_arena           *)
(* (src/gc.c).                                                             *)
(*                                                                         *)
(* One block of memory holds, in cells,                                    *)
(*                                                                         *)
(*   cell_arena | cell_zero .. g_free .. ARENA_SIZE .. JAM_SIZE | stack    *)
(*                                                                         *)
(* The program may fill ARENA_SIZE cells.  A collection puts its copies    *)
(* behind g_free, whatever is there.  g_free and g_news count cells from   *)
(* g_cells, which is cell_zero; stack_at counts from there too.  Module Gc *)
(* says what is copied; here only the number of cells matters.             *)
(***************************************************************************)
EXTENDS Integers

CONSTANTS
  Builds,      \* "gcc": pointers count cells; "M2": pointers count bytes
  Arenas,      \* values of MES_ARENA
  MaxArenas,   \* values of MES_MAX_ARENA
  Jams,        \* values of MES_JAM, or Unset
  Safeties,    \* values of MES_SAFETY, or Unset
  STACK_SIZE,  \* slots of the stack, one word each
  CELL_BYTES,  \* sizeof (struct scm)
  WORD,        \* sizes are unsigned words: they wrap at WORD
  Static,      \* cells in use when the program starts
  MaxLive,     \* cells of the data a program keeps at any one time
  MaxAlloc     \* cells it allocates between two calls of gc_check

Unset == -1
GC_FRAME_SIZE == 5
CELL_WORDS    == 3

ASSUME SettingsAssumption ==
  /\ Builds \subseteq {"gcc", "M2"}
  /\ Arenas \subseteq Nat /\ MaxArenas \subseteq Nat
  /\ Jams \subseteq Nat \cup {Unset} /\ Safeties \subseteq Nat \cup {Unset}
  /\ STACK_SIZE \in Nat /\ CELL_BYTES \in Nat \ {0} /\ WORD \in Nat \ {0}

\* The static cells are in use for good, and they fit in every arena.
ASSUME ProgramAssumption ==
  /\ Static \in Nat /\ MaxLive \in Nat /\ MaxAlloc \in Nat
  /\ 1 < Static /\ Static <= MaxLive + 1
  /\ \A a \in Arenas : Static <= a

VARIABLES
  build,
  ARENA_SIZE, MAX_ARENA_SIZE, JAM_SIZE, GC_SAFETY,
  g_free,      \* the first free cell
  g_news,      \* the new space, while collecting
  g_stack,     \* the youngest slot of the stack
  stack_at,    \* the cell where g_stack_array begins
  live,        \* while collecting: cells that are still to be copied
  since,       \* cells allocated since the last gc_check
  grown,       \* history: 1 when gc_up_arena has changed the sizes
  phase        \* "run", "copy", or why the program stopped

settings == <<build, MAX_ARENA_SIZE>>
sizes    == <<ARENA_SIZE, JAM_SIZE, GC_SAFETY, grown>>
vars     == <<settings, sizes, g_free, g_news, g_stack, stack_at, live, since,
              phase>>

-----------------------------------------------------------------------------
\* The default of a setting is a share of the arena.
Setting(value, default) == IF value = Unset THEN default ELSE value

\* cell_arena stands before cell_zero, the stack behind arena and jam.
StackAt(arena, jam) == arena + jam - 1

\* The first cell with a slot of the stack at s or above.
CellOfSlot(s) == stack_at + s \div CELL_WORDS

gc_init ==
  /\ build \in Builds
  /\ ARENA_SIZE \in Arenas /\ MAX_ARENA_SIZE \in MaxArenas
  /\ \E jam \in Jams : JAM_SIZE = Setting(jam, ARENA_SIZE \div 10)
  /\ \E safety \in Safeties : GC_SAFETY = Setting(safety, ARENA_SIZE \div 100)
  /\ stack_at = StackAt(ARENA_SIZE, JAM_SIZE)

Init ==
  /\ gc_init
  /\ g_free = Static /\ g_news = 0
  /\ g_stack = STACK_SIZE
  /\ live = 0 /\ since = 0
  /\ grown = 0
  /\ phase = "run"

Stop(why) ==
  /\ phase' = why
  /\ UNCHANGED <<settings, sizes, g_free, g_news, g_stack, stack_at, live,
                 since>>

-----------------------------------------------------------------------------
(***************************************************************************)
(* The program.                                                            *)
(***************************************************************************)
\* alloc, make_cell: n cells.  g_free moves before the limit is looked at.
ExceedsBefore(n) == g_free > ARENA_SIZE     \* mutant: g_free moves after
Exceeds(n)       == g_free + n > ARENA_SIZE

alloc(n) ==
  /\ phase = "run" /\ since + n <= MaxAlloc
  /\ IF Exceeds(n) THEN Stop("out of memory")
     ELSE IF g_free + n > CellOfSlot(g_stack) THEN Stop("overrun")
     ELSE /\ g_free' = g_free + n
          /\ since' = since + n
          /\ UNCHANGED <<settings, sizes, g_news, g_stack, stack_at, live, phase>>

PushUnchecked ==                            \* mutant: no test for a full stack
  /\ phase = "run" /\ g_free <= CellOfSlot(g_stack - GC_FRAME_SIZE)
  /\ g_stack' = g_stack - GC_FRAME_SIZE
  /\ UNCHANGED <<settings, sizes, g_free, g_news, stack_at, live, since, phase>>

gc_push_frame ==
  /\ phase = "run"
  /\ IF g_stack < GC_FRAME_SIZE THEN Stop("stack full")
     ELSE IF g_free > CellOfSlot(g_stack - GC_FRAME_SIZE) THEN Stop("overrun")
     ELSE /\ g_stack' = g_stack - GC_FRAME_SIZE
          /\ UNCHANGED <<settings, sizes, g_free, g_news, stack_at, live,
                         since, phase>>

gc_pop_frame ==
  /\ phase = "run" /\ g_stack + GC_FRAME_SIZE <= STACK_SIZE
  /\ g_stack' = g_stack + GC_FRAME_SIZE
  /\ UNCHANGED <<settings, sizes, g_free, g_news, stack_at, live, since,
                 phase>>

-----------------------------------------------------------------------------
(***************************************************************************)
(* The collection.                                                         *)
(***************************************************************************)
\* The test of gc_ whether the arena may grow compares g_cells with
\* g_arena + M2_CELL_SIZE, as bytes: that is one cell in a build by M2-Planet,
\* but one byte in any other.
MayGrow == ARENA_SIZE < MAX_ARENA_SIZE /\ build = "M2"

\* The sizes after gc_up_arena.
Doubles == ARENA_SIZE \div 2 < MAX_ARENA_SIZE \div 4
GrownArena == IF Doubles THEN ARENA_SIZE * 2
              ELSE (MAX_ARENA_SIZE - JAM_SIZE) % WORD
GrownJam    == IF Doubles THEN JAM_SIZE * 2 ELSE JAM_SIZE
GrownSafety == IF Doubles THEN GC_SAFETY * 2 ELSE GC_SAFETY

\* gc_init_news: cell_arena and cell_zero of the new space.
StartCopy ==
  /\ g_news' = g_free + 1
  /\ g_free' = g_free + 2
  /\ g_stack' = g_stack - GC_FRAME_SIZE
  /\ phase' = "copy"
  /\ live' \in Static - 1 .. MaxLive /\ live' < g_free
  /\ UNCHANGED <<settings, stack_at, since>>

\* gc_up_arena.  When realloc leaves the block in place, the stack is copied to
\* its new end, but g_stack_array keeps pointing to where it was.  When it
\* moves the block, g_free, the stack and the symbols point to freed memory.
gc_up_arena ==
  \/ /\ ARENA_SIZE' = GrownArena
     /\ JAM_SIZE' = GrownJam
     /\ GC_SAFETY' = GrownSafety
     /\ grown' = 1
     /\ StartCopy
  \/ Stop("realloc failed")
  \/ Stop("use after free")

\* gc, up to the first gc_copy.
gc ==
  IF g_stack < GC_FRAME_SIZE THEN Stop("stack full")
  ELSE IF g_free + 2 > CellOfSlot(g_stack - GC_FRAME_SIZE)
    THEN Stop("overrun")
  ELSE IF MayGrow THEN gc_up_arena
  ELSE StartCopy /\ UNCHANGED sizes

Full       == g_free >= ARENA_SIZE      \* mutant: GC_SAFETY is forgotten
NearlyFull == g_free + GC_SAFETY >= ARENA_SIZE

gc_check ==
  /\ phase = "run"
  /\ IF NearlyFull
       THEN gc
       ELSE /\ since' = 0
            /\ UNCHANGED <<settings, sizes, g_free, g_news, g_stack, stack_at,
                           live, phase>>

\* gc_copy of an object of n cells.
gc_copy(n) ==
  /\ phase = "copy" /\ n <= live
  /\ IF g_free + n > CellOfSlot(g_stack)
       THEN Stop("overrun")
       ELSE /\ g_free' = g_free + n
            /\ live' = live - n
            /\ UNCHANGED <<settings, sizes, g_news, g_stack, stack_at, since,
                           phase>>

\* The copies, in the units of pointer arithmetic of the build.
PointerDistance == (g_free - g_news) * IF build = "M2" THEN CELL_BYTES ELSE 1

\* gc_flip: a jam that was too small gets a new size, and no memory.
gc_flip ==
  /\ phase = "copy" /\ live = 0
  /\ JAM_SIZE' = IF PointerDistance > JAM_SIZE THEN (PointerDistance * 3) \div 2
                 ELSE JAM_SIZE
  /\ g_free' = g_free - g_news
  /\ g_news' = 0
  /\ g_stack' = g_stack + GC_FRAME_SIZE
  /\ since' = 0
  /\ phase' = "run"
  /\ UNCHANGED <<settings, ARENA_SIZE, GC_SAFETY, grown, stack_at, live>>

Next ==
  \/ \E n \in 1 .. MaxAlloc : alloc(n)
  \/ gc_push_frame
  \/ gc_pop_frame
  \/ gc_check
  \/ \E n \in 1 .. MaxLive : gc_copy(n)
  \/ gc_flip

Spec == Init /\ [][Next]_vars

-----------------------------------------------------------------------------
(***************************************************************************)
(* Properties.                                                             *)
(***************************************************************************)
Stopped == {"out of memory", "stack full", "overrun", "realloc failed",
            "use after free"}

\* The variables have their types.
TypeOK ==
  /\ build \in Builds
  /\ ARENA_SIZE \in Nat /\ MAX_ARENA_SIZE \in Nat /\ JAM_SIZE \in Nat
  /\ GC_SAFETY \in Nat
  /\ g_free \in Nat /\ g_news \in Nat /\ live \in Nat
  /\ g_stack \in 0 .. STACK_SIZE
  /\ stack_at \in Int
  /\ since \in 0 .. MaxAlloc
  /\ grown \in {0, 1}
  /\ phase \in {"run", "copy"} \cup Stopped

\* With room for the live data behind a full arena, a collection never writes
\* over the stack: the jam must hold the live data and three cells more.  (The
\* default jam is a tenth of the arena.)  That is said of an arena that keeps
\* the size gc_init gave it: gc_up_arena does not move g_stack_array.
JamHoldsTheLiveData == grown = 0 /\ ARENA_SIZE + MaxLive + 2 <= stack_at
RoomyJamKeepsTheStack == JamHoldsTheLiveData => phase # "overrun"

\* A program that allocates at most GC_SAFETY cells between two calls of
\* gc_check, and whose live data leaves that many cells of the arena free,
\* never runs out of memory: the safety margin is what gc_check makes of it.
SafetyCoversTheProgram ==
  MaxAlloc <= GC_SAFETY /\ MaxLive + 1 + MaxAlloc <= ARENA_SIZE
SafetyMarginHolds == SafetyCoversTheProgram => phase # "out of memory"

\* MES_ARENA is the initial size of the arena and MES_MAX_ARENA its maximum:
\* a program runs out of memory only when the arena has its maximum size.
OutOfMemoryOnlyAtMaximum ==
  phase = "out of memory" => ARENA_SIZE >= MAX_ARENA_SIZE

\* Moving the new space back over the old one spares the second half of a
\* stop-and-copy collector: live data of more than the jam is collected too.
CollectsWithoutASecondHalf == phase # "overrun"
=============================================================================
