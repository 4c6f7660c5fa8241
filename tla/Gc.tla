--------------------------------- MODULE Gc ---------------------------------
(***************************************************************************)
(* The cell arena of Mes and its stop-and-copy collector: src/gc.c, with   *)
(* the vectors of src/vector.c and the strings of src/string.c that live   *)
(* in it.                                                                  *)
(*                                                                         *)
(* Memory is an array of cells; an address counts cells from g_cells.      *)
(* A cell has the three words of struct scm: its type, car and cdr; which  *)
(* of the last two is a pointer depends on the type.  gc() pushes the      *)
(* registers, places the new space right behind the used cells, copies     *)
(* the static symbols, the C globals and the stack to it one by one, scans *)
(* it, and then moves the whole new space back to g_cells.  Each call of   *)
(* gc_copy is a step.                                                      *)
(*                                                                         *)
(* A program is any sequence of the operations below on the registers      *)
(* R0..R3 (NRegs of them).  Between two operations it may collect.         *)
(*                                                                         *)
(* Two history variables, that no guard reads, follow the objects: id is   *)
(* the identity of the object whose first cell is, or was, at an address,  *)
(* and home is where the object with an identity is now.                   *)
(***************************************************************************)
EXTENDS Integers, Sequences, FiniteSets

CONSTANTS
  ARENA_SIZE,   \* cells the program may use
  JAM_SIZE,     \* cells of slack the collector has behind the arena
  GC_SAFETY,    \* gc_check collects when at most this many cells are left
  STACK_SIZE,   \* slots of g_stack_array
  NSymbols,     \* the static symbols cell_nil .. g_symbol_max
  NRegs,        \* registers saved in a frame (4 in the code)
  Assigned,     \* the C globals the program assigns
  Values,       \* the numbers and the texts a program uses
  Programs,     \* sets of operations: a program uses those of one set
  Lengths,      \* the lengths of the vectors it makes
  Interior      \* does the program call vector->list on a vector of numbers?

ASSUME SizesAssumption ==
  /\ ARENA_SIZE \in Nat \ {0} /\ JAM_SIZE \in Nat \ {0}
  /\ GC_SAFETY \in Nat /\ STACK_SIZE \in Nat
  /\ NSymbols \in Nat \ {0} /\ NRegs \in Nat \ {0}
  /\ Values \subseteq Int /\ Lengths \subseteq Nat
  /\ Interior \in BOOLEAN

VARIABLES
  mem,           \* the cells from g_cells to the end of the jam
  g_free,        \* the first free cell
  g_news,        \* the new space, while collecting
  scan,          \* the cell of the new space gc_loop looks at
  g_stack,       \* the youngest slot of the stack in use
  g_stack_array, \* the stack: it grows down from STACK_SIZE
  regs,          \* R0 ..
  globals,       \* g_symbols .. M1
  phase,         \* where the collector is, "run", or why the program stopped
  next,          \* the loop counter of a phase of gc_
  uses,          \* the operations the program uses
  id,            \* history: the identity of the object at an address
  home           \* history: the address of an object

vars == <<mem, g_free, g_news, scan, g_stack, g_stack_array, regs, globals,
          phase, next, uses, id, home>>

-----------------------------------------------------------------------------
(***************************************************************************)
(* Layout.                                                                 *)
(***************************************************************************)
MemTop == ARENA_SIZE + JAM_SIZE - 1   \* one cell heads the arena
Addr   == 0 .. MemTop - 1
Regs   == 0 .. NRegs - 1
GC_FRAME_SIZE == NRegs + 1

\* The C globals that gc_ copies, in its order.
GlobalNames == <<"g_symbols", "g_macros", "g_ports", "scm_hash_table_type",
                 "scm_variable_type", "M0", "M1">>
Globals == {GlobalNames[n] : n \in DOMAIN GlobalNames}

cell_zero == 0
cell_nil  == 1
cell_f    == IF NSymbols > 1 THEN 2 ELSE 1

\* The cells that hold length bytes behind two words, for words of 8 bytes.
bytes_cells(length) == (8 + 8 + length - 1 + 8) \div 8

Cell(t, a, d) == [type |-> t, car |-> a, cdr |-> d]
FreeCell == Cell("free", 0, 0)   \* memory nothing was written to yet
RawCell  == Cell("raw", 0, 0)    \* the inside of a block of bytes

\* The cell types whose car, and whose cdr, gc_loop follows.
CarTypes == {"TMACRO", "TPAIR", "TREF", "TBINDING"}
CdrTypesNoSpecial == {"TCLOSURE", "TCONTINUATION", "TKEYWORD", "TMACRO", "TPAIR",
                      "TPORT", "TSTRING", "TSYMBOL", "TVALUES"}    \* mutant
CdrTypesNumber == {"TCLOSURE", "TNUMBER", "TPAIR", "TSPECIAL", "TSTRING"} \* mutant
CdrTypes == {"TCLOSURE", "TCONTINUATION", "TKEYWORD", "TMACRO", "TPAIR",
             "TPORT", "TSPECIAL", "TSTRING", "TSYMBOL", "TVALUES"}
VectorTypes == {"TSTRUCT", "TVECTOR"}

\* The types whose car and cdr gc_cellcpy moves by the distance.  The cdr of
\* a TBYTES is moved too and then overwritten by the bytes themselves.
CellcpyCar == CarTypes
CellcpyCdr == CdrTypes \cup VectorTypes

\* Cells taken by the object whose first cell is c.
Size(c) == IF c.type \in VectorTypes THEN 1 + c.car
           ELSE IF c.type = "TBYTES" THEN bytes_cells(c.car)
           ELSE 1

-----------------------------------------------------------------------------
(***************************************************************************)
(* Identities.                                                             *)
(***************************************************************************)
NoId == -1
Ids  == 0 .. ARENA_SIZE
Fresh == Ids \ DOMAIN home
history == <<id, home>>
FreshIds(n) == CHOOSE f \in [1 .. n -> Fresh] : \A j, k \in 1 .. n : f[j] = f[k] => j = k

Stop(why) ==
  /\ phase' = why
  /\ UNCHANGED <<mem, g_free, g_news, scan, g_stack, g_stack_array, regs,
                 globals, next, uses, history>>

Collector == <<g_news, scan, phase, next, uses>>

-----------------------------------------------------------------------------
(***************************************************************************)
(* The program.  Every allocation moves g_free first and stops the process *)
(* with an assertion when that leaves the arena.                           *)
(***************************************************************************)

\* Write block at g_free; ids names the objects whose first cells are in it.
Put(block, ids, m) ==
  /\ mem' = [a \in Addr |->
               IF a \in g_free .. g_free + Len(block) - 1
                 THEN block[a - g_free + 1] ELSE m[a]]
  /\ id' = [a \in Addr |->
               IF a \in g_free .. g_free + Len(block) - 1
                 THEN ids[a - g_free + 1] ELSE id[a]]
  /\ LET made == {ids[k] : k \in DOMAIN ids} \ {NoId}
     IN home' = [i \in DOMAIN home \cup made |->
                   IF i \in made
                     THEN g_free - 1 + CHOOSE k \in DOMAIN ids : ids[k] = i
                     ELSE home[i]]
  /\ g_free' = g_free + Len(block)

\* Allocate block and leave register r holding the address at.
Allocate(r, block, ids, at) ==
  IF g_free + Len(block) > ARENA_SIZE
    THEN Stop("out of memory")
    ELSE /\ Put(block, ids, mem)
         /\ regs' = [regs EXCEPT ![r] = at]
         /\ UNCHANGED <<g_stack, g_stack_array, globals, Collector>>

MakeCell(r, c) == phase = "run" /\ Allocate(r, <<c>>, FreshIds(1), g_free)

cons(r, a, d) ==
  "cons" \in uses /\ MakeCell(r, Cell("TPAIR", regs[a], regs[d]))

make_binding_(r, handle, lexical_p) ==
  "make_binding_" \in uses /\ MakeCell(r, Cell("TBINDING", regs[handle], lexical_p))

make_closure_(r, d) ==
  "make_closure_" \in uses /\ MakeCell(r, Cell("TCLOSURE", cell_f, regs[d]))

make_number(r, n) ==
  "make_number" \in uses /\ MakeCell(r, Cell("TNUMBER", 0, n))

\* The text of length 1 and the NUL behind it; v stands for the bytes.
make_string(r, v) ==
  /\ "make_string" \in uses
  /\ phase = "run"
  /\ LET raw == bytes_cells(2) - 1 IN
       Allocate(r, <<Cell("TSTRING", 1, g_free + 1), Cell("TBYTES", 2, v)>>
                     \o [k \in 1 .. raw |-> RawCell],
                   FreshIds(2) \o [k \in 1 .. raw |-> NoId],
                   g_free)

\* What a vector stores for the object at e, and the cell that takes to make.
IsNumber(e) == mem[e].type \in {"TCHAR", "TNUMBER"}
vector_entry(e) == IF IsNumber(e) THEN mem[e] ELSE Cell("TREF", e, 0)
EntryCells(e, k) == IF IsNumber(e) THEN 0 ELSE k

make_vector_(r, k, e) ==
  /\ "make_vector_" \in uses
  /\ phase = "run"
  /\ LET n == k + EntryCells(regs[e], k) IN
       Allocate(r, <<Cell("TVECTOR", k, g_free + 1)>>
                     \o [j \in 1 .. n |-> vector_entry(regs[e])],
                   FreshIds(1) \o [j \in 1 .. n |-> NoId],
                   g_free)

IsVector(x) == mem[x].type = "TVECTOR"
Element(x, i) == mem[mem[x].cdr + i]

vector_ref_(r, x, i) ==
  /\ "vector_ref_" \in uses
  /\ phase = "run"
  /\ IsVector(regs[x]) /\ i < mem[regs[x]].car
  /\ LET e == Element(regs[x], i) IN
       IF e.type = "TREF"
         THEN /\ regs' = [regs EXCEPT ![r] = e.car]
              /\ UNCHANGED <<mem, history, g_free, g_stack, g_stack_array, globals,
                             Collector>>
         ELSE Allocate(r, <<Cell("TNUMBER", 0, e.cdr)>>, FreshIds(1), g_free)

vector_set_x_(x, i, e) ==
  /\ "vector_set_x_" \in uses
  /\ phase = "run"
  /\ IsVector(regs[x]) /\ i < mem[regs[x]].car
  /\ LET entry == vector_entry(regs[e])
         n     == EntryCells(regs[e], 1)
     IN IF g_free + n > ARENA_SIZE
          THEN Stop("out of memory")
          ELSE /\ Put([j \in 1 .. n |-> entry], [j \in 1 .. n |-> NoId],
                      [mem EXCEPT ![mem[regs[x]].cdr + i] = entry])
               /\ UNCHANGED <<regs, g_stack, g_stack_array, globals, Collector>>

\* The list of a vector, last pair first.  An element that is a number is
\* not copied: the pair refers to the cell inside the vector.
vector_to_list(r, x) ==
  /\ "vector_to_list" \in uses
  /\ phase = "run"
  /\ IsVector(regs[x])
  /\ LET v == mem[regs[x]]
         n == v.car
         Item(i) == IF Element(regs[x], i).type = "TREF"
                      THEN Element(regs[x], i).car ELSE v.cdr + i
     IN /\ \A i \in 0 .. n - 1 :
             Element(regs[x], i).type # "TREF" => Interior
        /\ Allocate(r, [j \in 1 .. n |->
                          Cell("TPAIR", Item(n - j),
                               IF j = 1 THEN cell_nil ELSE g_free + j - 2)],
                       FreshIds(n),
                       IF n = 0 THEN cell_nil ELSE g_free + n - 1)

\* car, cdr, and the reads of a binding and a closure in eval_apply.
Read(r, a) ==
  /\ phase = "run"
  /\ regs' = [regs EXCEPT ![r] = a]
  /\ UNCHANGED <<mem, history, g_free, g_stack, g_stack_array, globals, Collector>>

car(r, x) ==
  /\ "car" \in uses
  /\ mem[regs[x]].type \in {"TPAIR", "TBINDING"} /\ Read(r, mem[regs[x]].car)

cdr(r, x) ==
  /\ "cdr" \in uses
  /\ mem[regs[x]].type \in {"TPAIR", "TCLOSURE"} /\ Read(r, mem[regs[x]].cdr)

Write(m) ==
  /\ phase = "run"
  /\ mem' = m
  /\ UNCHANGED <<regs, history, g_free, g_stack, g_stack_array, globals, Collector>>

set_car_x(x, e) ==
  /\ "set_car_x" \in uses
  /\ mem[regs[x]].type = "TPAIR" /\ Write([mem EXCEPT ![regs[x]].car = regs[e]])

set_cdr_x(x, e) ==
  /\ "set_cdr_x" \in uses
  /\ mem[regs[x]].type = "TPAIR" /\ Write([mem EXCEPT ![regs[x]].cdr = regs[e]])

SetGlobal(g, r) ==
  /\ "SetGlobal" \in uses
  /\ phase = "run"
  /\ globals' = [globals EXCEPT ![g] = regs[r]]
  /\ UNCHANGED <<mem, regs, history, g_free, g_stack, g_stack_array, Collector>>

-----------------------------------------------------------------------------
(***************************************************************************)
(* Frames.  A frame is R3 .. R0 and a procedure, at rising slots.          *)
(***************************************************************************)
FrameAt(s) == [k \in s .. s + NRegs |->
                 IF k = s + NRegs THEN cell_f ELSE regs[s + NRegs - 1 - k]]

Pushed == [k \in DOMAIN g_stack_array |->
             IF k \in g_stack - GC_FRAME_SIZE .. g_stack - 1
               THEN FrameAt(g_stack - GC_FRAME_SIZE)[k] ELSE g_stack_array[k]]

\* The registers a pop takes from stack a.  The slots a pop leaves behind
\* are never read again: they are cleared.
Popped(a) == [r \in Regs |-> a[g_stack + NRegs - 1 - r]]
Cleared(a) == [k \in DOMAIN a |-> IF k < g_stack + GC_FRAME_SIZE THEN 0 ELSE a[k]]

gc_push_frame ==
  /\ "gc_push_frame" \in uses
  /\ phase = "run"
  /\ IF g_stack < GC_FRAME_SIZE
       THEN Stop("stack full")
       ELSE /\ g_stack_array' = Pushed
            /\ g_stack' = g_stack - GC_FRAME_SIZE
            /\ UNCHANGED <<mem, history, g_free, regs, globals, Collector>>

gc_pop_frame ==
  /\ phase = "run"
  /\ g_stack + GC_FRAME_SIZE <= STACK_SIZE
  /\ regs' = Popped(g_stack_array)
  /\ g_stack_array' = Cleared(g_stack_array)
  /\ g_stack' = g_stack + GC_FRAME_SIZE
  /\ UNCHANGED <<mem, history, g_free, globals, Collector>>
-----------------------------------------------------------------------------
(***************************************************************************)
(* The collector.                                                          *)
(***************************************************************************)
Forwarded(old) == mem[old].type = "TBROKEN_HEART"
NewOfFresh(old) == g_free       \* mutant: the broken heart is not followed
NewOf(old)     == IF Forwarded(old) THEN mem[old].car ELSE g_free
TakenHead(old) == IF Forwarded(old) THEN 0 ELSE 1   \* mutant: no elements
Taken(old)     == IF Forwarded(old) THEN 0 ELSE Size(mem[old])

\* Mutant: the old cell is not marked.
CopiedUnmarked(old) ==
  [a \in Addr |-> IF a \in g_free .. g_free + Size(mem[old]) - 1
                    THEN mem[old + a - g_free] ELSE mem[a]]

\* Mutant: the old cell is marked before it is copied.
CopiedMarkedFirst(old) ==
  [a \in Addr |->
     IF Forwarded(old) THEN mem[a]
     ELSE IF a \in {old, g_free} THEN Cell("TBROKEN_HEART", g_free, mem[old].cdr)
     ELSE IF a \in g_free + 1 .. g_free + Size(mem[old]) - 1
       THEN mem[old + a - g_free] ELSE mem[a]]

\* The memory after gc_copy of the cell at old: a copy at g_free, behind it
\* the elements of a vector or the rest of a block of bytes, and a broken
\* heart with the new address in the car at old.
Copied(old) ==
  LET c      == mem[old]
      vector == c.type \in VectorTypes
      from   == IF vector THEN c.cdr - 1 ELSE old
      head   == IF vector THEN [c EXCEPT !.cdr = g_free + 1] ELSE c
  IN IF Forwarded(old) THEN mem
     ELSE [a \in Addr |->
             CASE a = old        -> Cell("TBROKEN_HEART", g_free, c.cdr)
               [] a = g_free     -> head
               [] a \in g_free + 1 .. g_free + Size(c) - 1 -> mem[from + a - g_free]
               [] OTHER          -> mem[a]]

\* gc_copy (old), where m is Copied(old) with the result stored in it, and
\* Then what the caller does besides.
gc_copy(old, m, Then) ==
  IF g_free + Taken(old) > MemTop
    THEN Stop("overrun")
    ELSE /\ mem' = m
         /\ IF Forwarded(old) THEN UNCHANGED history
            ELSE /\ id' = [id EXCEPT ![g_free] = id[old]]
                 /\ home' = [i \in DOMAIN home |->
                              IF i = id[old] THEN g_free ELSE home[i]]
         /\ g_free' = g_free + Taken(old)
         /\ UNCHANGED <<g_news, g_stack, regs, uses>>
         /\ Then

\* The new space, behind the cells in use: a header, and the cell that will
\* become cell_zero.
gc_init_news ==
  /\ mem' = [mem EXCEPT ![g_free] = Cell("TVECTOR", 1000, g_free + 1),
                        ![g_free + 1] = Cell("TCHAR", 0, 0)]
  /\ g_news' = g_free + 1

\* gc up to the first root: gc_push_frame, gc_init_news.
gc ==
  IF g_stack < GC_FRAME_SIZE THEN Stop("stack full")
  ELSE IF g_free + 2 > MemTop THEN Stop("overrun")
  ELSE /\ g_stack_array' = Pushed
       /\ g_stack' = g_stack - GC_FRAME_SIZE
       /\ gc_init_news
       /\ g_free' = g_free + 2
       /\ scan' = g_free + 2
       /\ next' = 1
       /\ phase' = "roots"
       /\ UNCHANGED <<regs, globals, uses, history>>

\* eval_apply calls gc_check when everything it needs is in the registers.
gc_check == phase = "run" /\ g_free + GC_SAFETY >= ARENA_SIZE /\ gc

\* The roots in the order of gc_: symbols, globals, stack.
NRoots   == NSymbols + Len(GlobalNames) + STACK_SIZE - g_stack
NextRoot == /\ next' = IF next = NRoots THEN 0 ELSE next + 1
            /\ phase' = IF next = NRoots THEN "car" ELSE "roots"
            /\ UNCHANGED scan

copy_symbol ==
  /\ phase = "roots" /\ next <= NSymbols
  /\ LET s == cell_nil + next - 1 IN
       gc_copy(s, Copied(s),
               NextRoot /\ UNCHANGED <<globals, g_stack_array>>)

copy_global ==
  /\ phase = "roots" /\ next - NSymbols \in 1 .. Len(GlobalNames)
  /\ LET g   == GlobalNames[next - NSymbols]
         old == globals[g]
     IN gc_copy(old, Copied(old),
                /\ NextRoot
                /\ globals' = [globals EXCEPT ![g] = NewOf(old)]
                /\ UNCHANGED g_stack_array)

copy_stack ==
  /\ phase = "roots" /\ next > NSymbols + Len(GlobalNames)
  /\ LET i   == g_stack + next - NSymbols - Len(GlobalNames) - 1
         old == g_stack_array[i]
     IN gc_copy(old, Copied(old),
                /\ NextRoot
                /\ g_stack_array' = [g_stack_array EXCEPT ![i] = NewOf(old)]
                /\ UNCHANGED globals)

\* Mutant: a block of bytes is not passed over.
ScannedNoBytes ==
  /\ phase' = "car"
  /\ scan' = scan + IF mem[scan].type = "TBYTES" THEN 0 ELSE 1
  /\ UNCHANGED <<globals, g_stack_array, next>>

\* One round of gc_loop is two steps: the car of the cell, then its cdr.
Scanned ==
  /\ phase' = "car"
  /\ scan' = scan + IF mem[scan].type = "TBYTES"
                     THEN bytes_cells(mem[scan].car) ELSE 1
  /\ UNCHANGED <<globals, g_stack_array, next>>

CarScanned == phase' = "cdr" /\ UNCHANGED <<scan, globals, g_stack_array, next>>

gc_relocate_car(cells, new, a) == [cells EXCEPT ![new].car = a]
gc_relocate_cdr(cells, new, d) == [cells EXCEPT ![new].cdr = d]

gc_loop_car ==
  /\ phase = "car" /\ scan < g_free
  /\ LET c   == mem[scan]
         old == c.car
     IN IF c.type = "TBROKEN_HEART" THEN Stop("broken heart")
        ELSE IF c.type \in CarTypes
          THEN gc_copy(old, gc_relocate_car(Copied(old), scan, NewOf(old)), CarScanned)
          ELSE CarScanned /\ UNCHANGED <<mem, history, g_free, g_news, g_stack, regs, uses>>

gc_loop_cdr ==
  /\ phase = "cdr"
  /\ LET c   == mem[scan]
         old == c.cdr
     IN IF c.type \in CdrTypes
          THEN gc_copy(old, gc_relocate_cdr(Copied(old), scan, NewOf(old)), Scanned)
          ELSE Scanned /\ UNCHANGED <<mem, history, g_free, g_news, g_stack, regs, uses>>

MovedCarOnly(c, dist) ==   \* mutant: the cdr keeps its place in the new space
  [c EXCEPT !.car = IF c.type \in CellcpyCar THEN @ - dist ELSE @]

\* gc_cellcpy of one cell over the distance dist.
Moved(c, dist) ==
  [c EXCEPT !.car = IF c.type \in CellcpyCar THEN @ - dist ELSE @,
            !.cdr = IF c.type \in CellcpyCdr THEN @ - dist ELSE @]

\* gc_flip, at the end of gc_loop, and the gc_pop_frame of gc.  Nothing reads
\* the cells behind g_free again: they become free cells.
gc_flip ==
  /\ phase = "car" /\ scan >= g_free
  /\ LET dist  == g_news
         used  == g_free - dist
         stack == [k \in DOMAIN g_stack_array |->
                     IF k >= g_stack THEN g_stack_array[k] - dist
                     ELSE g_stack_array[k]]
     IN /\ mem' = [a \in Addr |-> IF a < used THEN Moved(mem[a + dist], dist)
                                  ELSE FreeCell]
        /\ id' = [a \in Addr |-> IF a < used THEN id[a + dist] ELSE NoId]
        /\ home' = [i \in {j \in DOMAIN home : home[j] >= dist} |-> home[i] - dist]
        /\ g_free' = used
        /\ globals' = [g \in DOMAIN globals |-> globals[g] - dist]
        /\ regs' = Popped(stack)
        /\ g_stack_array' = Cleared(stack)
        /\ g_stack' = g_stack + GC_FRAME_SIZE
  /\ g_news' = 0 /\ scan' = 0 /\ next' = 0 /\ phase' = "run" /\ UNCHANGED uses

-----------------------------------------------------------------------------
(***************************************************************************)
(* The arena after init_symbols: cell_zero, the static symbols, the symbol *)
(* table, the bytes of the names.  The table is a struct with a vector of  *)
(* buckets; a bucket stands for the list that leads to one symbol.  The    *)
(* other globals and the registers hold cell_nil.                          *)
(***************************************************************************)
NameCells  == bytes_cells(2)
TableAt    == 1 + NSymbols
BucketsAt  == TableAt + 2
NameAt(n)  == BucketsAt + 1 + NSymbols + (n - 1) * NameCells
StaticTop  == NameAt(NSymbols + 1)
Symbols    == 1 .. NSymbols

\* The static symbols and their table fit in the arena.
ASSUME StaticAssumption == StaticTop <= ARENA_SIZE

Init ==
  /\ mem = [a \in Addr |->
       CASE a = cell_zero     -> Cell("TCHAR", 0, 0)
         [] a \in Symbols     -> Cell("TSPECIAL", 1, NameAt(a))
         [] a = TableAt       -> Cell("TSTRUCT", 1, TableAt + 1)
         [] a = TableAt + 1   -> Cell("TREF", BucketsAt, 0)
         [] a = BucketsAt     -> Cell("TVECTOR", NSymbols, BucketsAt + 1)
         [] a - BucketsAt \in Symbols -> Cell("TREF", a - BucketsAt, 0)
         [] \E n \in Symbols : a = NameAt(n) -> Cell("TBYTES", 2, 0)
         [] OTHER -> IF a < StaticTop THEN RawCell ELSE FreeCell]
  /\ home = [a \in Symbols \cup {TableAt, BucketsAt}
                 \cup {NameAt(n) : n \in Symbols} |-> a]
  /\ id = [a \in Addr |-> IF a \in DOMAIN home THEN a ELSE NoId]
  /\ g_free = StaticTop
  /\ g_news = 0 /\ scan = 0 /\ next = 0 /\ phase = "run" /\ uses \in Programs
  /\ g_stack = STACK_SIZE
  /\ g_stack_array = [k \in 0 .. STACK_SIZE - 1 |-> 0]
  /\ regs = [r \in Regs |-> cell_nil]
  /\ globals = [g \in Globals |-> IF g = "g_symbols" THEN TableAt ELSE cell_nil]

Program ==
  \/ \E r, a, d \in Regs : cons(r, a, d)
  \/ \E r, a \in Regs, lexical_p \in {0, 1} : make_binding_(r, a, lexical_p)
  \/ \E r, d \in Regs : make_closure_(r, d)
  \/ \E r \in Regs, v \in Values : make_number(r, v)
  \/ \E r \in Regs, v \in Values : make_string(r, v)
  \/ \E r, e \in Regs, k \in Lengths : make_vector_(r, k, e)
  \/ \E r, x \in Regs, i \in 0 .. ARENA_SIZE : vector_ref_(r, x, i)
  \/ \E x, e \in Regs, i \in 0 .. ARENA_SIZE : vector_set_x_(x, i, e)
  \/ \E r, x \in Regs : vector_to_list(r, x)
  \/ \E r, x \in Regs : car(r, x)
  \/ \E r, x \in Regs : cdr(r, x)
  \/ \E x, e \in Regs : set_car_x(x, e)
  \/ \E x, e \in Regs : set_cdr_x(x, e)
  \/ \E g \in Assigned, r \in Regs : SetGlobal(g, r)
  \/ gc_push_frame
  \/ gc_pop_frame

Collect == copy_symbol \/ copy_global \/ copy_stack
           \/ gc_loop_car \/ gc_loop_cdr \/ gc_flip

Next == Program \/ gc_check \/ Collect

Spec == Init /\ [][Next]_vars

\* gc () is a C function: once it runs, nothing else does until it returns.
FairSpec == Spec /\ WF_vars(Collect)

-----------------------------------------------------------------------------
(***************************************************************************)
(* Properties.                                                             *)
(***************************************************************************)
Collecting == phase \in {"roots", "car", "cdr"}
Phases     == {"run", "roots", "car", "cdr",
               "out of memory", "stack full", "overrun", "broken heart"}

\* The variables have their types; a used cell is never a free one.
TypeOK ==
  /\ \A a \in Addr : mem[a].car \in Int /\ mem[a].cdr \in Int
  /\ DOMAIN mem = Addr /\ DOMAIN id = Addr
  /\ g_free \in 1 .. MemTop /\ g_news \in 0 .. g_free /\ scan \in 0 .. g_free
  /\ \A a \in 0 .. g_free - 1 : mem[a].type # "free"
  /\ g_stack \in 0 .. STACK_SIZE
  /\ g_stack_array \in [0 .. STACK_SIZE - 1 -> 0 .. g_free]
  /\ regs \in [Regs -> Addr]
  /\ globals \in [Globals -> 0 .. g_free]
  /\ phase \in Phases

\* The C constants cell_nil, cell_f .. hold addresses and gc_flip does not
\* move them: outside a collection each finds its own symbol, with its name.
ConstantsKeepTheirAddress ==
  phase = "run" =>
    \A s \in 1 .. NSymbols : /\ id[s] = s
                             /\ mem[s].type = "TSPECIAL"
                             /\ id[mem[s].cdr] = NameAt(s)

\* gc_loop never meets a broken heart in the new space: nothing copies the
\* old place of an object that has moved (the assertion of gc_loop).
NoBrokenHeart == phase # "broken heart"

\* The new space never holds more cells than the old one: an object is
\* copied once, however many references lead to it.
NewSpaceFitsOld == Collecting => g_free - g_news <= g_news - 1

\* Cells behind the scan pointer refer only to the new space.
InNews(p) == p \in g_news + 1 .. g_free - 1
ScannedCellsAreRelocated ==
  Collecting =>
    \A a \in g_news + 1 .. scan - 1 :
      /\ mem[a].type \in CarTypes => InNews(mem[a].car)
      /\ mem[a].type \in CdrTypes => InNews(mem[a].cdr)

\* A collection ends: with the registers back, or with an assertion.
CollectionEnds == Collecting ~> ~Collecting
=============================================================================
