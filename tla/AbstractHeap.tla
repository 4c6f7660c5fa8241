---------------------------- MODULE AbstractHeap ----------------------------
(***************************************************************************)
(* What the cell store of Mes promises to the program that runs on it.     *)
(*                                                                         *)
(* Objects have an identity and no address.  A program reaches them        *)
(* through the registers R0..R3, the frames on the stack and the C         *)
(* globals; it allocates, reads and writes them.  At any moment the store  *)
(* may drop objects, but only a set whose complement holds every root and  *)
(* is closed under references: what a program can reach is never lost and  *)
(* never changes under it.                                                 *)
(*                                                                         *)
(* Module Gc, the stop-and-copy collector of src/gc.c, implements this.    *)
(***************************************************************************)
EXTENDS HeapObjects, Integers, Sequences, Functions

CONSTANTS
  Ids,          \* identities of objects
  NRegs,        \* number of registers
  Globals,      \* names of the C globals that hold objects
  Values,       \* the numbers a program uses
  Lengths,      \* the lengths of the vectors a program makes
  MaxFrames,    \* room for frames on the stack
  cell_nil,     \* the identity of the empty list
  cell_f,       \* the identity of #f, the procedure slot of a new frame
  Static        \* the identities of the symbols held by C constants

VARIABLES
  store,        \* identity -> [type, fields]; a field is [ref] or [val]
  regs,         \* R0..R3
  frames,       \* the stack, youngest frame first
  globals       \* the C globals

vars == <<store, regs, frames, globals>>

Regs == 0 .. NRegs - 1

Roots ==
  UNION { Static,
          {regs[r] : r \in Regs},
          {globals[g] : g \in Globals},
          UNION {{frames[n][k] : k \in DOMAIN frames[n]} : n \in DOMAIN frames} }

Fresh == Ids \ DOMAIN store

With(i, o) == [j \in DOMAIN store \cup {i} |-> IF j = i THEN o ELSE store[j]]

-----------------------------------------------------------------------------
(***************************************************************************)
(* The operations of a program.                                            *)
(***************************************************************************)
\* Register r gets the new object i, with contents o.
New(r, i, o) ==
  /\ regs' = [regs EXCEPT ![r] = i]
  /\ store' = With(i, o)
  /\ UNCHANGED <<frames, globals>>

Cons(r, i, a, d) == New(r, i, Object("TPAIR", <<Ref(regs[a]), Ref(regs[d])>>))

MakeBinding(r, i, a, v) == New(r, i, Object("TBINDING", <<Ref(regs[a]), Val(v)>>))

MakeClosure(r, i, d) == New(r, i, Object("TCLOSURE", <<Ref(regs[d])>>))

MakeNumber(r, i, v) == New(r, i, Object("TNUMBER", <<Val(v)>>))

\* A number or a character goes into a vector by value, anything else by
\* reference.
Entry(i) ==
  IF store[i].type \in {"TCHAR", "TNUMBER"} THEN store[i].fields[1] ELSE Ref(i)

MakeVector(r, i, k, e) ==
  New(r, i, Object("TVECTOR", [n \in 1 .. k |-> Entry(regs[e])]))

VectorSet(x, n, e) ==
  /\ UNCHANGED <<regs, frames, globals>>
  /\ store[regs[x]].type = "TVECTOR"
  /\ n \in DOMAIN store[regs[x]].fields
  /\ store' = [store EXCEPT ![regs[x]].fields[n] = Entry(regs[e])]

VectorRef(r, x, n) ==
  /\ store[regs[x]].type = "TVECTOR"
  /\ n \in DOMAIN store[regs[x]].fields
  /\ LET field == store[regs[x]].fields[n] IN
       IF field.kind = "ref"
         THEN /\ regs' = [regs EXCEPT ![r] = field.at]
              /\ UNCHANGED <<store, frames, globals>>
         ELSE \E i \in Fresh : New(r, i, Object("TNUMBER", <<field>>))

\* The list of the elements of a vector of objects: as many new pairs.
VectorToList(r, x) ==
  /\ store[regs[x]].type = "TVECTOR"
  /\ LET elements == store[regs[x]].fields
         n        == Len(elements)
     IN /\ \A k \in 1 .. n : elements[k].kind = "ref"
        /\ \E pair \in [1 .. n -> Fresh] :
             LET Rest(k) == IF k = n THEN cell_nil ELSE pair[k + 1]
             IN /\ IsInjective(pair)
                /\ store' = [j \in DOMAIN store \cup Range(pair) |->
                      IF j \in Range(pair)
                        THEN LET k == CHOOSE k \in 1 .. n : pair[k] = j
                             IN Object("TPAIR", <<elements[k], Ref(Rest(k))>>)
                        ELSE store[j]]
                /\ regs' = [regs EXCEPT ![r] = Rest(0)]
  /\ UNCHANGED <<frames, globals>>

\* A string is a header that refers to its bytes.
MakeString(r, i, v) ==
  \E b \in Fresh \ {i} :
    /\ regs' = [regs EXCEPT ![r] = i]
    /\ store' = [j \in DOMAIN store \cup {i, b} |->
                   IF j = i THEN Object("TSTRING", <<Val(1), Ref(b)>>)
                   ELSE IF j = b THEN Object("TBYTES", <<Val(2), Val(v)>>)
                   ELSE store[j]]
    /\ UNCHANGED <<frames, globals>>

Load(r, x, n) ==
  /\ store[regs[x]].type \in {"TPAIR", "TBINDING", "TCLOSURE"}
  /\ n \in DOMAIN store[regs[x]].fields
  /\ store[regs[x]].fields[n].kind = "ref"
  /\ regs' = [regs EXCEPT ![r] = store[regs[x]].fields[n].at]
  /\ UNCHANGED <<store, frames, globals>>

Store(x, n, e) ==
  /\ UNCHANGED <<regs, frames, globals>>
  /\ store[regs[x]].type = "TPAIR"
  /\ store' = [store EXCEPT ![regs[x]].fields[n] = Ref(regs[e])]

SetGlobal(g, r) ==
  /\ globals' = [globals EXCEPT ![g] = regs[r]]
  /\ UNCHANGED <<store, regs, frames>>

\* A frame holds the registers, R3 first, and a procedure.
Push ==
  /\ Len(frames) < MaxFrames
  /\ frames' = <<[k \in 0 .. NRegs |-> IF k = NRegs THEN cell_f
                                       ELSE regs[NRegs - 1 - k]]>> \o frames
  /\ UNCHANGED <<store, regs, globals>>

Pop ==
  /\ frames # <<>>
  /\ regs' = [r \in Regs |-> Head(frames)[NRegs - 1 - r]]
  /\ frames' = Tail(frames)
  /\ UNCHANGED <<store, globals>>

-----------------------------------------------------------------------------
(***************************************************************************)
(* The store forgets the objects outside a closed set that holds the roots *)
(***************************************************************************)
Closed(S, objects) == \A i \in S : References(objects[i]) \subseteq S

Collect ==
  /\ UNCHANGED <<regs, frames, globals>>
  /\ LET before == store
         after  == store'
         kept   == DOMAIN after
     IN /\ Roots \subseteq kept /\ kept \subseteq DOMAIN before
        /\ after = [i \in kept |-> before[i]]
        /\ Closed(kept, after)

-----------------------------------------------------------------------------
Init ==
  /\ Static \subseteq DOMAIN store
  /\ Closed(DOMAIN store, store)
  /\ \A r \in Regs : regs[r] \in Static
  /\ \A g \in Globals : globals[g] \in DOMAIN store
  /\ frames = <<>>

Next ==
  \/ Collect
  \/ Push
  \/ Pop
  \/ \E g \in Globals, r \in Regs : SetGlobal(g, r)
  \/ \E x, e \in Regs, n \in 1 .. 2 : Store(x, n, e)
  \/ \E x, e \in Regs : \E n \in DOMAIN store[regs[x]].fields : VectorSet(x, n, e)
  \/ \E i \in Fresh, r \in Regs :
       \/ \E a, d \in Regs : Cons(r, i, a, d)
       \/ \E a \in Regs, v \in {0, 1} : MakeBinding(r, i, a, v)
       \/ \E d \in Regs : MakeClosure(r, i, d)
       \/ \E v \in Values : MakeNumber(r, i, v) \/ MakeString(r, i, v)
       \/ \E e \in Regs, k \in Lengths : MakeVector(r, i, k, e)
  \/ \E r, x \in Regs : \E n \in DOMAIN store[regs[x]].fields : VectorRef(r, x, n)
  \/ \E r, x \in Regs : VectorToList(r, x)
  \/ \E r, x \in Regs, n \in 1 .. 2 : Load(r, x, n)

Spec == Init /\ [][Next]_vars
=============================================================================
