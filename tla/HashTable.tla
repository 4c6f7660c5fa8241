------------------------------ MODULE HashTable ------------------------------
(***************************************************************************)
(* The hash tables of src/hash.c: a vector of buckets, a bucket a list of  *)
(* handles, a handle a pair of a key and its value.  An entry below stands *)
(* for a handle and the cell of the bucket's list that holds it; the two   *)
(* are made together.                                                      *)
(*                                                                         *)
(* A program uses a table by the hashq- procedures or by the hash- ones.   *)
(* The table of symbols is used by string->symbol alone.  While a program  *)
(* walks a table with hash-map->list, the procedure it passes may use the  *)
(* same table.                                                             *)
(*                                                                         *)
(* Values are never looked at, so that every entry gets one of its own,    *)
(* its number, and a program writes 0 through a handle.                    *)
(***************************************************************************)
EXTENDS Integers, Sequences, FiniteSetsExt, Functions

CONSTANTS
  Size,          \* number of buckets
  Keys,          \* cells used as keys
  type,          \* the type of each of them
  text,          \* the string, name or number it holds
  hash_cstring,  \* the bucket of each text
  KeysOf,        \* the keys passed to the procedures of each interface
  HandleKeys,    \* those of them passed to hash-create-handle!
  MaxEntries,    \* bound: entries made
  MaxVectors,    \* bound: vectors of buckets made
  cell_f,        \* #f, also the default value the program asks for
  unspecified,   \* what the procedures without a result return
  Crash          \* the process is dead

NameTypes == {"TSYMBOL", "TSPECIAL"}
WordTypes == {"TCHAR", "TNUMBER"}

ASSUME KeyAssumption ==
  /\ Size \in Nat \ {0} /\ MaxEntries \in Nat /\ MaxVectors \in Nat \ {0}
  /\ DOMAIN type = Keys /\ DOMAIN text = Keys
  /\ Range(type) \subseteq NameTypes \cup WordTypes \cup {"TSTRING", "TKEYWORD"}
  /\ \A k \in Keys : type[k] \notin WordTypes => hash_cstring[text[k]] \in 0 .. Size - 1
  /\ KeysOf \in [{"hashq", "hash", "symbols"} -> SUBSET Keys]
  /\ HandleKeys \subseteq KeysOf["hash"]

\* hashq_ raises an error for other keys; only strings are made symbols.
ASSUME InterfaceAssumption ==
  /\ \A k \in KeysOf["hashq"] : type[k] \in NameTypes
  /\ \A k \in KeysOf["symbols"] : type[k] = "TSTRING"

\* Symbols are interned: cells with one name are one cell.
ASSUME SymbolAssumption ==
  \A j, k \in Keys :
    {type[j], type[k]} \subseteq NameTypes /\ text[j] = text[k] => j = k

VARIABLES
  interface,  \* the procedures that the program uses on this table
  entry,      \* entries made so far: key, value and cdr, the next entry
  vectors,    \* vectors of buckets made so far
  buckets,    \* the one the table has
  handle,     \* the handle the program holds
  result,     \* what the last operation returned
  walk        \* the progress of hash-map->list

table == <<entry, vectors, buckets>>
vars == <<interface, entry, vectors, buckets, handle, result, walk>>

nil == 0                \* '()
unused == -1            \* *unspecified*: a bucket nothing was put in yet

Hashes == 0 .. Size - 1
NoBuckets == [h \in Hashes |-> unused]
Values == 0 .. MaxEntries
NewValue == Len(entry) + 1

-----------------------------------------------------------------------------
(***************************************************************************)
(* Looking for a key.                                                      *)
(***************************************************************************)
hash_(k) == IF type[k] = "TSTRING" THEN hash_cstring[text[k]] ELSE 0

hash(k) == IF interface = "hashq" THEN hash_cstring[text[k]] ELSE hash_(k)

bucket(h) == vectors[buckets][h]

\* The entries of the list that starts at p.  Each leads to one made before it:
\* the list has them in falling order.
List(p) ==
  LET from[n \in 0 .. Len(entry)] == IF n = nil THEN {} ELSE {n} \cup from[entry[n].cdr]
  IN IF p = unused THEN {} ELSE from[p]

Bucket(k) == List(bucket(hash(k)))

\* What assq compares: the cells, or the contents of a word or a keyword.
assq_p(x, y) ==
  \/ x = y
  \/ {type[x], type[y]} \subseteq WordTypes /\ text[x] = text[y]
  \/ type[x] = "TKEYWORD" /\ type[y] \notin WordTypes /\ text[x] = text[y]

\* What assoc and hash-remove! compare.  (The keys hold no pairs or vectors.)
equal2_p(x, y) ==
  \/ x = y
  \/ /\ type[x] = type[y] /\ text[x] = text[y]
     /\ type[x] \in WordTypes \cup {"TSTRING", "TKEYWORD"}

\* The first in its list of the handles found, nil when there is none.
First(found) == Max(found \cup {nil})

assq(k, list) == First({n \in list : assq_p(k, entry[n].key)})
assoc(k, list) == First({n \in list : equal2_p(k, entry[n].key)})

Find(k) == IF interface = "hashq" THEN assq(k, Bucket(k)) ELSE assoc(k, Bucket(k))

ValueAt(n) == IF n = nil THEN cell_f ELSE entry[n].value

-----------------------------------------------------------------------------
(***************************************************************************)
(* The operations of a program.                                            *)
(***************************************************************************)
Running == result # Crash
Uses(i) == Running /\ interface = i

Ref(k) ==
  /\ result' = ValueAt(Find(k))
  /\ UNCHANGED <<interface, table, handle, walk>>

\* A new entry goes in front of its bucket.
InsertUnhashed(k) ==    \* mutant: a symbol goes where hash_ says
  LET p == bucket(hash_(k))
  IN /\ Len(entry) < MaxEntries
     /\ entry' = Append(entry, [key |-> k, value |-> NewValue,
                                  cdr |-> IF p = unused THEN nil ELSE p])
     /\ vectors' = [vectors EXCEPT ![buckets][hash_(k)] = Len(entry')]
     /\ UNCHANGED <<interface, buckets, walk>>

Insert(k) ==
  LET p == bucket(hash(k))
  IN /\ Len(entry) < MaxEntries
     /\ entry' = Append(entry, [key |-> k, value |-> NewValue,
                                  cdr |-> IF p = unused THEN nil ELSE p])
     /\ vectors' = [vectors EXCEPT ![buckets][hash(k)] = Len(entry')]
     /\ UNCHANGED <<interface, buckets, walk>>

hash_set_x_(k) == Insert(k) /\ result' = NewValue /\ UNCHANGED handle

create_handle_x(k) ==
  LET n == assq(k, Bucket(k))
  IN /\ IF n = nil
          THEN Insert(k)
          ELSE UNCHANGED <<interface, table, walk>>
     /\ handle' = IF n = nil THEN Len(entry') ELSE n
     /\ result' = entry'[handle'].value

hashq_ref_(k) == Uses("hashq") /\ k \in KeysOf["hashq"] /\ Ref(k)
hashq_set_x(k) == Uses("hashq") /\ k \in KeysOf["hashq"] /\ hash_set_x_(k)
hashq_create_handle_x(k) == Uses("hashq") /\ k \in KeysOf["hashq"] /\ create_handle_x(k)

hashq_get_handle(k) ==
  /\ Uses("hashq") /\ k \in KeysOf["hashq"]
  /\ handle' = Find(k)
  /\ result' = ValueAt(Find(k))
  /\ UNCHANGED <<interface, table, walk>>

hash_ref_(k) == Uses("hash") /\ k \in KeysOf["hash"] /\ Ref(k)
hash_set_x(k) == Uses("hash") /\ k \in KeysOf["hash"] /\ hash_set_x_(k)
hash_create_handle_x(k) == Uses("hash") /\ k \in HandleKeys /\ create_handle_x(k)

\* set-cdr! of the handle the program holds.
set_cdr_x ==
  /\ Running /\ handle # nil
  /\ entry' = [entry EXCEPT ![handle].value = 0]
  /\ UNCHANGED <<interface, vectors, buckets, handle, result, walk>>

\* The entries of k's bucket that hash-remove! keeps.
KeptOnce(k) ==          \* mutant: one entry is removed
  Bucket(k) \ {assoc(k, Bucket(k))}

Kept(k) == {n \in Bucket(k) : ~ equal2_p(k, entry[n].key)}

\* The entries once those kept are linked: each is followed by the next one
\* kept, which is older.  The others keep their cdr.
Link(n, list) == [entry[n] EXCEPT !.cdr = First({m \in list : m < n})]

LinkedAndCut(k) ==      \* mutant: an entry that is removed loses its cdr
  [n \in DOMAIN entry |-> CASE n \in Kept(k) -> Link(n, Kept(k))
                            [] n \in Bucket(k) \ Kept(k) -> Link(n, {})
                            [] OTHER -> entry[n]]

Linked(k) ==
  [n \in DOMAIN entry |-> IF n \in Kept(k) THEN Link(n, Kept(k)) ELSE entry[n]]

\* Nothing tells a bucket never used from a list: its "car" is a length.
hash_remove_x(k) ==
  /\ Uses("hash") /\ k \in KeysOf["hash"]
  /\ IF bucket(hash(k)) = unused
       THEN result' = Crash /\ UNCHANGED <<entry, vectors>>
       ELSE /\ entry' = Linked(k)
            /\ vectors' = [vectors EXCEPT ![buckets][hash(k)] = First(Kept(k))]
            /\ result' = unspecified
  /\ UNCHANGED <<interface, buckets, handle, walk>>

hash_clear_x ==
  /\ Running /\ interface # "symbols"
  /\ Len(vectors) < MaxVectors
  /\ vectors' = Append(vectors, NoBuckets)
  /\ buckets' = Len(vectors')
  /\ result' = unspecified
  /\ UNCHANGED <<interface, entry, handle, walk>>

\* The symbol of the name, made and entered when there is none.
string_to_symbol(k) ==
  /\ Uses("symbols") /\ k \in KeysOf["symbols"]
  /\ IF Find(k) = nil
       THEN hash_set_x_(k)
       ELSE Ref(k)

-----------------------------------------------------------------------------
(***************************************************************************)
(* hash-map->list.  It takes the vector of buckets once, a bucket when it  *)
(* gets there and the rest of a bucket before it calls the procedure.  A   *)
(* step here is one call; the procedure uses the table after it.           *)
(***************************************************************************)
Walking == walk.h < Size

Idle == [vector |-> 1, h |-> Size, next |-> nil, seen |-> {}, entries |-> 0]

\* Walk w goes on to its next entry: in this bucket or in the first later one
\* that has entries.
OnWith(w) ==
  LET Used == {h \in Hashes : h > w.h /\ vectors[w.vector][h] > nil}
      h == CHOOSE g \in Used : \A f \in Used : g <= f
      n == IF w.next # nil THEN w.next ELSE vectors[w.vector][h]
  IN IF w.next = nil /\ Used = {}
       THEN Idle
       ELSE [vector |-> w.vector, h |-> IF w.next # nil THEN w.h ELSE h,
             next |-> entry[n].cdr, seen |-> w.seen \cup {n}, entries |-> w.entries]

\* seen and entries, the number made when the walk began, are there for the
\* property below.
hash_map_to_list ==
  /\ Running /\ interface # "symbols" /\ ~ Walking
  /\ walk' = OnWith([vector |-> buckets, h |-> -1, next |-> nil,
                     seen |-> {}, entries |-> Len(entry)])
  /\ UNCHANGED <<interface, table, handle, result>>

WalkOn ==
  /\ Running /\ Walking
  /\ walk' = OnWith(walk)
  /\ UNCHANGED <<interface, table, handle, result>>

-----------------------------------------------------------------------------
Init ==
  /\ interface \in {"hashq", "hash", "symbols"}
  /\ entry = << >>
  /\ vectors = <<NoBuckets>>
  /\ buckets = 1
  /\ handle = nil
  /\ result = cell_f
  /\ walk = Idle

Next ==
  \/ \E k \in Keys :
       \/ hashq_ref_(k)
       \/ hashq_get_handle(k)
       \/ hash_ref_(k)
       \/ hash_remove_x(k)
       \/ string_to_symbol(k)
       \/ hashq_set_x(k)
       \/ hashq_create_handle_x(k)
       \/ hash_set_x(k)
       \/ hash_create_handle_x(k)
  \/ set_cdr_x
  \/ hash_clear_x
  \/ hash_map_to_list
  \/ WalkOn

Spec == Init /\ [][Next]_vars

-----------------------------------------------------------------------------
(***************************************************************************)
(* Properties.                                                             *)
(***************************************************************************)
\* The variables have their types; an entry leads to an older one, in the
\* same bucket, so that every list of entries ends.
TypeOK ==
  /\ interface \in {"hashq", "hash", "symbols"}
  /\ entry \in Seq([key : Keys, value : Values, cdr : Nat])
  /\ \A n \in DOMAIN entry :
       /\ entry[n].key \in KeysOf[interface]
       /\ entry[n].cdr < n
       /\ entry[n].cdr # nil => hash(entry[entry[n].cdr].key) = hash(entry[n].key)
  /\ vectors \in Seq([Hashes -> {unused} \cup Nat])
  /\ \A v \in DOMAIN vectors, h \in Hashes :
       vectors[v][h] > 0 => /\ vectors[v][h] \in DOMAIN entry
                            /\ hash(entry[vectors[v][h]].key) = h
  /\ buckets \in DOMAIN vectors
  /\ handle \in {nil} \cup DOMAIN entry
  /\ result \in Values \cup {cell_f, unspecified, Crash}
  /\ walk.h \in 0 .. Size

\* hash-map->list misses no entry that was in the table when it began and is
\* still there, or was when the table was cleared under it: the entry has been
\* seen or lies ahead, whatever the procedure it calls has put in and removed.
WalkMissesNothing ==
  Walking =>
    \A h \in 0 .. walk.h : \A n \in List(vectors[walk.vector][h]) :
      n <= walk.entries =>
        \/ n \in walk.seen
        \/ h = walk.h /\ n \in List(walk.next)
=============================================================================
