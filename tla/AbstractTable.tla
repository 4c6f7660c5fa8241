---------------------------- MODULE AbstractTable ----------------------------
(***************************************************************************)
(* What a hash table of Mes promises: a map from keys to values.  Keys     *)
(* that are equal? are the same key here.  A program may hold the handle   *)
(* of an entry and write the value through it; a handle is good until the  *)
(* key is set anew or removed or the table is cleared, and writing through *)
(* it after that does not reach the map.                                   *)
(*                                                                         *)
(* Module HashTable, the bucket lists of src/hash.c, implements this.      *)
(***************************************************************************)
EXTENDS Functions

CONSTANTS
  Names,      \* the keys, up to equal?
  Values,     \* what a program stores
  Absent,     \* where a key is not bound
  Default,    \* what a lookup returns for a key that is not there
  Nothing,    \* what an operation without a result returns
  Crash,      \* the answer of a process that died
  Nobody,     \* no handle is held
  Stale       \* the handle held is not the table's any more

VARIABLES
  map,        \* name -> value, or Absent
  held,       \* the name of the entry whose handle the program holds
  result      \* what the last operation returned

vars == <<map, held, result>>

Bound(k) == map[k] # Absent
LookUp(k) == IF Bound(k) THEN map[k] ELSE Default

\* The names in N are unbound or bound anew: the handle of one is stale.
Forget(N) == held' = IF held \in N THEN Stale ELSE held

-----------------------------------------------------------------------------
Init ==
  /\ map = [k \in Names |-> Absent]
  /\ held = Nobody
  /\ result = Default

Ref(k) ==
  /\ result' = LookUp(k)
  /\ UNCHANGED <<held, map>>

Set(k, v) ==
  /\ result' = v
  /\ Forget({k})
  /\ map' = [map EXCEPT ![k] = v]

GetHandle(k) ==
  /\ result' = LookUp(k)
  /\ held' = IF Bound(k) THEN k ELSE Nobody
  /\ UNCHANGED map

CreateHandle(k, v) ==
  /\ held' = k
  /\ result' = IF Bound(k) THEN map[k] ELSE v
  /\ map' = [map EXCEPT ![k] = result']

WriteHandle(v) ==
  /\ held # Nobody
  /\ UNCHANGED <<held, result>>
  /\ map' = IF held = Stale THEN map ELSE [map EXCEPT ![held] = v]

\* To remove a key that is not there may be fatal.
Remove(k) ==
  \/ /\ result' = Nothing
     /\ Forget({k})
     /\ map' = [map EXCEPT ![k] = Absent]
  \/ /\ result' = Crash
     /\ ~ Bound(k)
     /\ UNCHANGED <<held, map>>

Clear ==
  /\ result' = Nothing
  /\ Forget(Names)
  /\ map' = [k \in Names |-> Absent]

\* One symbol for one name: the one that is there or one never seen before.
Intern(k) ==
  /\ held' = held
  /\ \/ /\ Bound(k)
        /\ result' = map[k]
        /\ UNCHANGED map
     \/ /\ ~ Bound(k)
        /\ result' \in Values \ {map[j] : j \in Names}
        /\ map' = [map EXCEPT ![k] = result']

Next ==
  /\ result # Crash
  /\ \/ Clear
     \/ \E v \in Values : WriteHandle(v)
     \/ \E k \in Names :
          \/ Ref(k) \/ GetHandle(k) \/ Remove(k) \/ Intern(k)
          \/ \E v \in Values : Set(k, v) \/ CreateHandle(k, v)

Spec == Init /\ [][Next]_vars
=============================================================================
