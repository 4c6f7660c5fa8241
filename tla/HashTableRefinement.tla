------------------------- MODULE HashTableRefinement -------------------------
(***************************************************************************)
(* Module HashTable implements module AbstractTable: a key is bound to the *)
(* value of the entry that is found first in its bucket, and the handle of *)
(* that entry is the good one.                                             *)
(***************************************************************************)
EXTENDS HashTable

CONSTANTS Absent, Nobody, Stale

\* Keys are equal? when they have the same type and content.
Name(k) == <<type[k], text[k]>>

Names == {Name(k) : k \in Keys}

\* The markers are no values and no names.
ASSUME MarkerAssumption ==
  /\ Absent \notin Values /\ Nobody # Stale
  /\ Nobody \notin Names /\ Stale \notin Names

\* A key of each name, of those passed to the procedures of an interface.
KeyOf ==
  [i \in DOMAIN KeysOf |->
     [name \in {Name(k) : k \in KeysOf[i]} |-> CHOOSE k \in KeysOf[i] : Name(k) = name]]

\* The entry of a name, nil when there is none.
EntryOf(name) ==
  IF name \in DOMAIN KeyOf[interface] THEN Find(KeyOf[interface][name]) ELSE nil

Map ==
  [name \in Names |->
     LET n == EntryOf(name)
     IN IF n = nil THEN Absent ELSE entry[n].value]

Held ==
  CASE handle = nil -> Nobody
    [] handle # nil /\ Find(entry[handle].key) = handle -> Name(entry[handle].key)
    [] OTHER -> Stale

Abs == INSTANCE AbstractTable WITH
         map     <- Map,
         held    <- Held,
         Default <- cell_f,
         Nothing <- unspecified

\* Lookups return what a map would hold, through shadowed entries, collisions,
\* removals and handles; a name has one symbol.
ImplementsAbstractTable == Abs!Spec
=============================================================================
