----------------------------- MODULE MCHashTable -----------------------------
(***************************************************************************)
(* Instances of HashTable for TLC: a few keys that collide in two buckets. *)
(***************************************************************************)
EXTENDS HashTableRefinement, TLC

CONSTANTS a1, a2, b, one, x, y

\* Two strings "ab" and a string "abc", which have one hash; a number, which
\* is in bucket 0; and two symbols that have one hash.
MCtype == (a1 :> "TSTRING") @@ (a2 :> "TSTRING") @@ (b :> "TSTRING")
            @@ (one :> "TNUMBER") @@ (x :> "TSYMBOL") @@ (y :> "TSYMBOL")
MCtext == (a1 :> "ab") @@ (a2 :> "ab") @@ (b :> "abc")
            @@ (one :> "1") @@ (x :> "ab") @@ (y :> "abc")
MChash_cstring == ("ab" :> 1) @@ ("abc" :> 1)

MCKeysOf == [hashq |-> {x, y}, hash |-> {a1, a2, b, one}, symbols |-> {a1, a2, b}]

\* The equal strings are interchangeable.
Alike == Permutations({a1, a2})
=============================================================================
