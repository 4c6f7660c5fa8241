--------------------------- MODULE MCOptionsLookup ---------------------------
(***************************************************************************)
(* OptionsLookup for TLC: two options with a name each, "ab" both times,   *)
(* and one with another name.                                              *)
(***************************************************************************)
EXTENDS OptionsLookup, TLC

CONSTANTS a1, a2, b

MCtype == [k \in Keys |-> "TSTRING"]
MCtext == (a1 :> "ab") @@ (a2 :> "ab") @@ (b :> "abc")
MChash_cstring == ("ab" :> 1) @@ ("abc" :> 1)
MCKeysOf == [hashq |-> {}, hash |-> Keys, symbols |-> {}]
=============================================================================
