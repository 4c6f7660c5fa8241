----------------------------- MODULE MCGcArena -----------------------------
(***************************************************************************)
(* Instances of GcArena for TLC: the settings the runs explore.            *)
(***************************************************************************)
EXTENDS GcArena

DefaultOnly   == {Unset}
WideJam       == {20}
SomeSafety    == {4}
DefaultOrWide == {Unset, 12, 20}
DefaultOrSome == {Unset, 2, 4}
=============================================================================
