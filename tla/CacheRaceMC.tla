---------------------------- MODULE CacheRaceMC ----------------------------
(***************************************************************************)
(* Two names with one home bucket and three records, of which two have     *)
(* room.                                                                   *)
(***************************************************************************)
EXTENDS CacheRaceProperties, TLC

CONSTANTS ka, kb, i1, i2, i3

MCOwner == (i1 :> ka) @@ (i2 :> ka) @@ (i3 :> kb)
MCIdHash == (i1 :> 0) @@ (i2 :> 1) @@ (i3 :> 2)
MCProbe == (ka :> <<0, 1>>) @@ (kb :> <<0, 1>>)
=============================================================================
