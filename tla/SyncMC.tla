------------------------------- MODULE SyncMC -------------------------------
(***************************************************************************)
(* Three ids, two of which share an id entry, for caches of two slots.     *)
(***************************************************************************)
EXTENDS SyncProperties, TLC

CONSTANTS i1, i2, i3

MCIdHash == (i1 :> 0) @@ (i2 :> 1) @@ (i3 :> 0)
=============================================================================
