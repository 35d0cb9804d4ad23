---------------------------- MODULE CacheFillMC ----------------------------
(***************************************************************************)
(* One name with two records; or a country and DEFAULT with one entry each *)
(* and a cache with room for one of them.                                  *)
(***************************************************************************)
EXTENDS CacheFillProperties, TLC

CONSTANTS ka, i1, i2, ca, cd, e1, e2

NameOwner == (i1 :> ka) @@ (i2 :> ka)
NameHash == (i1 :> 1) @@ (i2 :> 2)
NoFallback == ka :> NoKey

EntryOwner == (e1 :> ca) @@ (e2 :> cd)
EntryHash == (e1 :> 1) @@ (e2 :> 2)
ToDefault == (ca :> cd) @@ (cd :> cd)
=============================================================================
