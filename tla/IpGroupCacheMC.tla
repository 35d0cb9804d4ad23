--------------------------- MODULE IpGroupCacheMC ---------------------------
(***************************************************************************)
(* IpGroupEntry::Mmap: all countries of a group have one home bucket.      *)
(***************************************************************************)
EXTENDS IpGroupCacheProperties, TLC

CONSTANTS g1, g2, ca, cb, i1, i2, i3, va

MCSlots == 0 .. 2
Home == (g1 :> 0) @@ (g2 :> 1)
MCProbe == [g \in Groups |-> [n \in 1 .. 3 |-> (Home[g] + n - 1) % 3]]
IdHome == (i1 :> 0) @@ (i2 :> 1) @@ (i3 :> 2)
MCIdHash == [id \in Ids \cup {NoId} |-> IF id = NoId THEN 0 ELSE IdHome[id]]

Undamaged == ListsExact
=============================================================================
