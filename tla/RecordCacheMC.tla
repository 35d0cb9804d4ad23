--------------------------- MODULE RecordCacheMC ---------------------------
(***************************************************************************)
(* Records::Mmap on a table of three buckets and three slots: two keys     *)
(* share a home bucket, two ids share an id hash, one value is too large.  *)
(***************************************************************************)
EXTENDS RecordCacheProperties, TLC

CONSTANTS ka, kb, kc, i1, i2, i3, i4, va, vb, big

MCBuckets == 0 .. 2
MCIdBuckets == 0 .. 2

Home == (ka :> 0) @@ (kb :> 0) @@ (kc :> 1)
MCProbe == [k \in Keys |-> [n \in 1 .. 3 |-> (Home[k] + n - 1) % 3]]

IdHome == (i1 :> 0) @@ (i2 :> 1) @@ (i3 :> 2) @@ (i4 :> 0) @@ (NoId :> 0)
MCIdHash == [id \in Ids \cup {NoId} |-> IdHome[id]]
=============================================================================
