----------------------- MODULE IpGroupCacheProperties -----------------------
(***************************************************************************)
(* IpGroupEntry::Mmap does not keep its lists exact under all calls: a     *)
(* delete that looks the bucket up anew can find another bucket than the   *)
(* one the entry hangs on.  What holds is that nothing else damages them.  *)
(***************************************************************************)
EXTENDS IpGroupCache

(* Indices stay inside data_entries, and an occupied bucket has a head:     *)
(* append_record reads data_entries[old_head] without testing it for -1.   *)
IndicesInRange ==
    /\ bucket_key \in [Buckets -> Keys \cup {NoKey}]
    /\ head_slot_idx \in [Buckets -> SlotOrNil]
    /\ id_slot \in [IdBuckets -> SlotOrNil]
    /\ is_used \in [Slots -> BOOLEAN]
    /\ next_index \in [Slots -> SlotOrNil]
    /\ prev_index \in [Slots -> SlotOrNil]
    /\ slot_id \in [Slots -> Ids \cup {NoId}]
    /\ slot_key \in [Slots -> Keys \cup {NoKey}]
    /\ slot_value \in [Slots -> Values \cup {NoValue}]
    /\ free_head \in SlotOrNil
    /\ \A b \in Buckets : bucket_key[b] # NoKey => head_slot_idx[b] # Nil

\* the slots on the chain of bucket b
Hung(b) ==
    LET c == Walk[MaxRecords][head_slot_idx[b]] IN
    IF bucket_key[b] = NoKey THEN {} ELSE {c[i] : i \in DOMAIN c}

Used == {s \in Slots : is_used[s]}

ListsExact ==
    /\ IsList(next_index, free_head, Slots \ Used)
    /\ \A b \in Buckets : bucket_key[b] # NoKey =>
           /\ Hung(b) # {}
           /\ IsDoubleList(next_index, prev_index, head_slot_idx[b], Hung(b))
           /\ \A s \in Hung(b) : slot_key[s][1] = bucket_key[b][1]
    /\ Used = UNION {Hung(b) : b \in Buckets}
    /\ \A b, c \in Buckets : b # c => Hung(b) \cap Hung(c) = {}
    /\ \A s \in Used : id_slot[IdHash[slot_id[s]]] = s
    /\ \A h \in IdBuckets : id_slot[h] # Nil =>
           id_slot[h] \in Used /\ IdHash[slot_id[id_slot[h]]] = h

\* an entry is freed that does not hang on the bucket the delete looked up
AstrayDelete ==
    \E g \in Groups, id \in Ids :
        /\ DeleteRecordFromUuid(g, id)
        /\ SlotOf(id) \notin Hung(BucketOf(SlotOf(id)))

(* From exact lists every call leads to exact lists - each entry once, on  *)
(* one chain of its own group, the free list and the id table complementing *)
(* them - unless it is a delete_record_from_uuid whose second find_bucket   *)
(* misses the chain of the entry, because an update moved the entry to      *)
(* another country or because a bucket emptied before it on the probe path. *)
DamagedOnlyByAstrayDelete ==
    [][ListsExact /\ ~AstrayDelete => ListsExact']_vars

(* each chain holds entries of its bucket's group and country *)
Sorted ==
    \A b \in Buckets : \A s \in Hung(b) : slot_key[s] = bucket_key[b]

LookupsExact ==
    \A g \in Groups, c \in Countries : \A i \in DOMAIN GetRecord(g, c) :
        slot_key[GetRecord(g, c)[i]] = <<g, c>>

\* an update that carries another country than the entry has
Moved == \E s \in Slots : is_used[s] /\ is_used'[s] /\ slot_key'[s] # slot_key[s]

(* From exact and sorted lists, no other call than an update that moves an *)
(* entry to another country, or an astray delete, makes a lookup return an *)
(* entry of another group or country, however buckets probe and chains     *)
(* interleave.                                                             *)
LookupsOfOneCountry ==
    [][ListsExact /\ Sorted /\ ~Moved /\ ~AstrayDelete
           => Sorted' /\ LookupsExact']_vars
=============================================================================
