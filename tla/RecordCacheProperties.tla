----------------------- MODULE RecordCacheProperties -----------------------
(***************************************************************************)
(* What makes Records::Mmap correct: the free list, the bucket chains and  *)
(* the id table describe one and the same set of records, and the calls    *)
(* implement RecordStore.                                                  *)
(***************************************************************************)
EXTENDS RecordCache

(* The variables range over what the fields can hold. *)
TypeOK ==
    /\ name_key \in [Buckets -> Keys \cup {NoKey}]
    /\ head_slot_idx \in [Buckets -> SlotOrNil]
    /\ id_slot \in [IdBuckets -> SlotOrNil]
    /\ is_used \in [Slots -> BOOLEAN]
    /\ next_index \in [Slots -> SlotOrNil]
    /\ prev_index \in [Slots -> SlotOrNil]
    /\ slot_id \in [Slots -> Ids \cup {NoId}]
    /\ slot_bucket \in [Slots -> Buckets \cup {NoBucket}]
    /\ slot_value \in [Slots -> Storable \cup {NoValue}]
    /\ free_head \in SlotOrNil

Members(b) == {s \in Slots : is_used[s] /\ slot_bucket[s] = b}

Unused == {s \in Slots : ~is_used[s]}

FreeListExact == IsList(next_index, free_head, Unused)

ChainsExact ==
    \A b \in Buckets :
        IF name_key[b] = NoKey THEN Members(b) = {}
        ELSE /\ Members(b) # {}
             /\ IsDoubleList(next_index, prev_index, head_slot_idx[b], Members(b))

(* No slot is lost or handed out twice: the free list holds exactly the    *)
(* unused slots, each once, and the used slots are exactly those on the    *)
(* chains, each on the chain of its bucket_idx, linked both ways, under    *)
(* any mix of append_record, delete_record_from_uuid and (in the full      *)
(* specification) delete_record and a reopened file.                       *)
EverySlotOnItsList ==
    /\ FreeListExact
    /\ ChainsExact
    /\ \A s \in Slots : is_used[s] => slot_bucket[s] \in Buckets

(* The id table and the slots agree in both directions: each used slot is  *)
(* the one its id hashes to, and no entry points at a freed or foreign     *)
(* slot.  So no id is cached twice, and update_record and                  *)
(* delete_record_from_uuid reach every record and never a reused slot.     *)
IdIndexExact ==
    /\ \A s \in Slots : is_used[s] =>
           slot_id[s] \in Ids /\ id_slot[IdHash[slot_id[s]]] = s
    /\ \A h \in IdBuckets : id_slot[h] # Nil =>
           is_used[id_slot[h]] /\ IdHash[slot_id[id_slot[h]]] = h

-----------------------------------------------------------------------------
(* What a lookup shows *)

Visible(k) == LET c == GetRecord(k) IN {slot_id[c[i]] : i \in DOMAIN c}

Cached == {slot_id[s] : s \in {t \in Slots : is_used[t]}}

(* A record that a lookup returns stops being returned only in a step that *)
(* takes some record out of the cache: adding a record, whatever its key   *)
(* and wherever probing puts it, never hides another one.                  *)
VisibleUntilRemoval ==
    [][\A k \in Keys : (Visible(k) \subseteq Visible(k)') \/ ~(Cached \subseteq Cached')]_vars

(* get_record returns a record only under the key whose bucket it was      *)
(* added to, and no record under two keys, though chains of several keys   *)
(* interleave in data_records.                                             *)
LookupsDisjoint ==
    \A k \in Keys :
        /\ \A i \in DOMAIN GetRecord(k) : slot_bucket[GetRecord(k)[i]] = FindBucket(k)
        /\ \A j \in Keys \ {k} : Visible(k) \cap Visible(j) = {}

-----------------------------------------------------------------------------
(* Refinement *)

StoreView ==
    {[id |-> slot_id[s], key |-> name_key[slot_bucket[s]], value |-> slot_value[s]] :
        s \in {t \in Slots : is_used[t]}}

Store == INSTANCE RecordStore WITH store <- StoreView

(* The cache implements a map from ids to records: every call adds, changes *)
(* or removes exactly the record it names, and a record stays under the key *)
(* it was added under until it is removed, although only its bucket knows   *)
(* that key.                                                                *)
ImplementsStore == Store!Spec
=============================================================================
