---------------------------- MODULE RecordCache ----------------------------
(***************************************************************************)
(* Records::Mmap (src/src/Cache/MmapRecords.cpp): the memory-mapped cache  *)
(* of DNS records.  Three arrays share one file:                           *)
(*   hash_table     buckets, open addressing with linear probing, each the *)
(*                  head of a doubly linked chain of slots                 *)
(*   id_hash_table  record id -> slot, one entry per hash, no probing      *)
(*   data_records   the slots, the unused ones threaded on a free list     *)
(* Every operation is one action here: this module is the cache as its     *)
(* caller sees it when nobody else touches it.  CacheRace takes the        *)
(* operations apart.                                                       *)
(*                                                                         *)
(* A key stands for the pair (hash of the owner name, qtype) that the code *)
(* compares, a value for everything update_record overwrites.              *)
(***************************************************************************)
EXTENDS LinkedLists, Sequences

CONSTANTS
    Keys,         \* (name_hash, qtype) pairs with name_hash # 0
    Ids,          \* record uuids
    Values,       \* ttl, priority, group, flags and rdata of a record
    Oversized,    \* the values whose rdata does not fit the payload array
    MaxRecords,   \* MAX_DATA_RECORDS
    Buckets,      \* indices of hash_table
    IdBuckets,    \* indices of id_hash_table
    Probe,        \* key |-> the buckets find_bucket visits, in order
    IdHash,       \* id |-> calculate_id_hash(id) & (ID_HASH_TABLE_SIZE - 1)
    NoKey,        \* name_hash = 0: an empty bucket
    NoId,         \* the zeroed uuid of a freed slot
    NoValue       \* the zeroed payload of a freed slot

Slots == 0 .. MaxRecords - 1
NoBucket == -1
SlotOrNil == Slots \cup {Nil}
Storable == Values \ Oversized

ASSUME RecordsAssumption ==
    /\ MaxRecords \in Nat \ {0}
    /\ Oversized \subseteq Values
    /\ NoKey \notin Keys /\ NoId \notin Ids /\ NoValue \notin Values

ASSUME BucketsAssumption ==
    /\ NoBucket \notin Buckets
    /\ Probe \in [Keys -> Seq(Buckets)]
    /\ IdHash \in [Ids \cup {NoId} -> IdBuckets]

VARIABLES
    name_key,       \* hash_table[b].name_hash and .qtype
    head_slot_idx,  \* hash_table[b].head_slot_idx
    id_slot,        \* id_hash_table[h].slot_idx
    is_used,        \* data_records[s].is_used
    next_index,     \* data_records[s].next_index: chain or free list
    prev_index,     \* data_records[s].prev_index
    slot_id,        \* data_records[s].id
    slot_bucket,    \* data_records[s].bucket_idx
    slot_value,     \* the rest of data_records[s]
    free_head       \* free_list_head_idx

tables == <<name_key, head_slot_idx, id_slot>>
links == <<is_used, next_index, prev_index, free_head>>
contents == <<slot_id, slot_bucket, slot_value>>
vars == <<name_key, head_slot_idx, id_slot, is_used, next_index, prev_index,
          slot_id, slot_bucket, slot_value, free_head>>

(***************************************************************************)
(* A fresh file.  hash_table is zeroed, so the head of an empty bucket is  *)
(* slot 0, not -1; bucket_idx is left as ftruncate made it.                *)
(***************************************************************************)
Init ==
    /\ name_key = [b \in Buckets |-> NoKey]
    /\ head_slot_idx = [b \in Buckets |-> 0]
    /\ id_slot = [h \in IdBuckets |-> Nil]
    /\ is_used = [s \in Slots |-> FALSE]
    /\ next_index = [s \in Slots |-> IF s + 1 \in Slots THEN s + 1 ELSE Nil]
    /\ prev_index = [s \in Slots |-> Nil]
    /\ slot_id = [s \in Slots |-> NoId]
    /\ slot_bucket = [s \in Slots |-> NoBucket]
    /\ slot_value = [s \in Slots |-> NoValue]
    /\ free_head = 0

-----------------------------------------------------------------------------
(* Reading *)

\* mutant: the name is not compared, so every probe ends at the home bucket
StopsAtHome(k, b) == name_key[b] \in Keys \cup {NoKey}

Stops(k, b) == name_key[b] \in {NoKey, k}

\* the n-th probe of k is the first that finds k's bucket or an empty one
FirstStop(k, n) ==
    /\ Stops(k, Probe[k][n])
    /\ \A m \in 1 .. n - 1 : ~Stops(k, Probe[k][m])

FindBucket(k) ==
    IF \E n \in 1 .. Len(Probe[k]) : FirstStop(k, n)
    THEN Probe[k][CHOOSE n \in 1 .. Len(Probe[k]) : FirstStop(k, n)]
    ELSE NoBucket

\* get_record's walk: it stops at -1, at an unused slot, at a slot that
\* follows itself, and after MAX_DATA_RECORDS slots
Walk[left \in 0 .. MaxRecords] ==
    [s \in SlotOrNil |->
        IF s = Nil \/ left = 0 THEN <<>>
        ELSE IF ~is_used[s] THEN <<>>
        ELSE IF next_index[s] = s THEN <<s>>
        ELSE <<s>> \o Walk[left - 1][next_index[s]]]

GetRecord(k) ==
    LET b == FindBucket(k) IN
    IF b = NoBucket THEN <<>>
    ELSE IF name_key[b] = NoKey THEN <<>>
    ELSE Walk[MaxRecords][head_slot_idx[b]]

\* the slot update_record and delete_record_from_uuid act on, or Nil
SlotOf(id) ==
    LET s == id_slot[IdHash[id]] IN
    IF s = Nil THEN Nil
    ELSE IF is_used[s] /\ slot_id[s] = id THEN s ELSE Nil

-----------------------------------------------------------------------------
(* Writing.  A call that returns false changes nothing and is no step.     *)

\* mutant: without the test of rdata.size()
CanAppendAnySize(k, id, v) ==
    FindBucket(k) # NoBucket /\ id_slot[IdHash[id]] = Nil /\ free_head # Nil

\* mutant: without the test of the id entry
CanAppendAgain(k, id, v) ==
    v \in Storable /\ FindBucket(k) # NoBucket /\ free_head # Nil

CanAppend(k, id, v) ==
    /\ v \in Storable
    /\ FindBucket(k) # NoBucket
    /\ id_slot[IdHash[id]] = Nil
    /\ free_head # Nil

\* the first used slot behind a dead head, as append_record salvages it
Salvage(used, next, head) ==
    LET from[left \in 0 .. MaxRecords, s \in SlotOrNil] ==
            IF s = Nil \/ left = 0 THEN Nil
            ELSE IF used[s] THEN s
            ELSE from[left - 1, next[s]]
    IN  from[MaxRecords, next[head]]

\* mutant: the old chain is forgotten
NoSuccessor(b, s) == Nil

\* what the new slot s is put in front of
Successor(b, s) ==
    LET used == [is_used EXCEPT ![s] = TRUE]
        next == [next_index EXCEPT ![s] = Nil]
        head == head_slot_idx[b]
    IN  IF name_key[b] = NoKey THEN Nil
        ELSE IF head = s THEN Nil
        ELSE IF used[head] THEN head
        ELSE Salvage(used, next, head)

AppendRecord(k, id, v) ==
    /\ CanAppend(k, id, v)
    /\ LET b == FindBucket(k)
           s == free_head
           n == Successor(b, s)
           unlinked == [prev_index EXCEPT ![s] = Nil]
       IN  /\ free_head' = next_index[s]
           /\ id_slot' = [id_slot EXCEPT ![IdHash[id]] = s]
           /\ is_used' = [is_used EXCEPT ![s] = TRUE]
           /\ slot_id' = [slot_id EXCEPT ![s] = id]
           /\ slot_bucket' = [slot_bucket EXCEPT ![s] = b]
           /\ slot_value' = [slot_value EXCEPT ![s] = v]
           /\ name_key' = [name_key EXCEPT ![b] = k]
           /\ head_slot_idx' = [head_slot_idx EXCEPT ![b] = s]
           /\ next_index' = [next_index EXCEPT ![s] = n]
           /\ prev_index' = IF n = Nil THEN unlinked
                            ELSE [unlinked EXCEPT ![n] = s]

UpdateRecord(id, v) ==
    /\ SlotOf(id) # Nil
    /\ v \in Storable
    /\ slot_value' = [slot_value EXCEPT ![SlotOf(id)] = v]
    /\ UNCHANGED <<tables, links, slot_id, slot_bucket>>

\* unlink the slot, empty its bucket if that was the last one, push the slot
\* on the free list; the freed slot keeps its bucket_idx
DeleteRecordFromUuid(id) ==
    LET s == SlotOf(id)
        b == slot_bucket[s]
        p == prev_index[s]
        n == next_index[s]
        is_head == head_slot_idx[b] = s
        head == IF is_head THEN n ELSE head_slot_idx[b]
        nexts == IF is_head \/ p = Nil THEN next_index
                 ELSE [next_index EXCEPT ![p] = n]
        prevs == IF n = Nil THEN prev_index
                 ELSE [prev_index EXCEPT ![n] = p]
    IN  /\ s # Nil
        /\ head_slot_idx' = [head_slot_idx EXCEPT ![b] = head]
        /\ name_key' = [name_key EXCEPT ![b] = IF head = Nil THEN NoKey ELSE @]
        /\ next_index' = [nexts EXCEPT ![s] = free_head]
        /\ prev_index' = [prevs EXCEPT ![s] = Nil]
        /\ free_head' = s
        /\ is_used' = [is_used EXCEPT ![s] = FALSE]
        /\ slot_id' = [slot_id EXCEPT ![s] = NoId]
        /\ slot_value' = [slot_value EXCEPT ![s] = NoValue]
        /\ id_slot' = [id_slot EXCEPT ![IdHash[id]] = Nil]
        /\ UNCHANGED slot_bucket

Next ==
    \/ \E k \in Keys, id \in Ids, v \in Values : AppendRecord(k, id, v)
    \/ \E id \in Ids, v \in Values : UpdateRecord(id, v)
    \/ \E id \in Ids : DeleteRecordFromUuid(id)

Spec == Init /\ [][Next]_vars

-----------------------------------------------------------------------------
(***************************************************************************)
(* The two operations of the class that the program never reaches:         *)
(* delete_record has no caller, and main removes the file before init, so  *)
(* init never finds one to reopen.                                         *)
(***************************************************************************)

\* delete_record's walk does not look at is_used
Chain[left \in 0 .. MaxRecords] ==
    [s \in SlotOrNil |->
        IF s = Nil \/ left = 0 THEN <<>> ELSE <<s>> \o Chain[left - 1][next_index[s]]]

\* every slot of the chain is pushed in turn, so the last one ends on top
DeleteRecord(k) ==
    LET b == FindBucket(k)
        chain == Chain[MaxRecords][head_slot_idx[b]]
        freed == {chain[i] : i \in DOMAIN chain}
        at(s) == CHOOSE i \in DOMAIN chain : chain[i] = s
    IN  /\ b # NoBucket
        /\ name_key[b] # NoKey
        /\ name_key' = [name_key EXCEPT ![b] = NoKey]
        /\ head_slot_idx' = [head_slot_idx EXCEPT ![b] = Nil]
        /\ id_slot' = [h \in IdBuckets |->
               IF id_slot[h] \in freed /\ h = IdHash[slot_id[id_slot[h]]]
               THEN Nil ELSE id_slot[h]]
        /\ is_used' = [s \in Slots |-> is_used[s] /\ s \notin freed]
        /\ next_index' = [s \in Slots |->
               IF s \notin freed THEN next_index[s]
               ELSE IF at(s) = 1 THEN free_head ELSE chain[at(s) - 1]]
        /\ prev_index' = [s \in Slots |->
               IF s \in freed THEN Nil ELSE prev_index[s]]
        /\ free_head' = chain[Len(chain)]
        /\ slot_id' = [s \in Slots |-> IF s \in freed THEN NoId ELSE slot_id[s]]
        /\ slot_value' = [s \in Slots |->
               IF s \in freed THEN NoValue ELSE slot_value[s]]
        /\ UNCHANGED slot_bucket

\* the free list init threads through the unused slots in ascending order
FirstUnused(from) ==
    IF \E s \in Slots : s >= from /\ ~is_used[s]
    THEN CHOOSE s \in Slots : /\ s >= from /\ ~is_used[s]
                              /\ \A t \in from .. s - 1 : is_used[t]
    ELSE Nil

\* init on an existing file: the id table and the free list are rebuilt from
\* the slots, of two slots with one id hash the later one wins
Reopen ==
    /\ id_slot' = [h \in IdBuckets |->
           LET S == {s \in Slots : is_used[s] /\ IdHash[slot_id[s]] = h} IN
           IF S = {} THEN Nil ELSE CHOOSE s \in S : \A t \in S : t <= s]
    /\ next_index' = [s \in Slots |->
           IF is_used[s] THEN next_index[s] ELSE FirstUnused(s + 1)]
    /\ free_head' = FirstUnused(0)
    /\ UNCHANGED <<name_key, head_slot_idx, is_used, prev_index, contents>>

FullNext == Next \/ Reopen \/ \E k \in Keys : DeleteRecord(k)

FullSpec == Init /\ [][FullNext]_vars
=============================================================================
