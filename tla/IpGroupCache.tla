---------------------------- MODULE IpGroupCache ----------------------------
(***************************************************************************)
(* IpGroupEntry::Mmap (src/src/Cache/MmapIpGroup.cpp): the cache of the    *)
(* addresses of an ip group per country.  It is built like RecordCache,    *)
(* with two differences that matter: a slot does not remember its bucket,  *)
(* so delete_record_from_uuid looks the bucket up again from the slot's    *)
(* current country, and update_record may change that country while the    *)
(* slot stays on the chain it was added to.                                *)
(***************************************************************************)
EXTENDS LinkedLists, Sequences

CONSTANTS
    Groups,       \* group uuids
    Countries,    \* location codes
    Ids,          \* entry uuids
    Values,       \* address and priority
    MaxRecords,   \* MAX_DATA_RECORDS
    Buckets,      \* indices of hash_table
    IdBuckets,    \* indices of id_hash_table
    Probe,        \* group |-> the buckets find_bucket visits, in order
    IdHash,       \* id, also the zeroed one |-> its entry of id_hash_table
    NoKey,        \* group_id_hash = 0: an empty bucket
    NoId,         \* the zeroed uuid of a freed slot
    NoValue       \* the zeroed address of a freed slot

Slots == 0 .. MaxRecords - 1
NoBucket == -1
SlotOrNil == Slots \cup {Nil}
Keys == Groups \X Countries

ASSUME EntriesAssumption ==
    /\ MaxRecords \in Nat \ {0}
    /\ NoKey \notin Keys /\ NoId \notin Ids /\ NoValue \notin Values

ASSUME EntryBucketsAssumption ==
    /\ NoBucket \notin Buckets
    /\ Probe \in [Groups -> Seq(Buckets)]
    /\ IdHash \in [Ids \cup {NoId} -> IdBuckets]

VARIABLES
    bucket_key,     \* hash_table[b].group_id_hash and .country_code
    head_slot_idx,  \* hash_table[b].head_slot_idx
    id_slot,        \* id_hash_table[h].slot_idx
    is_used,        \* data_entries[s].is_used
    next_index,     \* data_entries[s].next_index: chain or free list
    prev_index,     \* data_entries[s].prev_index
    slot_id,        \* data_entries[s].id
    slot_key,       \* data_entries[s].group_id and .country_code
    slot_value,     \* data_entries[s].ip, .len and .priority
    free_head       \* free_list_head_idx

vars == <<bucket_key, head_slot_idx, id_slot, is_used, next_index, prev_index,
          slot_id, slot_key, slot_value, free_head>>

\* init on a new file; the head of a zeroed bucket is slot 0
Init ==
    /\ bucket_key = [b \in Buckets |-> NoKey]
    /\ head_slot_idx = [b \in Buckets |-> 0]
    /\ id_slot = [h \in IdBuckets |-> Nil]
    /\ is_used = [s \in Slots |-> FALSE]
    /\ next_index = [s \in Slots |-> IF s + 1 \in Slots THEN s + 1 ELSE Nil]
    /\ prev_index = [s \in Slots |-> Nil]
    /\ slot_id = [s \in Slots |-> NoId]
    /\ slot_key = [s \in Slots |-> NoKey]
    /\ slot_value = [s \in Slots |-> NoValue]
    /\ free_head = 0

-----------------------------------------------------------------------------
\* mutant: the country is not compared
StopsAtGroup(g, c, b) == bucket_key[b] \in {NoKey} \cup ({g} \X Countries)

Stops(g, c, b) == bucket_key[b] \in {NoKey, <<g, c>>}

FirstStop(g, c, n) ==
    /\ Stops(g, c, Probe[g][n])
    /\ \A m \in 1 .. n - 1 : ~Stops(g, c, Probe[g][m])

FindBucket(g, c) ==
    IF \E n \in 1 .. Len(Probe[g]) : FirstStop(g, c, n)
    THEN Probe[g][CHOOSE n \in 1 .. Len(Probe[g]) : FirstStop(g, c, n)]
    ELSE NoBucket

Walk[left \in 0 .. MaxRecords] ==
    [s \in SlotOrNil |->
        IF s = Nil \/ left = 0 THEN <<>>
        ELSE IF ~is_used[s] THEN <<>>
        ELSE IF next_index[s] = s THEN <<s>>
        ELSE <<s>> \o Walk[left - 1][next_index[s]]]

GetRecord(g, c) ==
    LET b == FindBucket(g, c) IN
    IF b = NoBucket THEN <<>>
    ELSE IF bucket_key[b] = NoKey THEN <<>>
    ELSE Walk[MaxRecords][head_slot_idx[b]]

SlotOf(id) ==
    LET s == id_slot[IdHash[id]] IN
    IF s = Nil THEN Nil
    ELSE IF is_used[s] /\ slot_id[s] = id THEN s ELSE Nil

-----------------------------------------------------------------------------
CanAppend(g, c, id) ==
    /\ FindBucket(g, c) # NoBucket
    /\ id_slot[IdHash[id]] = Nil
    /\ free_head # Nil

\* s is the first used slot behind the dead head, at most MaxRecords away
Salvageable(used, next, head, s) ==
    \E n \in 0 .. MaxRecords - 1 : \E path \in [0 .. n -> Slots] :
        /\ path[0] = next[head] /\ path[n] = s
        /\ \A i \in 1 .. n : ~used[path[i - 1]] /\ path[i] = next[path[i - 1]]
        /\ used[s]

Salvage(used, next, head) ==
    IF \E s \in Slots : Salvageable(used, next, head, s)
    THEN CHOOSE s \in Slots : Salvageable(used, next, head, s)
    ELSE Nil

\* mutant: the old chain is forgotten
NoSuccessor(b, s) == Nil

\* what the new slot s is put in front of
Successor(b, s) ==
    LET used == [is_used EXCEPT ![s] = TRUE]
        next == [next_index EXCEPT ![s] = Nil]
        head == head_slot_idx[b]
    IN  IF bucket_key[b] = NoKey \/ head = s THEN Nil
        ELSE IF used[head] THEN head
        ELSE Salvage(used, next, head)

AppendRecord(g, c, id, v) ==
    /\ CanAppend(g, c, id)
    /\ LET b == FindBucket(g, c)
           s == free_head
           n == Successor(b, s)
           unlinked == [prev_index EXCEPT ![s] = Nil]
       IN  /\ free_head' = next_index[s]
           /\ id_slot' = [id_slot EXCEPT ![IdHash[id]] = s]
           /\ is_used' = [is_used EXCEPT ![s] = TRUE]
           /\ slot_id' = [slot_id EXCEPT ![s] = id]
           /\ slot_key' = [slot_key EXCEPT ![s] = <<g, c>>]
           /\ slot_value' = [slot_value EXCEPT ![s] = v]
           /\ bucket_key' = [bucket_key EXCEPT ![b] = <<g, c>>]
           /\ head_slot_idx' = [head_slot_idx EXCEPT ![b] = s]
           /\ next_index' = [next_index EXCEPT ![s] = n]
           /\ prev_index' = IF n = Nil THEN unlinked
                            ELSE [unlinked EXCEPT ![n] = s]

\* the group must match, the country is overwritten
UpdateRecord(g, c, id, v) ==
    LET s == SlotOf(id) IN
    /\ s # Nil
    /\ slot_key[s][1] = g
    /\ slot_value' = [slot_value EXCEPT ![s] = v]
    /\ slot_key' = [slot_key EXCEPT ![s] = <<g, c>>]
    /\ UNCHANGED <<bucket_key, head_slot_idx, id_slot, is_used, next_index,
                   prev_index, slot_id, free_head>>

\* the bucket an entry is unlinked from is looked up anew
BucketOf(s) == FindBucket(slot_key[s][1], slot_key[s][2])

\* mutant: the bucket keeps its key
BucketKept(b, head) == bucket_key[b]

\* a bucket whose chain has ended becomes empty
BucketAfter(b, head) == IF head = Nil THEN NoKey ELSE bucket_key[b]

DeleteRecordFromUuid(g, id) ==
    LET s == SlotOf(id)
        b == BucketOf(s)
        p == prev_index[s]
        n == next_index[s]
        is_head == head_slot_idx[b] = s
        head == IF is_head THEN n ELSE head_slot_idx[b]
        nexts == IF is_head \/ p = Nil THEN next_index
                 ELSE [next_index EXCEPT ![p] = n]
        prevs == IF n = Nil THEN prev_index
                 ELSE [prev_index EXCEPT ![n] = p]
    IN  /\ s # Nil
        /\ slot_key[s][1] = g
        /\ b # NoBucket
        /\ head_slot_idx' = [head_slot_idx EXCEPT ![b] = head]
        /\ bucket_key' = [bucket_key EXCEPT ![b] = BucketAfter(b, head)]
        /\ next_index' = [nexts EXCEPT ![s] = free_head]
        /\ prev_index' = [prevs EXCEPT ![s] = Nil]
        /\ free_head' = s
        /\ is_used' = [is_used EXCEPT ![s] = FALSE]
        /\ slot_id' = [slot_id EXCEPT ![s] = NoId]
        /\ slot_key' = [slot_key EXCEPT ![s] = NoKey]
        /\ slot_value' = [slot_value EXCEPT ![s] = NoValue]
        /\ id_slot' = [id_slot EXCEPT ![IdHash[id]] = Nil]

Next ==
    \/ \E g \in Groups, c \in Countries, id \in Ids, v \in Values :
           AppendRecord(g, c, id, v) \/ UpdateRecord(g, c, id, v)
    \/ \E g \in Groups, id \in Ids : DeleteRecordFromUuid(g, id)

Spec == Init /\ [][Next]_vars

-----------------------------------------------------------------------------
(***************************************************************************)
(* The two operations of the class that the program never reaches:         *)
(* delete_record has no caller, and main removes the file before init.     *)
(***************************************************************************)

\* push_free_slot(a.slot), with the id entry cleared before if it is the slot's
PushFreeSlot(a) ==
    LET s == a.slot
        h == IdHash[a.ids[s]] IN
    [slot |-> a.next[s],
     table |-> [a.table EXCEPT ![h] = IF @ = s THEN Nil ELSE @],
     next |-> [a.next EXCEPT ![s] = a.free], free |-> s,
     ids |-> [a.ids EXCEPT ![s] = NoId], freed |-> a.freed \cup {s}]

\* the walk of delete_record looks neither at is_used nor for a slot it freed
AfterPushes(head) ==
    LET after[n \in 0 .. MaxRecords] ==
            IF n = 0
            THEN [slot |-> head, table |-> id_slot, next |-> next_index,
                  free |-> free_head, ids |-> slot_id, freed |-> {}]
            ELSE LET a == after[n - 1] IN IF a.slot = Nil THEN a ELSE PushFreeSlot(a)
    IN  after[MaxRecords]

DeleteRecord(g, c) ==
    LET b == FindBucket(g, c)
        a == AfterPushes(head_slot_idx[b])
    IN  /\ b # NoBucket
        /\ bucket_key[b] # NoKey
        /\ slot_key[head_slot_idx[b]] \in {g} \X Countries
        /\ bucket_key' = [bucket_key EXCEPT ![b] = NoKey]
        /\ head_slot_idx' = [head_slot_idx EXCEPT ![b] = Nil]
        /\ id_slot' = a.table
        /\ next_index' = a.next
        /\ free_head' = a.free
        /\ slot_id' = a.ids
        /\ prev_index' = [s \in Slots |-> IF s \in a.freed THEN Nil ELSE prev_index[s]]
        /\ is_used' = [s \in Slots |-> is_used[s] /\ s \notin a.freed]
        /\ slot_key' = [s \in Slots |-> IF s \in a.freed THEN NoKey ELSE slot_key[s]]
        /\ slot_value' = [s \in Slots |-> IF s \in a.freed THEN NoValue ELSE slot_value[s]]

FirstUnused(from) ==
    IF \E s \in Slots : s >= from /\ ~is_used[s]
    THEN CHOOSE s \in Slots : /\ s >= from /\ ~is_used[s]
                              /\ \A t \in from .. s - 1 : is_used[t]
    ELSE Nil

\* init on an existing file rebuilds the id table and the free list
Reopen ==
    /\ id_slot' = [h \in IdBuckets |->
           LET S == {s \in Slots : is_used[s] /\ IdHash[slot_id[s]] = h} IN
           IF S = {} THEN Nil ELSE CHOOSE s \in S : \A t \in S : t <= s]
    /\ next_index' = [s \in Slots |->
           IF is_used[s] THEN next_index[s] ELSE FirstUnused(s + 1)]
    /\ free_head' = FirstUnused(0)
    /\ UNCHANGED <<bucket_key, head_slot_idx, is_used, prev_index, slot_id,
                   slot_key, slot_value>>

FullNext ==
    Next \/ Reopen \/ \E g \in Groups, c \in Countries : DeleteRecord(g, c)

FullSpec == Init /\ [][FullNext]_vars
=============================================================================
