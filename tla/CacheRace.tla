----------------------------- MODULE CacheRace -----------------------------
(***************************************************************************)
(* Records::Mmap taken apart: the worker looks up, appends and deletes     *)
(* while the operational thread appends, and nothing locks the file.  A    *)
(* step here is one load or store that the other thread can tell, or some  *)
(* that it cannot tell apart; each thread's happen in the order of the     *)
(* source, which is an assumption, as the fields are plain memory.         *)
(*                                                                         *)
(* RecordCache has the same arrays with each call as one step.  Contents   *)
(* other than the id are left out, and update_record with them, which      *)
(* writes nothing else.                                                    *)
(***************************************************************************)
EXTENDS LinkedLists, Sequences

CONSTANTS
    Keys,         \* (name_hash, qtype) pairs with name_hash # 0
    Ids,          \* record uuids
    Owner,        \* id |-> the key of its record
    MaxRecords,   \* MAX_DATA_RECORDS
    Buckets,      \* indices of hash_table
    IdBuckets,    \* indices of id_hash_table
    Probe,        \* key |-> the buckets find_bucket visits, in order
    IdHash,       \* id |-> calculate_id_hash(id) & (ID_HASH_TABLE_SIZE - 1)
    NoKey,        \* name_hash = 0: an empty bucket
    HashOnly,     \* a name_hash whose qtype is still 0
    NoId,         \* the zeroed uuid of a freed slot
    MaxCalls      \* bound: appends and deletes that get as far as their id

Slots == 0 .. MaxRecords - 1
SlotOrNil == Slots \cup {Nil}
NoBucket == -1
Threads == {"worker", "operational"}
Other(t) == IF t = "worker" THEN "operational" ELSE "worker"

ASSUME RaceAssumption ==
    /\ MaxRecords \in Nat \ {0}
    /\ Owner \in [Ids -> Keys]
    /\ NoBucket \notin Buckets
    /\ Probe \in [Keys -> Seq(Buckets)]
    /\ IdHash \in [Ids -> IdBuckets]
    /\ NoKey \notin Keys /\ HashOnly \notin Keys \cup {NoKey} /\ NoId \notin Ids
    /\ MaxCalls \in Nat

VARIABLES
    name_key, head_slot_idx, id_slot, is_used, next_index, prev_index,
    slot_id, slot_bucket, free_head,     \* as in RecordCache
    call,     \* thread |-> the call it is in and the locals of it
    calls,    \* appends and deletes so far
    raced     \* calls have met in a place neither tolerates; for the properties

tables == <<name_key, head_slot_idx, id_slot>>
slots == <<is_used, next_index, prev_index, slot_id, slot_bucket>>
vars == <<name_key, head_slot_idx, id_slot, is_used, next_index, prev_index,
          slot_id, slot_bucket, free_head, call, calls, raced>>

\* id: of the record, bucket: bucket_idx, slot: new_slot_idx, slot_idx or
\* current_slot, next and prev: what was loaded, left: MAX_DATA_RECORDS - visited,
\* found: out_records.  before and early are for the properties.
Idle == [pc |-> "idle", key |-> NoKey, id |-> NoId, bucket |-> NoBucket, slot |-> Nil,
         next |-> Nil, prev |-> Nil, left |-> 0, found |-> {}, before |-> {},
         early |-> FALSE]

Init ==
    /\ name_key = [b \in Buckets |-> NoKey]
    /\ head_slot_idx = [b \in Buckets |-> 0]
    /\ id_slot = [h \in IdBuckets |-> Nil]
    /\ is_used = [s \in Slots |-> FALSE]
    /\ next_index = [s \in Slots |-> IF s + 1 \in Slots THEN s + 1 ELSE Nil]
    /\ prev_index = [s \in Slots |-> Nil]
    /\ slot_id = [s \in Slots |-> NoId]
    /\ slot_bucket = [s \in Slots |-> NoBucket]
    /\ free_head = 0
    /\ call = [t \in Threads |-> Idle] /\ calls = 0
    /\ raced = FALSE

-----------------------------------------------------------------------------
(* Where two calls must not meet *)

\* between the load and the store of free_list_head_idx
OnFreeList(c) == c.pc \in {"load_next", "store_free", "push"}

\* between find_bucket, or the load of bucket_idx, and the last store to its chain
Writing(c) == c.pc \notin {"idle", "head", "walk", "answer", "push", "clear_id"}

\* between the test of the id entry and its last store
OnIdEntry(c) == c.id # NoId /\ c.pc # "idle"

Meet(c, d) ==
    \/ OnFreeList(c) /\ OnFreeList(d)
    \/ Writing(c) /\ Writing(d) /\ c.bucket = d.bucket
    \/ OnIdEntry(c) /\ OnIdEntry(d) /\ IdHash[c.id] = IdHash[d.id]

Begin(t, c) ==
    /\ call[t].pc = "idle" /\ calls < MaxCalls
    /\ calls' = calls + 1
    /\ call' = [call EXCEPT ![t] = c]
    /\ raced' = (raced \/ Meet(c, call[Other(t)]))

Step(t, from, c) ==
    /\ call[t].pc = from
    /\ call' = [call EXCEPT ![t] = c]
    /\ UNCHANGED calls
    /\ raced' = (raced \/ Meet(c, call[Other(t)]))

To(t, pc) == [call[t] EXCEPT !.pc = pc]

-----------------------------------------------------------------------------
(* find_bucket, whose loads are one step *)

FirstStop(k, n) ==
    /\ name_key[Probe[k][n]] \in {NoKey, k}
    /\ \A m \in 1 .. n - 1 : name_key[Probe[k][m]] \notin {NoKey, k}

FindBucket(k) ==
    IF \E n \in 1 .. Len(Probe[k]) : FirstStop(k, n)
    THEN Probe[k][CHOOSE n \in 1 .. Len(Probe[k]) : FirstStop(k, n)]
    ELSE NoBucket

-----------------------------------------------------------------------------
(* append_record *)

Find(t, id) ==
    LET b == FindBucket(Owner[id]) IN
    /\ b # NoBucket
    /\ Begin(t, [Idle EXCEPT !.pc = "test_id", !.id = id, !.key = Owner[id], !.bucket = b])
    /\ UNCHANGED <<tables, slots, free_head>>

TestId(t) ==
    /\ Step(t, "test_id", IF id_slot[IdHash[call[t].id]] = Nil THEN To(t, "load_free")
                          ELSE Idle)
    /\ UNCHANGED <<tables, slots, free_head>>

LoadFree(t) ==
    /\ Step(t, "load_free", IF free_head = Nil THEN Idle
                            ELSE [To(t, "load_next") EXCEPT !.slot = free_head])
    /\ UNCHANGED <<tables, slots, free_head>>

LoadNext(t) ==
    /\ Step(t, "load_next", [To(t, "store_free") EXCEPT !.next = next_index[call[t].slot]])
    /\ UNCHANGED <<tables, slots, free_head>>

StoreFree(t) ==
    /\ Step(t, "store_free", [To(t, "take") EXCEPT !.next = Nil])
    /\ free_head' = call[t].next
    /\ UNCHANGED <<tables, slots>>

Take(t) ==
    LET s == call[t].slot IN
    /\ Step(t, "take", To(t, "reset"))
    /\ is_used' = [is_used EXCEPT ![s] = TRUE]
    /\ UNCHANGED <<tables, next_index, prev_index, slot_id, slot_bucket, free_head>>

Reset(t) ==
    LET s == call[t].slot IN
    /\ Step(t, "reset", To(t, "store_id"))
    /\ next_index' = [next_index EXCEPT ![s] = Nil]
    /\ prev_index' = [prev_index EXCEPT ![s] = Nil]
    /\ UNCHANGED <<tables, is_used, slot_id, slot_bucket, free_head>>

StoreId(t) ==
    /\ Step(t, "store_id", To(t, "fill"))
    /\ id_slot' = [id_slot EXCEPT ![IdHash[call[t].id]] = call[t].slot]
    /\ UNCHANGED <<name_key, head_slot_idx, slots, free_head>>

Fill(t) ==
    LET s == call[t].slot IN
    /\ Step(t, "fill", To(t, "test_name"))
    /\ slot_id' = [slot_id EXCEPT ![s] = call[t].id]
    /\ slot_bucket' = [slot_bucket EXCEPT ![s] = call[t].bucket]
    /\ is_used' = [is_used EXCEPT ![s] = TRUE]
    /\ UNCHANGED <<tables, next_index, prev_index, free_head>>

\* an empty bucket: its hash, its qtype, its head and the ends of the list are
\* stored; find_bucket goes past a hash whose qtype is not its own
TestName(t) ==
    LET b == call[t].bucket IN
    /\ Step(t, "test_name", IF name_key[b] = NoKey THEN To(t, "name")
                            ELSE [To(t, "link") EXCEPT !.next = head_slot_idx[b]])
    /\ UNCHANGED <<tables, slots, free_head>>

Name(t) ==
    /\ Step(t, "name", To(t, "qtype"))
    /\ name_key' = [name_key EXCEPT ![call[t].bucket] = HashOnly]
    /\ UNCHANGED <<head_slot_idx, id_slot, slots, free_head>>

Qtype(t) ==
    /\ Step(t, "qtype", To(t, "first_head"))
    /\ name_key' = [name_key EXCEPT ![call[t].bucket] = call[t].key]
    /\ UNCHANGED <<head_slot_idx, id_slot, slots, free_head>>

FirstHead(t) ==
    /\ Step(t, "first_head", To(t, "ends"))
    /\ head_slot_idx' = [head_slot_idx EXCEPT ![call[t].bucket] = call[t].slot]
    /\ UNCHANGED <<name_key, id_slot, slots, free_head>>

Ends(t) ==
    LET s == call[t].slot IN
    /\ Step(t, "ends", Idle)
    /\ next_index' = [next_index EXCEPT ![s] = Nil]
    /\ prev_index' = [prev_index EXCEPT ![s] = Nil]
    /\ UNCHANGED <<tables, is_used, slot_id, slot_bucket, free_head>>

\* the loads of the salvage walk are one step; a head of -1, which only another
\* thread's delete can leave behind a name, is not followed, and what lies
\* before data_records[0], where its is_used is read and its prev_index
\* written, is not modelled
Salvage(head) ==
    LET from[left \in 0 .. MaxRecords, s \in SlotOrNil] ==
            IF s = Nil \/ left = 0 THEN Nil
            ELSE IF is_used[s] THEN s
            ELSE from[left - 1, next_index[s]]
    IN  IF head = Nil THEN Nil ELSE from[MaxRecords, next_index[head]]

InFront(s, n) ==
    /\ next_index' = [next_index EXCEPT ![s] = n]
    /\ prev_index' = [p \in Slots |-> IF p = s THEN Nil
                                      ELSE IF p = n THEN s ELSE prev_index[p]]

\* mutant: the head is stored before the new slot leads to the old one
LinkHeadFirst(t) ==
    LET c == call[t] IN
    /\ Step(t, "link", To(t, "links"))
    /\ head_slot_idx' = [head_slot_idx EXCEPT ![c.bucket] = c.slot]
    /\ UNCHANGED <<name_key, id_slot, slots, free_head>>

\* a used head gets the new slot in front of it, then the bucket gets its new
\* head; a dead one is replaced first
Link(t) ==
    LET c == call[t] IN
    IF c.next # Nil /\ c.next # c.slot /\ is_used[c.next]
    THEN /\ Step(t, "link", To(t, "new_head"))
         /\ InFront(c.slot, c.next)
         /\ UNCHANGED <<tables, is_used, slot_id, slot_bucket, free_head>>
    ELSE /\ Step(t, "link", [To(t, "links") EXCEPT !.next =
                IF c.next = c.slot THEN Nil ELSE Salvage(c.next)])
         /\ head_slot_idx' = [head_slot_idx EXCEPT ![c.bucket] = c.slot]
         /\ UNCHANGED <<name_key, id_slot, slots, free_head>>

NewHead(t) ==
    /\ Step(t, "new_head", Idle)
    /\ head_slot_idx' = [head_slot_idx EXCEPT ![call[t].bucket] = call[t].slot]
    /\ UNCHANGED <<name_key, id_slot, slots, free_head>>

Links(t) ==
    /\ Step(t, "links", Idle)
    /\ InFront(call[t].slot, call[t].next)
    /\ UNCHANGED <<tables, is_used, slot_id, slot_bucket, free_head>>

AppendRecord(t) ==
    \/ \E id \in Ids : Find(t, id)
    \/ TestId(t) \/ LoadFree(t) \/ LoadNext(t) \/ StoreFree(t) \/ Take(t) \/ Reset(t)
    \/ StoreId(t) \/ Fill(t) \/ TestName(t) \/ Name(t) \/ Qtype(t) \/ FirstHead(t) \/ Ends(t)
    \/ Link(t) \/ NewHead(t) \/ Links(t)

-----------------------------------------------------------------------------
(* delete_record_from_uuid, by the worker only *)

Locate(t, id) ==
    LET s == id_slot[IdHash[id]] IN
    /\ s # Nil /\ is_used[s] /\ slot_id[s] = id
    /\ Begin(t, [Idle EXCEPT !.pc = "unlink", !.id = id, !.slot = s,
               !.bucket = slot_bucket[s], !.prev = prev_index[s], !.next = next_index[s]])
    /\ UNCHANGED <<tables, slots, free_head>>

Unlink(t) ==
    LET c == call[t] IN
    /\ Step(t, "unlink", To(t, "back_link"))
    /\ IF c.slot = head_slot_idx[c.bucket]
       THEN head_slot_idx' = [head_slot_idx EXCEPT ![c.bucket] = c.next] /\ UNCHANGED next_index
       ELSE /\ next_index' = [s \in Slots |-> IF s = c.prev THEN c.next ELSE next_index[s]]
            /\ UNCHANGED head_slot_idx
    /\ UNCHANGED <<name_key, id_slot, is_used, prev_index, slot_id, slot_bucket, free_head>>

\* mutant: the slot behind a removed head keeps its prev_index
BackLinkInside(t) ==
    LET c == call[t] IN
    /\ Step(t, "back_link", To(t, "empty"))
    /\ prev_index' = [s \in Slots |-> IF s = c.next /\ c.prev # Nil THEN c.prev ELSE prev_index[s]]
    /\ UNCHANGED <<tables, is_used, next_index, slot_id, slot_bucket, free_head>>

BackLink(t) ==
    LET c == call[t] IN
    /\ Step(t, "back_link", To(t, "empty"))
    /\ prev_index' = [s \in Slots |-> IF s = c.next THEN c.prev ELSE prev_index[s]]
    /\ UNCHANGED <<tables, is_used, next_index, slot_id, slot_bucket, free_head>>

Empty(t) ==
    LET b == call[t].bucket IN
    /\ Step(t, "empty", To(t, "free"))
    /\ name_key' = [name_key EXCEPT ![b] = IF head_slot_idx[b] = Nil THEN NoKey ELSE @]
    /\ UNCHANGED <<head_slot_idx, id_slot, slots, free_head>>

\* push_free_slot up to the load of free_list_head_idx
Free(t) ==
    LET s == call[t].slot
        h == IdHash[call[t].id] IN
    /\ Step(t, "free", To(t, "push"))
    /\ id_slot' = [id_slot EXCEPT ![h] = IF slot_id[s] = call[t].id /\ @ = s THEN Nil ELSE @]
    /\ is_used' = [is_used EXCEPT ![s] = FALSE]
    /\ slot_id' = [slot_id EXCEPT ![s] = NoId]
    /\ next_index' = [next_index EXCEPT ![s] = free_head]
    /\ prev_index' = [prev_index EXCEPT ![s] = Nil]
    /\ UNCHANGED <<name_key, head_slot_idx, slot_bucket, free_head>>

Push(t) ==
    /\ Step(t, "push", To(t, "clear_id"))
    /\ free_head' = call[t].slot
    /\ UNCHANGED <<tables, slots>>

ClearId(t) ==
    /\ Step(t, "clear_id", Idle)
    /\ id_slot' = [id_slot EXCEPT ![IdHash[call[t].id]] = Nil]
    /\ UNCHANGED <<name_key, head_slot_idx, slots, free_head>>

DeleteRecord(t) ==
    \/ \E id \in Ids : Locate(t, id)
    \/ Unlink(t) \/ BackLink(t) \/ Empty(t) \/ Free(t) \/ Push(t) \/ ClearId(t)

-----------------------------------------------------------------------------
(* get_record, by the worker only *)

\* the slots a walk of one step would visit
Path[left \in 0 .. MaxRecords] ==
    [s \in SlotOrNil |->
        IF s = Nil \/ left = 0 THEN <<>>
        ELSE IF ~is_used[s] THEN <<>>
        ELSE IF next_index[s] = s THEN <<s>>
        ELSE <<s>> \o Path[left - 1][next_index[s]]]

\* what a walk from the head of b would return now
Chained(b) ==
    LET path == Path[MaxRecords][head_slot_idx[b]] IN {slot_id[path[i]] : i \in DOMAIN path}

\* the bucket has its name and not yet its head
HalfNamed(c, b) == c.pc = "first_head" /\ c.bucket = b

LookUp(t, k) ==
    LET b == FindBucket(k) IN
    /\ b # NoBucket /\ name_key[b] # NoKey
    /\ Step(t, "idle", [Idle EXCEPT !.pc = "head", !.key = k, !.bucket = b,
                                    !.before = Chained(b),
                                    !.early = HalfNamed(call[Other(t)], b)])
    /\ UNCHANGED <<tables, slots, free_head>>

LoadHead(t) ==
    LET b == call[t].bucket IN
    /\ Step(t, "head", [To(t, "walk") EXCEPT
               !.slot = head_slot_idx[b], !.left = MaxRecords,
               !.early = @ \/ HalfNamed(call[Other(t)], b)])
    /\ UNCHANGED <<tables, slots, free_head>>

\* mutant: visited is not counted
WalkOn(t) ==
    LET c == call[t]
        s == c.slot IN
    /\ Step(t, "walk",
            IF s = Nil THEN To(t, "answer")
            ELSE IF ~is_used[s] THEN To(t, "answer")
            ELSE [c EXCEPT !.found = @ \cup {slot_id[s]}, !.slot = next_index[s],
                           !.pc = IF next_index[s] = s THEN "answer" ELSE "walk"])
    /\ UNCHANGED <<tables, slots, free_head>>

Walk(t) ==
    LET c == call[t]
        s == c.slot IN
    /\ Step(t, "walk",
            IF s = Nil \/ c.left = 0 THEN To(t, "answer")
            ELSE IF ~is_used[s] THEN To(t, "answer")
            ELSE [c EXCEPT !.found = @ \cup {slot_id[s]}, !.slot = next_index[s],
                           !.pc = IF next_index[s] = s THEN "answer" ELSE "walk",
                           !.left = @ - 1])
    /\ UNCHANGED <<tables, slots, free_head>>

Answer(t) ==
    /\ Step(t, "answer", Idle)
    /\ UNCHANGED <<tables, slots, free_head>>

GetRecord(t) == (\E k \in Keys : LookUp(t, k)) \/ LoadHead(t) \/ Walk(t) \/ Answer(t)

-----------------------------------------------------------------------------

Worker == AppendRecord("worker") \/ DeleteRecord("worker") \/ GetRecord("worker")

Operational == AppendRecord("operational")

Next == Worker \/ Operational

Spec == Init /\ [][Next]_vars

\* the worker goes on with the walk it is in: the loop holds no lock and waits
\* for nothing
FairSpec == Spec /\ WF_vars(Walk("worker"))
=============================================================================
