---------------------------- MODULE SyncRequests ----------------------------
(***************************************************************************)
(* The Sync listener of Core::worker: what a request of the control plane  *)
(* does to the two caches and what it is answered.  The caches are stores  *)
(* of whole records (RecordCache is proved to implement RecordStore; the   *)
(* ip group cache is taken in its undamaged state), the request text is    *)
(* taken apart: which parameters getParamFromCharBuffer finds is "fields". *)
(***************************************************************************)
EXTENDS Integers, FiniteSets

CONSTANTS
    Keys,        \* names and types
    Groups,      \* group_id
    Countries,   \* location_code
    Ids,         \* db_id
    Values,      \* rdata, ttl, priority and flags
    Oversized,   \* the values whose rdata is too large for a record slot
    NoValue,     \* no "value" parameter in a request that needs one
    IdHash,      \* id |-> its entry of id_hash_table
    MaxRecords   \* slots of each cache

EntryKeys == Groups \X Countries

ASSUME SyncAssumption ==
    /\ Oversized \subseteq Values /\ NoValue \notin Values
    /\ MaxRecords \in Nat

\* fields: "all" the parameters of the first test, only the "ids" of the
\* delete form, or fewer
Requests(family, keys, values) ==
    [family : {family}, op : {"add", "update", "delete", "other"},
     fields : {"all", "ids", "none"}, id : Ids, key : keys, value : values]

RecordRequest == Requests("record", Keys, Values \cup {NoValue})
EntryRequest == Requests("entry", EntryKeys, Values \ Oversized)

VARIABLES
    records,   \* Main::recordsMap
    entries,   \* Main::ipGroupMap
    request,   \* the request handled last
    reply      \* and its answer: "0", "1" or the initial "Bad Request"

vars == <<records, entries, request, reply>>

Item(id, k, v) == [id |-> id, key |-> k, value |-> v]
WithId(store, id) == {r \in store : r.id = id}

Init ==
    /\ records = {} /\ entries = {}
    /\ request \in [family : {"none"}]
    /\ reply = "400"

-----------------------------------------------------------------------------
(* The caches' calls *)

\* mutant: the id entry is not tested
HasSlot(store, id) == Cardinality(store) < MaxRecords

HasRoom(store, id) ==
    /\ \A r \in store : IdHash[r.id] # IdHash[id]
    /\ Cardinality(store) < MaxRecords

\* append_record; the caller never looks at its result
Appended(store, id, k, v) ==
    IF v \notin Oversized /\ HasRoom(store, id)
    THEN store \cup {Item(id, k, v)} ELSE store

\* Records::Mmap::update_record keeps the key of the record
CanRevise(id, v) == WithId(records, id) # {} /\ v \notin Oversized

Revised(id, v) == {IF r.id = id THEN [r EXCEPT !.value = v] ELSE r : r \in records}

Without(store, id) == store \ WithId(store, id)

\* IpGroupEntry::Mmap compares the group too; an address always fits
InGroup(id, g) == {e \in WithId(entries, id) : e.key[1] = g}

-----------------------------------------------------------------------------
(* Record requests, "0-1", "0-2" and "0-3" *)

Answer(r, text) == request' = r /\ reply' = text

RecordAdd(r) ==
    /\ r.op = "add" /\ r.fields = "all" /\ r.value # NoValue
    /\ records' = Appended(records, r.id, r.key, r.value)
    /\ Answer(r, "0")
    /\ UNCHANGED entries

\* mutant: the record is deleted but not appended again
RecordUpdateOrDelete(r) ==
    /\ r.op = "update" /\ r.fields = "all" /\ r.value # NoValue
    /\ records' = IF CanRevise(r.id, r.value) THEN Revised(r.id, r.value)
                  ELSE Without(records, r.id)
    /\ Answer(r, "0")
    /\ UNCHANGED entries

RecordUpdate(r) ==
    /\ r.op = "update" /\ r.fields = "all" /\ r.value # NoValue
    /\ records' = IF CanRevise(r.id, r.value) THEN Revised(r.id, r.value)
                  ELSE Appended(Without(records, r.id), r.id, r.key, r.value)
    /\ Answer(r, "0")
    /\ UNCHANGED entries

RecordWithoutValue(r) ==
    /\ r.op \in {"add", "update"} /\ r.fields = "all" /\ r.value = NoValue
    /\ Answer(r, "1")
    /\ UNCHANGED <<records, entries>>

RecordDelete(r) ==
    /\ r.op = "delete" /\ r.fields = "ids"
    /\ records' = Without(records, r.id)
    /\ Answer(r, "0")
    /\ UNCHANGED entries

\* nothing of the switch and the else-if applies
RecordRefused(r) ==
    /\ \/ r.op = "other" \/ r.fields = "none"
       \/ r.op = "delete" /\ r.fields = "all"
       \/ r.op # "delete" /\ r.fields = "ids"
    /\ Answer(r, "400")
    /\ UNCHANGED <<records, entries>>

-----------------------------------------------------------------------------
(* Ip group entry requests, "1-1", "1-2" and "1-3" *)

EntryAdd(r) ==
    /\ r.op = "add" /\ r.fields = "all"
    /\ entries' = Appended(entries, r.id, r.key, r.value)
    /\ Answer(r, "0")
    /\ UNCHANGED records

\* mutant: the country stays as it was
EntryUpdateStays(r) ==
    LET mine == InGroup(r.id, r.key[1]) IN
    /\ r.op = "update" /\ r.fields = "all"
    /\ entries' = IF mine # {} THEN (entries \ mine) \cup {[e EXCEPT !.value = r.value] : e \in mine}
                  ELSE Appended(entries, r.id, r.key, r.value)
    /\ Answer(r, "0")
    /\ UNCHANGED records

\* update_record overwrites the country, else delete within the group, append
EntryUpdate(r) ==
    LET mine == InGroup(r.id, r.key[1]) IN
    /\ r.op = "update" /\ r.fields = "all"
    /\ entries' = IF mine # {} THEN (entries \ mine) \cup {Item(r.id, r.key, r.value)}
                  ELSE Appended(entries, r.id, r.key, r.value)
    /\ Answer(r, "0")
    /\ UNCHANGED records

Found(k) == \E e \in entries : e.key = k

EntryNotFound(r) ==
    /\ r.op = "delete" /\ r.fields = "all" /\ ~Found(r.key)
    /\ Answer(r, "1")
    /\ UNCHANGED <<records, entries>>

EntryDelete(r) ==
    /\ r.op = "delete" /\ r.fields = "ids"
    /\ entries' = entries \ InGroup(r.id, r.key[1])
    /\ Answer(r, "0")
    /\ UNCHANGED records

\* a delete with all parameters that finds entries meets a switch without a
\* case for it
EntryRefused(r) ==
    /\ \/ r.op = "other" \/ r.fields = "none"
       \/ r.op = "delete" /\ r.fields = "all" /\ Found(r.key)
       \/ r.op # "delete" /\ r.fields = "ids"
    /\ Answer(r, "400")
    /\ UNCHANGED <<records, entries>>

-----------------------------------------------------------------------------

HandleRecord(r) ==
    \/ RecordAdd(r) \/ RecordUpdate(r) \/ RecordWithoutValue(r)
    \/ RecordDelete(r) \/ RecordRefused(r)

HandleEntry(r) ==
    \/ EntryAdd(r) \/ EntryUpdate(r) \/ EntryNotFound(r)
    \/ EntryDelete(r) \/ EntryRefused(r)

Next ==
    \/ \E r \in RecordRequest : HandleRecord(r)
    \/ \E r \in EntryRequest : HandleEntry(r)

Spec == Init /\ [][Next]_vars
=============================================================================
