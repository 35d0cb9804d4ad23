----------------------------- MODULE CacheFill -----------------------------
(***************************************************************************)
(* How records reach the cache: the worker thread (Core::handle and the    *)
(* Sync listener), the operational thread with its recordQueue, and the    *)
(* database between them.  The cache is the RecordStore that RecordCache   *)
(* is proved to implement; an append that returns false, whose result no   *)
(* caller looks at, leaves it as it is.                                    *)
(*                                                                         *)
(* A query that misses reads the rows of its name from Cassandra and       *)
(* queues them one by one; the operational thread pops and appends them    *)
(* one by one.  The control plane edits the database and posts a notice to *)
(* the Sync listener, which the worker applies between two queries.  Both  *)
(* threads call the cache without a lock; a step here is one call of it.   *)
(*                                                                         *)
(* The records of a name and the entries of an ip group's country take the *)
(* same way (recordQueue, recordsMap and entryQueue, ipGroupMap).  For     *)
(* entries the rows are counted before they are read, and a country that   *)
(* has none falls back to country DEFAULT: keys with a Fallback.           *)
(***************************************************************************)
EXTENDS Integers, Sequences, FiniteSets

CONSTANTS
    Keys,          \* (owner name, qtype) pairs
    Ids,           \* record uuids
    Owner,         \* id |-> the key of its row, for life
    IdHash,        \* id |-> its entry of id_hash_table
    Fallback,      \* country |-> DEFAULT of its group, name |-> NoKey
    NoKey,
    MaxRecords,    \* slots of the cache
    Displaced,     \* keys whose home bucket another key may hold
    MaxVersion,    \* bound: contents a row goes through
    MaxQueue,      \* bound: length of recordQueue (a std::list has none)
    MaxNotices,    \* bound: notices on their way
    NoFill,        \* the operational thread holds nothing
    NoNotice       \* the worker is not inside an update

Versions == 1 .. MaxVersion
Future == 0
Gone == MaxVersion + 1
Fill == [id : Ids, value : Versions]
Notice == [op : {"add", "update", "delete"}, id : Ids, value : Versions]

ASSUME FillAssumption ==
    /\ MaxVersion \in Nat \ {0} /\ MaxRecords \in Nat /\ MaxQueue \in Nat
    /\ MaxNotices \in Nat
    /\ Owner \in [Ids -> Keys]
    /\ Fallback \in [Keys -> Keys \cup {NoKey}] /\ NoKey \notin Keys
    /\ Displaced \subseteq Keys
    /\ NoFill \notin Fill /\ NoNotice \notin Notice

VARIABLES
    db,         \* id |-> version of its row, Future before it, Gone after it
    cache,      \* Main::recordsMap, as a RecordStore
    recordQueue,
    hand,       \* rec: what queueLifeCycle popped and has not appended yet
    pc,         \* where the worker is
    wanted,     \* the key of the query
    asked,      \* the key the worker is reading for
    fell,       \* it is DEFAULT's turn
    rows,       \* t_matchedRecords: rows read and not queued yet
    task,       \* the update the worker is carrying out
    notices,    \* posted to the Sync listener, not taken yet
    \* what happened, for the properties only
    overtaken,  \* ids whose last notice could not reach a copy under way
    dropped,    \* ids an append refused or whose notice was lost
    seeded,     \* keys whose first cached record came by a notice
    lacked      \* wanted had no row at some time of the query, or a read failed

query == <<wanted, asked, fell, lacked>>
worker == <<pc, query, rows, task>>
history == <<overtaken, dropped, seeded>>
vars == <<db, cache, recordQueue, hand, pc, wanted, asked, fell, rows, task,
          notices, overtaken, dropped, seeded, lacked>>

Cache == INSTANCE RecordStore WITH store <- cache, Values <- Versions

Live(id) == db[id] \in Versions
Of(k) == {r \in cache : r.key = k}
IsCached(id) == Cache!WithId(id) # {}
InFlight(id) ==
    \/ hand # NoFill /\ hand.id = id
    \/ \E i \in DOMAIN recordQueue : recordQueue[i].id = id
Read(id) == \E f \in rows : f.id = id
Notified(id) ==
    \/ task # NoNotice /\ task.id = id
    \/ \E i \in DOMAIN notices : notices[i].id = id

Init ==
    /\ db \in [Ids -> {Future, 1}]
    /\ cache = {}
    /\ recordQueue = <<>> /\ hand = NoFill
    /\ pc = "idle" /\ wanted = NoKey /\ asked = NoKey /\ fell = FALSE
    /\ rows = {} /\ task = NoNotice
    /\ notices = <<>>
    /\ overtaken = {} /\ dropped = {} /\ seeded = {} /\ lacked = FALSE

-----------------------------------------------------------------------------
(* The cache's calls *)

\* append_record returns false on a used id entry or an empty free list
CanStore(id) ==
    /\ \A r \in cache : IdHash[r.id] # IdHash[id]
    /\ Cardinality(cache) < MaxRecords

AppendRecord(id, v) ==
    IF CanStore(id) THEN Cache!Put(Owner[id], id, v) ELSE UNCHANGED cache

DeleteRecord(id) ==
    IF IsCached(id) THEN Cache!Drop(id) ELSE UNCHANGED cache

\* get_record finds the records of k, or, once an emptied bucket stands
\* before k's own, any part of them
Lookups(k) == IF k \in Displaced THEN SUBSET Of(k) ELSE {Of(k)}

-----------------------------------------------------------------------------
(* The worker: queries *)

\* answered from the cache: nothing changes
Hit(k) ==
    /\ pc = "idle"
    /\ Lookups(k) # {{}}
    /\ UNCHANGED vars

RowsOf(k) == {[id |-> id, value |-> db[id]] : id \in {i \in Ids : Live(i) /\ Owner[i] = k}}

Miss(k) ==
    /\ pc = "idle"
    /\ {} \in Lookups(k)
    /\ pc' = IF Fallback[k] = NoKey THEN "reading" ELSE "counting"
    /\ wanted' = k /\ asked' = k /\ fell' = FALSE
    /\ lacked' = (RowsOf(k) = {})
    /\ UNCHANGED <<db, cache, recordQueue, hand, rows, task, notices, history>>

\* the query ends
Done == pc' = "idle" /\ wanted' = NoKey /\ asked' = NoKey /\ fell' = FALSE /\ lacked' = FALSE

\* nothing was read: DEFAULT's turn, whose entries are not looked up in the
\* cache before, or the end
NothingRead(failed) ==
    IF Fallback[asked] = NoKey \/ fell THEN Done
    ELSE /\ pc' = "counting" /\ asked' = Fallback[wanted] /\ fell' = TRUE
         /\ lacked' = (lacked \/ failed) /\ UNCHANGED wanted

\* mutant: rows that are there are taken for missing
CountInverted ==
    /\ pc = "counting"
    /\ IF RowsOf(asked) = {} THEN pc' = "reading" /\ UNCHANGED query ELSE NothingRead(FALSE)
    /\ UNCHANGED <<db, cache, recordQueue, hand, rows, task, notices, history>>

\* isCountryBasedRecordExist
Count ==
    /\ pc = "counting"
    /\ IF RowsOf(asked) # {} THEN pc' = "reading" /\ UNCHANGED query ELSE NothingRead(FALSE)
    /\ UNCHANGED <<db, cache, recordQueue, hand, rows, task, notices, history>>

\* mutant: the worker waits for a row to queue although there is none
ReadRowsOrWait ==
    /\ pc = "reading"
    /\ rows' = RowsOf(asked)
    /\ pc' = "queueing"
    /\ UNCHANGED <<db, cache, recordQueue, hand, query, task, notices, history>>

ReadRows ==
    /\ pc = "reading"
    /\ rows' = RowsOf(asked)
    /\ IF rows' = {} THEN NothingRead(FALSE) ELSE pc' = "queueing" /\ UNCHANGED query
    /\ UNCHANGED <<db, cache, recordQueue, hand, task, notices, history>>

\* the driver fails; or, for a name, the question is not one of class IN:
\* nothing is queued
ReadNothing ==
    /\ pc \in {"counting", "reading"}
    /\ NothingRead(TRUE)
    /\ UNCHANGED <<db, cache, recordQueue, hand, rows, task, notices, history>>

\* mutant: only the first row is queued
AddQueueOnce(f) ==
    /\ pc = "queueing" /\ f \in rows
    /\ Len(recordQueue) < MaxQueue
    /\ recordQueue' = Append(recordQueue, f)
    /\ rows' = {} /\ Done
    /\ UNCHANGED <<db, cache, hand, task, notices, history>>

\* and addQueueForEntry
AddQueueForRecord(f) ==
    /\ pc = "queueing" /\ f \in rows
    /\ Len(recordQueue) < MaxQueue
    /\ recordQueue' = Append(recordQueue, f)
    /\ rows' = rows \ {f}
    /\ IF rows' = {} THEN Done ELSE UNCHANGED <<pc, query>>
    /\ UNCHANGED <<db, cache, hand, task, notices, history>>

-----------------------------------------------------------------------------
(* The operational thread *)

\* mutant: the next record is popped before the last one is appended
PopTooEarly ==
    /\ recordQueue # <<>>
    /\ hand' = Head(recordQueue)
    /\ recordQueue' = Tail(recordQueue)
    /\ UNCHANGED <<db, cache, worker, notices, history>>

PopRecord ==
    /\ hand = NoFill /\ recordQueue # <<>>
    /\ hand' = Head(recordQueue)
    /\ recordQueue' = Tail(recordQueue)
    /\ UNCHANGED <<db, cache, worker, notices, history>>

AppendFill ==
    /\ hand # NoFill
    /\ AppendRecord(hand.id, hand.value)
    /\ hand' = NoFill
    /\ dropped' = IF CanStore(hand.id) \/ IsCached(hand.id) THEN dropped
                  ELSE dropped \cup {hand.id}
    /\ UNCHANGED <<db, recordQueue, worker, notices, overtaken, seeded>>

-----------------------------------------------------------------------------
(* The worker: the Sync listener *)

Seeds(id) == IF CanStore(id) /\ Of(Owner[id]) = {} THEN {Owner[id]} ELSE {}

Emptied(id) == IF Of(Owner[id]) \subseteq Cache!WithId(id) THEN {Owner[id]} ELSE {}

Take(op, n) ==
    /\ pc = "idle" /\ notices # <<>>
    /\ n = Head(notices) /\ n.op = op
    /\ notices' = Tail(notices)

SyncAdd(n) ==
    /\ Take("add", n)
    /\ AppendRecord(n.id, n.value)
    /\ seeded' = seeded \cup Seeds(n.id)
    /\ dropped' = IF CanStore(n.id) \/ IsCached(n.id) THEN dropped
                  ELSE dropped \cup {n.id}
    /\ UNCHANGED <<db, recordQueue, hand, worker, overtaken>>

\* update_record succeeds
SyncUpdate(n) ==
    /\ Take("update", n)
    /\ Cache!Revise(n.id, n.value)
    /\ UNCHANGED <<db, recordQueue, hand, worker, history>>

\* mutant: an update of an uncached record is forgotten
SyncUpdateOnly(n) ==
    /\ Take("update", n)
    /\ ~IsCached(n.id)
    /\ UNCHANGED <<db, cache, recordQueue, hand, worker, history>>

\* update_record fails: delete_record_from_uuid, then append_record
SyncReplace(n) ==
    /\ Take("update", n)
    /\ ~IsCached(n.id)
    /\ pc' = "deleting" /\ task' = n
    /\ UNCHANGED <<db, cache, recordQueue, hand, query, rows, history>>

ReplaceDelete ==
    /\ pc = "deleting"
    /\ DeleteRecord(task.id)
    /\ pc' = "appending"
    /\ seeded' = seeded \ Emptied(task.id)
    /\ UNCHANGED <<db, recordQueue, hand, query, rows, task, notices, overtaken, dropped>>

ReplaceAppend ==
    /\ pc = "appending"
    /\ AppendRecord(task.id, task.value)
    /\ pc' = "idle" /\ task' = NoNotice
    /\ seeded' = seeded \cup Seeds(task.id)
    /\ dropped' = IF CanStore(task.id) THEN dropped ELSE dropped \cup {task.id}
    /\ overtaken' = IF ~CanStore(task.id) /\ (IsCached(task.id) \/ InFlight(task.id))
                    THEN overtaken \cup {task.id} ELSE overtaken
    /\ UNCHANGED <<db, recordQueue, hand, query, rows, notices>>

SyncDelete(n) ==
    /\ Take("delete", n)
    /\ DeleteRecord(n.id)
    /\ seeded' = seeded \ Emptied(n.id)
    /\ overtaken' = IF InFlight(n.id) THEN overtaken \cup {n.id} ELSE overtaken
    /\ UNCHANGED <<db, recordQueue, hand, worker, dropped>>

-----------------------------------------------------------------------------
(* The control plane, outside this repository: it edits a row, then posts   *)
(* the notice; notices arrive in order, and a post may fail.                *)

Edit(id, v, op) ==
    /\ Len(notices) < MaxNotices
    /\ db' = [db EXCEPT ![id] = v]
    /\ notices' = Append(notices,
           [op |-> op, id |-> id, value |-> IF v = Gone THEN db[id] ELSE v])
    /\ UNCHANGED <<cache, recordQueue, hand, pc, wanted, asked, fell, rows, task, history>>
    /\ lacked' = (lacked \/ (wanted # NoKey /\ RowsOf(wanted)' = {}))

Create(id) == db[id] = Future /\ Edit(id, 1, "add")
Change(id) == db[id] \in 1 .. MaxVersion - 1 /\ Edit(id, db[id] + 1, "update")
Remove(id) == Live(id) /\ Edit(id, Gone, "delete")

LoseNotice ==
    /\ notices # <<>>
    /\ notices' = Tail(notices)
    /\ overtaken' = overtaken \cup {Head(notices).id}
    /\ dropped' = dropped \cup {Head(notices).id}
    /\ UNCHANGED <<db, cache, recordQueue, hand, worker, seeded>>

-----------------------------------------------------------------------------

Worker ==
    \/ \E k \in Keys : Hit(k) \/ Miss(k)
    \/ Count \/ ReadRows \/ ReadNothing
    \/ \E f \in rows : AddQueueForRecord(f)
    \/ \E n \in Notice : SyncAdd(n) \/ SyncUpdate(n) \/ SyncReplace(n) \/ SyncDelete(n)
    \/ ReplaceDelete \/ ReplaceAppend

Operational == PopRecord \/ AppendFill

ControlPlane ==
    \/ \E id \in Ids : Create(id) \/ Change(id) \/ Remove(id)
    \/ LoseNotice

Next == Worker \/ Operational \/ ControlPlane

Spec == Init /\ [][Next]_vars

\* the worker goes on with the query it has begun, the operational thread
\* never leaves its loop
FairSpec ==
    /\ Spec
    /\ WF_vars(\E f \in rows : AddQueueForRecord(f))
    /\ WF_vars(Operational)
=============================================================================
