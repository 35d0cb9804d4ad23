------------------------ MODULE CacheRaceProperties ------------------------
(***************************************************************************)
(* What holds although two threads use the cache without a lock.  Calls    *)
(* race when both are between the load and the store of                    *)
(* free_list_head_idx, both write in one bucket, or both have one id       *)
(* entry; then lists do break, records get lost and slots belong to two    *)
(* lists.                                                                  *)
(***************************************************************************)
EXTENDS CacheRace

Quiet == \A t \in Threads : call[t].pc = "idle"

Chain(b) == {s \in Slots : is_used[s] /\ slot_bucket[s] = b}

(* Calls that do not race leave exact lists behind, however their loads    *)
(* and stores interleave: every slot is on the free list or on the chain   *)
(* of its bucket, and the id entry of each record leads to it.             *)
ExactUnlessRaced ==
    Quiet /\ ~raced =>
        /\ IsList(next_index, free_head, {s \in Slots : ~is_used[s]})
        /\ \A b \in Buckets :
               IF name_key[b] = NoKey THEN Chain(b) = {}
               ELSE /\ Chain(b) # {}
                    /\ IsDoubleList(next_index, prev_index, head_slot_idx[b], Chain(b))
                    /\ \A s \in Chain(b) : Owner[slot_id[s]] = name_key[b]
        /\ \A h \in IdBuckets : {s \in Slots : is_used[s] /\ IdHash[slot_id[s]] = h}
                                   = {id_slot[h]} \ {Nil}

(* A lookup during appends of the other thread returns every record that   *)
(* was chained to its bucket when it began, and none of another name or    *)
(* without contents.                                                       *)
(* The one exception is a lookup that finds a new bucket by its name       *)
(* before the head is stored (MmapRecords.cpp:191-193).                    *)
LookupExactUnlessEarly ==
    \A t \in Threads : LET c == call[t] IN
        c.pc = "answer" /\ ~raced /\ ~c.early =>
            /\ c.before \subseteq c.found
            /\ \A id \in c.found : id # NoId /\ Owner[id] = c.key

(* A lookup ends, whatever the races have made of the chain it walks: they *)
(* do close chains to cycles, which only the count of visited slots gets   *)
(* out of (MmapRecords.cpp:101, 106).                                      *)
LookupEnds == call["worker"].pc = "walk" ~> call["worker"].pc = "answer"
=============================================================================
