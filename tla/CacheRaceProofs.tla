-------------------------- MODULE CacheRaceProofs --------------------------
(***************************************************************************)
(* Theorems about two threads in Records::Mmap, for every table size,      *)
(* every probe order and every id hash.                                    *)
(*                                                                         *)
(* As long as no two calls have met where they must not, each place has    *)
(* one writer: the free list, a bucket with its chain, an id entry, and    *)
(* the slot a call has in its hands.  Calm says what such a writer has     *)
(* left half done at each of its steps, and that all else is exact.        *)
(***************************************************************************)
EXTENDS CacheRaceProperties, LinkedListProofs

AppendPcs == {"test_id", "load_free", "load_next", "store_free", "take", "reset", "store_id",
              "fill", "test_name", "name", "qtype", "first_head", "ends", "link", "new_head"}
DeletePcs == {"unlink", "back_link", "empty", "free", "push", "clear_id"}
ReadPcs == {"head", "walk", "answer"}

\* where a slot is taken and not yet chained, or unchained and not yet pushed
HoldsPcs == {"take", "reset", "store_id", "fill", "test_name", "name", "qtype", "first_head",
             "link", "new_head", "back_link", "empty", "free", "push"}

\* where the bucket is half written
UnsettledPcs == {"qtype", "first_head", "new_head", "back_link", "empty"}

InHand(s) == \E t \in Threads : call[t].pc \in HoldsPcs /\ call[t].slot = s

Unused == {s \in Slots : ~is_used[s] /\ ~InHand(s)}
Members(b) == {s \in Slots : is_used[s] /\ ~InHand(s) /\ slot_bucket[s] = b}
Recs(h) == {s \in Slots : slot_id[s] \in Ids /\ IdHash[slot_id[s]] = h}

Calls == [pc : AppendPcs \cup DeletePcs \cup ReadPcs \cup {"idle"}, key : Keys \cup {NoKey},
          id : Ids \cup {NoId}, bucket : Buckets \cup {NoBucket}, slot : SlotOrNil,
          next : SlotOrNil, prev : SlotOrNil, left : 0 .. MaxRecords,
          found : SUBSET (Ids \cup {NoId}), before : SUBSET (Ids \cup {NoId}), early : BOOLEAN]

Types ==
    /\ name_key \in [Buckets -> Keys \cup {NoKey, HashOnly}]
    /\ head_slot_idx \in [Buckets -> SlotOrNil]
    /\ id_slot \in [IdBuckets -> SlotOrNil]
    /\ is_used \in [Slots -> BOOLEAN]
    /\ next_index \in [Slots -> SlotOrNil]
    /\ prev_index \in [Slots -> SlotOrNil]
    /\ slot_id \in [Slots -> Ids \cup {NoId}]
    /\ slot_bucket \in [Slots -> Buckets \cup {NoBucket}]
    /\ free_head \in SlotOrNil
    /\ call \in [Threads -> Calls]
    /\ call["operational"].pc \in AppendPcs \cup {"idle"}

\* no place has two writers
Apart == ~Meet(call["worker"], call["operational"])

Distinct ==
    \A t, u \in Threads : t # u /\ call[t].pc \in HoldsPcs /\ call[u].pc \in HoldsPcs
        => call[t].slot # call[u].slot

FreeInv == IsList(next_index, free_head, Unused)

SlotsInv ==
    \A s \in Slots :
        /\ is_used[s] /\ ~InHand(s) => slot_bucket[s] \in Buckets /\ slot_id[s] \in Ids
        /\ ~is_used[s] => slot_id[s] = NoId

\* the chain of b is as a call that is done leaves it
Settled(b) ==
    IF name_key[b] = NoKey THEN Members(b) = {}
    ELSE Members(b) # {} /\ IsDoubleList(next_index, prev_index, head_slot_idx[b], Members(b))

Unsettling(b) == \E t \in Threads : call[t].pc \in UnsettledPcs /\ call[t].bucket = b

BucketsInv ==
    \A b \in Buckets :
        /\ \A s \in Members(b) : Owner[slot_id[s]] = name_key[b]
        /\ Settled(b) \/ Unsettling(b)

\* between the store of the id entry and that of the id
Filling(h) == \E t \in Threads : call[t].pc = "fill" /\ IdHash[call[t].id] = h

IdsInv == \A h \in IdBuckets : Recs(h) = {id_slot[h]} \ {Nil} \/ Filling(h)

\* the slot a call works on
SlotInv(c) ==
    /\ c.pc \in {"load_next", "store_free"} => c.slot = free_head /\ c.slot \in Slots
    /\ c.pc = "store_free" => c.next = next_index[c.slot]
    /\ c.pc \in HoldsPcs => c.slot \in Slots
    /\ c.pc \in {"take", "push"} => ~is_used[c.slot]
    /\ c.pc \in HoldsPcs \ {"take", "push"} => is_used[c.slot]
    /\ c.pc \in {"reset", "store_id", "fill"} => slot_id[c.slot] = NoId
    /\ c.pc \in {"store_id", "fill", "test_name", "name", "qtype", "first_head", "link", "ends"}
           => next_index[c.slot] = Nil /\ prev_index[c.slot] = Nil
    /\ c.pc \in {"test_name", "name", "qtype", "first_head", "ends", "link", "new_head",
                 "unlink", "back_link", "empty", "free"}
           => slot_id[c.slot] = c.id /\ slot_bucket[c.slot] = c.bucket
    /\ c.pc = "push" => next_index[c.slot] = free_head

\* prev_index as it is once n leads back to p
Behind(n, p) == [s \in Slots |-> IF s = n THEN p ELSE prev_index[s]]

\* the bucket b a call writes in
Half(c, b) ==
    /\ c.pc \in AppendPcs \ {"qtype"} => name_key[b] \in {NoKey, c.key}
    /\ c.pc = "name" => name_key[b] = NoKey
    /\ c.pc = "qtype" => name_key[b] = HashOnly
    /\ c.pc \in {"first_head", "ends", "link", "new_head"} => name_key[b] = c.key
    /\ c.pc \in {"qtype", "first_head"} => Members(b) = {}
    /\ c.pc \in {"unlink", "ends"} => c.slot \in Members(b)
    /\ c.pc = "link" => c.next = head_slot_idx[b]
    /\ c.pc = "new_head" =>
           /\ Members(b) # {}
           /\ next_index[c.slot] = head_slot_idx[b] /\ prev_index[c.slot] = Nil
           /\ prev_index[head_slot_idx[b]] = c.slot
           /\ IsDoubleList(next_index, Behind(head_slot_idx[b], Nil), head_slot_idx[b], Members(b))
    /\ c.pc = "unlink" => c.next = next_index[c.slot] /\ c.prev = prev_index[c.slot]
    /\ c.pc = "back_link" =>
           /\ c.next \in Members(b) \cup {Nil}
           /\ IsDoubleList(next_index, Behind(c.next, c.prev), head_slot_idx[b], Members(b))
    /\ c.pc = "empty" => IsDoubleList(next_index, prev_index, head_slot_idx[b], Members(b))
    /\ c.pc \in {"back_link", "empty"} => name_key[b] # NoKey

BucketInv(c) ==
    /\ Writing(c) => c.bucket \in Buckets
    /\ c.pc \in AppendPcs => c.key \in Keys /\ Owner[c.id] = c.key
    /\ \A b \in Buckets : Writing(c) /\ c.bucket = b => Half(c, b)

\* the id entry h a call has tested
Tested(c, h) ==
    /\ c.pc \in {"load_free", "load_next", "store_free", "take", "reset", "store_id", "push",
                 "clear_id"} => id_slot[h] = Nil
    /\ c.pc \in {"fill", "unlink", "back_link", "empty", "free"} => id_slot[h] = c.slot
    /\ c.pc = "fill" => Recs(h) = {}

EntryInv(c) ==
    /\ c.pc \in AppendPcs \cup DeletePcs => c.id \in Ids
    /\ \A h \in IdBuckets : c.id \in Ids /\ IdHash[c.id] = h => Tested(c, h)

\* what a lookup in b, next to the call d, has found and has still to visit
Visits(c, b, d) ==
    /\ c.key \in Keys /\ name_key[b] = c.key
    /\ ~HalfNamed(d, b)
    /\ \A id \in c.found : id \in Ids /\ Owner[id] = c.key
    /\ c.pc = "head" => c.before \subseteq {slot_id[s] : s \in Members(b)}
    /\ c.pc = "walk" =>
           \E R \in SUBSET Members(b) :
              /\ IsList(next_index, c.slot, R)
              /\ Cardinality(R) <= c.left
              /\ c.before \subseteq c.found \cup {slot_id[s] : s \in R}
    /\ c.pc = "answer" => c.before \subseteq c.found

ReadInv(c, d) ==
    c.pc \in ReadPcs =>
        /\ c.bucket \in Buckets
        /\ \A b \in Buckets : c.bucket = b /\ ~c.early => Visits(c, b, d)

CallsInv == \A t \in Threads : SlotInv(call[t]) /\ BucketInv(call[t]) /\ EntryInv(call[t])

ReadsInv == \A t \in Threads : ReadInv(call[t], call[Other(t)])

Calm ==
    /\ Types /\ Apart /\ Distinct /\ FreeInv /\ SlotsInv /\ BucketsInv /\ IdsInv
    /\ CallsInv /\ ReadsInv

IInv == raced \in BOOLEAN /\ (~raced => Calm)

-----------------------------------------------------------------------------
(* Slots, threads, buckets *)

LEMMA SlotsFacts ==
    /\ Slots \subseteq Int /\ Nil \notin Slots /\ 0 \in Slots
    /\ IsFiniteSet(Slots) /\ Cardinality(Slots) = MaxRecords
    /\ \A S \in SUBSET Slots :
          IsFiniteSet(S) /\ Cardinality(S) \in Nat /\ Cardinality(S) <= MaxRecords
<1>1. IsFiniteSet(Slots) /\ Cardinality(Slots) = MaxRecords
  BY RaceAssumption, FS_Interval DEF Slots
<1>2. \A S \in SUBSET Slots :
          IsFiniteSet(S) /\ Cardinality(S) \in Nat /\ Cardinality(S) <= MaxRecords
  BY <1>1, FS_Subset, FS_CardinalityType
<1> QED
  BY <1>1, <1>2, RaceAssumption DEF Slots, Nil

LEMMA ThreadsFacts ==
    ASSUME NEW t \in Threads
    PROVE  /\ Other(t) \in Threads /\ Other(t) # t /\ Other(Other(t)) = t
           /\ \A u \in Threads : u = t \/ u = Other(t)
  BY DEF Threads, Other

LEMMA ApartFacts ==
    ASSUME Apart, NEW t \in Threads
    PROVE  ~Meet(call[t], call[Other(t)])
  BY DEF Apart, Meet, Threads, Other

LEMMA FindBucketFacts ==
    ASSUME NEW k \in Keys, FindBucket(k) # NoBucket
    PROVE  FindBucket(k) \in Buckets /\ name_key[FindBucket(k)] \in {NoKey, k}
<1> DEFINE n == CHOOSE n \in 1 .. Len(Probe[k]) : FirstStop(k, n)
<1>1. \E m \in 1 .. Len(Probe[k]) : FirstStop(k, m)
  BY DEF FindBucket
<1>2. n \in 1 .. Len(Probe[k]) /\ FirstStop(k, n)
  BY <1>1
<1>3. FindBucket(k) = Probe[k][n]
  BY <1>1 DEF FindBucket
<1> HIDE DEF n
<1>4. Probe[k] \in Seq(Buckets)
  BY RaceAssumption
<1>5. Probe[k][n] \in Buckets
  BY <1>2, <1>4
<1> QED
  BY <1>2, <1>3, <1>5 DEF FirstStop

\* a step of t: where it may write so that the other's places stay as they are
Mine(t) ==
    {s \in Slots : \/ call[t].pc \in HoldsPcs \cup {"store_free"} /\ s = call[t].slot
                   \/ Writing(call[t]) /\ s \in Members(call[t].bucket)}

Acts(t) ==
    /\ ~raced /\ ~raced'
    /\ call' \in [Threads -> Calls]
    /\ call'[Other(t)] = call[Other(t)]
    /\ ~Meet(call'[t], call[Other(t)])

(* A step that leaves no race behind is apart from the other call, before  *)
(* and after.                                                              *)
LEMMA StepActs ==
    ASSUME IInv, ~raced', NEW t \in Threads, NEW from, NEW c \in Calls, Step(t, from, c)
    PROVE  Acts(t) /\ Calm /\ call'[t] = c /\ call[t].pc = from /\ raced' \in BOOLEAN
<1>1. ~raced /\ Calm /\ ~Meet(c, call[Other(t)])
  BY DEF IInv, Step
<1>2. call \in [Threads -> Calls]
  BY <1>1 DEF Calm, Types
<1>3. call'[t] = c /\ call'[Other(t)] = call[Other(t)] /\ call' \in [Threads -> Calls]
  BY <1>2, ThreadsFacts DEF Step
<1> QED
  BY <1>1, <1>3 DEF Acts, Step, IInv

LEMMA BeginActs ==
    ASSUME IInv, ~raced', NEW t \in Threads, NEW c \in Calls, Begin(t, c)
    PROVE  Acts(t) /\ Calm /\ call'[t] = c /\ call[t].pc = "idle" /\ raced' \in BOOLEAN
<1>1. ~raced /\ Calm /\ ~Meet(c, call[Other(t)])
  BY DEF IInv, Begin
<1>2. call \in [Threads -> Calls]
  BY <1>1 DEF Calm, Types
<1>3. call'[t] = c /\ call'[Other(t)] = call[Other(t)] /\ call' \in [Threads -> Calls]
  BY <1>2, ThreadsFacts DEF Begin
<1> QED
  BY <1>1, <1>3 DEF Acts, Begin, IInv

-----------------------------------------------------------------------------
(* What a step leaves alone *)

SameSlot(s) ==
    /\ next_index'[s] = next_index[s] /\ prev_index'[s] = prev_index[s]
    /\ is_used'[s] = is_used[s]
    /\ slot_id'[s] = slot_id[s] /\ slot_bucket'[s] = slot_bucket[s]

\* t writes in the bucket b
Writes(t, b) == Writing(call[t]) /\ call[t].bucket = b

\* t writes in the id entry h
Enters(t, h) == call[t].pc # "idle" /\ call[t].id \in Ids /\ h = IdHash[call[t].id]

Keeps(t) ==
    /\ \A s \in Slots \ Mine(t) : SameSlot(s)
    /\ \A s \in Mine(t) : \/ InHand(s)' \/ ~is_used'[s]
                          \/ slot_bucket'[s] = call[t].bucket /\ Writing(call[t])
    /\ \A s \in Slots : \/ slot_id'[s] = slot_id[s]
                        \/ /\ call[t].pc # "idle"
                           /\ slot_id[s] \in {NoId, call[t].id}
                           /\ slot_id'[s] \in {NoId, call[t].id}
    /\ call'[t].pc \in HoldsPcs =>
           call'[t].slot = call[t].slot /\ call[t].pc \in HoldsPcs \cup {"store_free", "unlink"}
    /\ call'[t].pc \in UnsettledPcs => Writes(t, call'[t].bucket)
    /\ \A b \in Buckets :
           Writes(t, b) \/ (name_key'[b] = name_key[b] /\ head_slot_idx'[b] = head_slot_idx[b])
    /\ \A h \in IdBuckets : id_slot'[h] = id_slot[h] \/ Enters(t, h)
    /\ OnFreeList(call[t]) \/ free_head' = free_head

LEMMA FreeHeadUnused ==
    ASSUME Calm, free_head # Nil
    PROVE  free_head \in Unused
<1>1. Unused \in SUBSET Slots
  BY DEF Unused
<1> QED
  BY <1>1, SlotsFacts, HeadOfList DEF Calm, FreeInv

\* the places of the two threads are apart
LEMMA MineApart ==
    ASSUME Calm, NEW t \in Threads
    PROVE  /\ Mine(t) \cap Mine(Other(t)) = {}
           /\ \A b \in Buckets : ~Writes(t, b) => Mine(t) \cap Members(b) = {}
           /\ ~OnFreeList(call[t]) => Mine(t) \cap Unused = {}
<1> DEFINE u == Other(t)
<1>1. u \in Threads /\ u # t /\ ~Meet(call[t], call[u])
  BY ThreadsFacts, ApartFacts DEF Calm
<1>2. ASSUME NEW v \in Threads, call[v].pc = "store_free" PROVE call[v].slot \in Unused
  <2>1. call[v].slot = free_head /\ free_head \in Slots
    BY <1>2 DEF Calm, CallsInv, SlotInv
  <2> QED BY <2>1, FreeHeadUnused, SlotsFacts
<1>3. ASSUME NEW s \in Mine(t), NEW b \in Buckets, ~Writes(t, b), s \in Members(b)
      PROVE  FALSE
  <2>1. ~InHand(s) /\ s \notin Unused /\ slot_bucket[s] = b
    BY <1>3 DEF Members, Unused
  <2> QED BY <1>2, <1>3, <2>1 DEF Mine, InHand, Writes, Members
<1>4. ASSUME ~OnFreeList(call[t]), NEW s \in Mine(t), s \in Unused
      PROVE  FALSE
  BY <1>4 DEF Mine, Unused, InHand, Members, OnFreeList
<1>5. ASSUME NEW s \in Mine(t), s \in Mine(u)
      PROVE  FALSE
  <2>1. CASE Writing(call[u]) /\ s \in Members(call[u].bucket)
    <3>1. ~Writes(t, call[u].bucket)
      BY <1>1, <2>1 DEF Writes, Meet
    <3>2. call[u].bucket \in Buckets
      BY <1>1, <2>1 DEF Calm, CallsInv, BucketInv
    <3> QED BY <1>3, <2>1, <3>1, <3>2
  <2>2. CASE /\ call[u].pc \in HoldsPcs \cup {"store_free"} /\ s = call[u].slot
             /\ Writing(call[t]) /\ s \in Members(call[t].bucket)
    BY <1>1, <1>2, <2>2 DEF Members, InHand, Unused
  <2>3. CASE /\ call[u].pc \in HoldsPcs \cup {"store_free"} /\ s = call[u].slot
             /\ call[t].pc \in HoldsPcs \cup {"store_free"} /\ s = call[t].slot
    BY <1>1, <1>2, <2>3 DEF Unused, InHand, Calm, Distinct, Meet, OnFreeList
  <2> QED BY <1>5, <2>1, <2>2, <2>3 DEF Mine
<1> QED BY <1>3, <1>4, <1>5

LEMMA ChainedMine ==
    ASSUME Calm, NEW t \in Threads, call[t].pc \in {"unlink", "ends"}
    PROVE  /\ call[t].bucket \in Buckets /\ call[t].slot \in Members(call[t].bucket)
           /\ call[t].slot \in Mine(t)
<1>1. PICK b \in Buckets : call[t].bucket = b /\ Half(call[t], b)
  BY DEF Calm, CallsInv, BucketInv, Writing
<1>2. call[t].slot \in Members(b)
  BY <1>1 DEF Half
<1> QED BY <1>1, <1>2 DEF Mine, Members, Writing

LEMMA KeptInHand ==
    ASSUME Calm, NEW t \in Threads, Acts(t), Keeps(t), NEW s \in Slots \ Mine(t)
    PROVE  InHand(s)' <=> InHand(s)
<1>1. call[t].pc = "unlink" => call[t].slot \in Mine(t)
  BY ChainedMine
<1>2. ASSUME call'[t].pc \in HoldsPcs, call'[t].slot = s PROVE FALSE
  BY <1>1, <1>2 DEF Keeps, Mine
<1>3. ASSUME call[t].pc \in HoldsPcs, call[t].slot = s PROVE FALSE
  BY <1>3 DEF Mine
<1> QED
  BY <1>2, <1>3, ThreadsFacts DEF InHand, Acts

LEMMA KeptMembers ==
    ASSUME Calm, NEW t \in Threads, Acts(t), Keeps(t), NEW b \in Buckets, ~Writes(t, b)
    PROVE  Members(b)' = Members(b)
<1>1. ASSUME NEW s \in Slots \ Mine(t) PROVE s \in Members(b)' <=> s \in Members(b)
  BY KeptInHand DEF Members, Keeps, SameSlot
<1>2. ASSUME NEW s \in Mine(t) PROVE s \notin Members(b) /\ s \notin Members(b)'
  BY <1>2, MineApart DEF Members, Keeps, Writes
<1> QED
  BY <1>1, <1>2 DEF Members

\* between calls and at local steps the free slots are the same
LEMMA KeptFree ==
    ASSUME Calm, NEW t \in Threads, Acts(t), Keeps(t),
           ~OnFreeList(call[t]) \/ call[t].pc = "load_next", free_head' = free_head,
           \A s \in Mine(t) : InHand(s)' \/ is_used'[s]
    PROVE  FreeInv'
<1>1. Mine(t) \cap Unused = {}
  BY MineApart DEF Mine, Writing, HoldsPcs, Unused, Members
<1>2. Unused' = Unused
  BY <1>1, KeptInHand DEF Unused, Keeps, SameSlot
<1>3. \A s \in Unused : next_index'[s] = next_index[s]
  BY <1>1 DEF Unused, Keeps, SameSlot
<1>4. IsList(next_index', free_head, Unused)
  BY <1>3, FreeFrame DEF Calm, FreeInv
<1> QED BY <1>2, <1>4 DEF FreeInv

LEMMA KeptSettled ==
    ASSUME Calm, NEW t \in Threads, Acts(t), Keeps(t), NEW b \in Buckets, ~Writes(t, b)
    PROVE  Settled(b)' <=> Settled(b)
<1>1. Members(b)' = Members(b)
  BY KeptMembers
<1>2. name_key'[b] = name_key[b] /\ head_slot_idx'[b] = head_slot_idx[b]
  BY DEF Keeps
<1>3. \A s \in Members(b) :
          next_index'[s] = next_index[s] /\ prev_index'[s] = prev_index[s]
  BY MineApart DEF Keeps, SameSlot, Members
<1>4. IsDoubleList(next_index, prev_index, head_slot_idx[b], Members(b))
        => IsDoubleList(next_index', prev_index', head_slot_idx[b], Members(b))
  BY <1>3, DoubleFrame
<1>5. IsDoubleList(next_index', prev_index', head_slot_idx[b], Members(b))
        => IsDoubleList(next_index, prev_index, head_slot_idx[b], Members(b))
  BY <1>3, DoubleFrame
<1> QED BY <1>1, <1>2, <1>4, <1>5 DEF Settled

\* what a step must show of its own bucket to keep all
LEMMA KeptBuckets ==
    ASSUME Calm, NEW t \in Threads, Acts(t), Keeps(t),
           \A b \in Buckets : Writes(t, b) =>
               /\ \A s \in Members(b)' : Owner[slot_id'[s]] = name_key'[b]
               /\ Settled(b)' \/ (call'[t].pc \in UnsettledPcs /\ call'[t].bucket = b)
    PROVE  BucketsInv'
<1> SUFFICES ASSUME NEW b \in Buckets
             PROVE  /\ \A s \in Members(b)' : Owner[slot_id'[s]] = name_key'[b]
                    /\ Settled(b)' \/ Unsettling(b)'
  BY DEF BucketsInv
<1>1. CASE Writes(t, b)
  BY <1>1 DEF Unsettling
<1>2. CASE ~Writes(t, b)
  <2>1. Members(b)' = Members(b) /\ name_key'[b] = name_key[b]
    BY <1>2, KeptMembers DEF Keeps
  <2>2. \A s \in Members(b) : slot_id'[s] = slot_id[s]
    BY <1>2, MineApart DEF Keeps, SameSlot, Members
  <2>3. Settled(b)' \/ Unsettling(b)
    BY <1>2, KeptSettled DEF Calm, BucketsInv
  <2>4. Unsettling(b) => Unsettling(b)'
    BY <1>2, ThreadsFacts DEF Unsettling, Acts, Writes, Writing, UnsettledPcs
  <2> QED BY <2>1, <2>2, <2>3, <2>4 DEF Calm, BucketsInv
<1> QED BY <1>1, <1>2

LEMMA KeptRecs ==
    ASSUME Calm, NEW t \in Threads, Acts(t), Keeps(t),
           NEW h \in IdBuckets, ~Enters(t, h)
    PROVE  Recs(h)' = Recs(h) /\ id_slot'[h] = id_slot[h]
<1>1. id_slot'[h] = id_slot[h]
  BY DEF Keeps
<1>2. ASSUME NEW s \in Slots
      PROVE  slot_id'[s] \in Ids /\ IdHash[slot_id'[s]] = h
                <=> slot_id[s] \in Ids /\ IdHash[slot_id[s]] = h
  BY RaceAssumption DEF Keeps, Enters
<1> QED BY <1>1, <1>2 DEF Recs

LEMMA KeptIds ==
    ASSUME Calm, NEW t \in Threads, Acts(t), Keeps(t),
           \A h \in IdBuckets : Enters(t, h) =>
               \/ Recs(h)' = {id_slot'[h]} \ {Nil}
               \/ call'[t].pc = "fill" /\ call'[t].id = call[t].id
    PROVE  IdsInv'
<1> SUFFICES ASSUME NEW h \in IdBuckets
             PROVE  Recs(h)' = {id_slot'[h]} \ {Nil} \/ Filling(h)'
  BY DEF IdsInv
<1>1. CASE Enters(t, h)
  <2>1. \/ Recs(h)' = {id_slot'[h]} \ {Nil}
        \/ call'[t].pc = "fill" /\ IdHash[call'[t].id] = h
    BY <1>1 DEF Enters
  <2> QED BY <2>1 DEF Filling
<1>2. CASE ~Enters(t, h)
  <2>1. Recs(h)' = Recs(h) /\ id_slot'[h] = id_slot[h]
    BY <1>2, KeptRecs
  <2>2. Filling(h) => Filling(h)'
    <3>1. call[t].pc = "fill" => call[t].id \in Ids
      BY DEF Calm, CallsInv, EntryInv, AppendPcs
    <3> QED BY <1>2, <3>1, ThreadsFacts DEF Filling, Acts, Enters
  <2> QED BY <2>1, <2>2 DEF Calm, IdsInv
<1> QED BY <1>1, <1>2

LEMMA KeptSlots ==
    ASSUME Calm, NEW t \in Threads, Acts(t), Keeps(t),
           \A s \in Mine(t) :
               /\ is_used'[s] /\ ~InHand(s)' => slot_bucket'[s] \in Buckets /\ slot_id'[s] \in Ids
               /\ ~is_used'[s] => slot_id'[s] = NoId
    PROVE  SlotsInv'
<1>1. ASSUME NEW s \in Slots \ Mine(t)
      PROVE  /\ is_used'[s] /\ ~InHand(s)' => slot_bucket'[s] \in Buckets /\ slot_id'[s] \in Ids
             /\ ~is_used'[s] => slot_id'[s] = NoId
  BY KeptInHand DEF Calm, SlotsInv, Keeps, SameSlot
<1> QED BY <1>1 DEF SlotsInv

LEMMA KeptApart ==
    ASSUME Calm, NEW t \in Threads, Acts(t), Keeps(t)
    PROVE  Apart' /\ Distinct'
<1>1. Apart'
  BY DEF Acts, Apart, Meet, Threads, Other
<1>2. ASSUME call'[t].pc \in HoldsPcs, call[Other(t)].pc \in HoldsPcs
      PROVE  call'[t].slot # call[Other(t)].slot
  <2>1. call'[t].slot = call[t].slot /\ call[t].pc \in HoldsPcs \cup {"store_free", "unlink"}
    BY <1>2 DEF Keeps
  <2>2. call[Other(t)].slot \in Mine(Other(t))
    BY <1>2, ThreadsFacts DEF Mine, Calm, CallsInv, SlotInv
  <2>3. call[t].slot \in Mine(t)
    BY <2>1, ChainedMine DEF Mine, Calm, CallsInv, SlotInv
  <2> QED BY <2>1, <2>2, <2>3, MineApart
<1>3. Distinct'
  BY <1>2, ThreadsFacts DEF Distinct, Acts
<1> QED BY <1>1, <1>3

\* nor does a step of t disturb the call of the other thread
LEMMA KeptSlotInv ==
    ASSUME Calm, NEW t \in Threads, Acts(t), Keeps(t)
    PROVE  SlotInv(call[Other(t)])'
<1>1. PICK d \in Calls : d = call[Other(t)]
  BY ThreadsFacts DEF Calm, Types
<1>2. ~Meet(call[t], d) /\ call'[Other(t)] = d /\ SlotInv(d) /\ Other(t) \in Threads
  BY <1>1, ThreadsFacts, ApartFacts DEF Calm, Acts, CallsInv
<1>3. OnFreeList(d) => free_head' = free_head
  BY <1>2 DEF Keeps, Meet
<1>4. CASE d.pc \in HoldsPcs \cup {"store_free", "unlink", "ends"}
  <2>1. d.slot \in Mine(Other(t))
    BY <1>1, <1>2, <1>4, ChainedMine DEF Mine, SlotInv
  <2>2. SameSlot(d.slot)
    BY <2>1, MineApart DEF Keeps, Mine
  <2>3. SlotInv(d)'
    BY <1>2, <1>3, <1>4, <2>2 DEF SlotInv, SameSlot, HoldsPcs, OnFreeList
  <2> QED BY <1>2, <2>3 DEF SlotInv
<1>5. CASE d.pc \notin HoldsPcs \cup {"store_free", "unlink", "ends"}
  <2>1. SlotInv(d)'
    BY <1>2, <1>3, <1>5 DEF SlotInv, HoldsPcs, OnFreeList
  <2> QED BY <1>2, <2>1 DEF SlotInv
<1> QED BY <1>4, <1>5

LEMMA KeptEntryInv ==
    ASSUME Calm, NEW t \in Threads, Acts(t), Keeps(t)
    PROVE  EntryInv(call[Other(t)])'
<1>1. PICK d \in Calls : d = call[Other(t)]
  BY ThreadsFacts DEF Calm, Types
<1>2. ~Meet(call[t], d) /\ call'[Other(t)] = d /\ EntryInv(d) /\ Other(t) \in Threads
  BY <1>1, ThreadsFacts, ApartFacts DEF Calm, Acts, CallsInv
<1>3. ASSUME NEW h \in IdBuckets, d.id \in Ids, IdHash[d.id] = h PROVE Tested(d, h)'
  <2>1. Tested(d, h)
    BY <1>2, <1>3 DEF EntryInv
  <2>2. CASE d.pc = "idle"
    BY <2>2 DEF Tested
  <2>3. CASE d.pc # "idle"
    <3>1. ~Enters(t, h)
      BY <1>2, <1>3, <2>3, RaceAssumption DEF Meet, OnIdEntry, Enters
    <3>2. Recs(h)' = Recs(h) /\ id_slot'[h] = id_slot[h]
      BY <3>1, KeptRecs
    <3> QED BY <2>1, <3>2 DEF Tested
  <2> QED BY <2>2, <2>3
<1> QED BY <1>2, <1>3 DEF EntryInv

LEMMA KeptBucketInv ==
    ASSUME Calm, NEW t \in Threads, Acts(t), Keeps(t)
    PROVE  BucketInv(call[Other(t)])'
<1>1. PICK d \in Calls : d = call[Other(t)]
  BY ThreadsFacts DEF Calm, Types
<1>2. ~Meet(call[t], d) /\ call'[Other(t)] = d /\ BucketInv(d) /\ Other(t) \in Threads
  BY <1>1, ThreadsFacts, ApartFacts DEF Calm, Acts, CallsInv
<1>3. ASSUME NEW b \in Buckets, Writing(d), d.bucket = b PROVE Half(d, b)'
  <2>1. Half(d, b) /\ ~Writes(t, b)
    BY <1>2, <1>3 DEF BucketInv, Meet, Writes
  <2>2. PICK M \in SUBSET Slots : M = Members(b)
    BY DEF Members
  <2>3. PICK head : head = head_slot_idx[b]
    OBVIOUS
  <2>4. Members(b)' = M /\ name_key'[b] = name_key[b] /\ head_slot_idx'[b] = head
    BY <2>1, <2>2, <2>3, KeptMembers DEF Keeps
  <2>5. \A s \in M : SameSlot(s)
    BY <2>1, <2>2, MineApart DEF Keeps
  <2>6. d.pc \in HoldsPcs \cup {"unlink"} => SameSlot(d.slot)
    <3>1. d.pc \in HoldsPcs \cup {"unlink"} => d.slot \in Mine(Other(t))
      BY <1>1, <1>2, ChainedMine DEF Mine, Calm, CallsInv, SlotInv
    <3> QED BY <3>1, MineApart DEF Keeps, Mine
  <2>7. ASSUME NEW n, NEW p, IsDoubleList(next_index, Behind(n, p), head, M)
        PROVE  IsDoubleList(next_index', Behind(n, p)', head, M)
    <3>1. \A s \in M : next_index'[s] = next_index[s] /\ Behind(n, p)'[s] = Behind(n, p)[s]
      BY <2>5 DEF SameSlot, Behind
    <3> QED BY <2>7, <3>1, DoubleFrame
  <2>8. IsDoubleList(next_index, prev_index, head, M)
            => IsDoubleList(next_index', prev_index', head, M)
    BY <2>5, DoubleFrame DEF SameSlot
  <2>9. CASE d.pc = "new_head"
    <3>1. /\ M # {} /\ next_index[d.slot] = head /\ prev_index[d.slot] = Nil
          /\ prev_index[head] = d.slot /\ IsDoubleList(next_index, Behind(head, Nil), head, M)
          /\ name_key[b] = d.key
      BY <2>1, <2>2, <2>3, <2>9 DEF Half
    <3>2. head \in M
      BY <3>1, DoubleIsList, HeadOfList, SlotsFacts
    <3>3. IsDoubleList(next_index', Behind(head, Nil)', head, M)
      BY <2>7, <3>1
    <3>4. /\ next_index'[d.slot] = head /\ prev_index'[d.slot] = Nil
          /\ prev_index'[head] = d.slot
      BY <2>5, <2>6, <2>9, <3>1, <3>2 DEF SameSlot, HoldsPcs
    <3>5. Behind(head_slot_idx[b], Nil)' = Behind(head, Nil)'
      BY <2>4 DEF Behind
    <3> QED BY <2>4, <2>9, <3>1, <3>3, <3>4, <3>5 DEF Half
  <2>10. CASE d.pc = "back_link"
    <3>1. /\ name_key[b] # NoKey /\ d.next \in M \cup {Nil}
          /\ IsDoubleList(next_index, Behind(d.next, d.prev), head, M)
      BY <2>1, <2>2, <2>3, <2>10 DEF Half
    <3>2. IsDoubleList(next_index', Behind(d.next, d.prev)', head, M)
      BY <2>7, <3>1
    <3> QED BY <2>4, <2>10, <3>1, <3>2 DEF Half, AppendPcs
  <2>11. CASE d.pc \notin {"new_head", "back_link"}
    <3>1. d.pc = "unlink" => d.next = next_index'[d.slot] /\ d.prev = prev_index'[d.slot]
      BY <2>1, <2>6 DEF Half, SameSlot
    <3> QED BY <2>1, <2>2, <2>3, <2>4, <2>8, <2>11, <3>1 DEF Half
  <2> QED BY <2>9, <2>10, <2>11
<1>4. \A b \in Buckets : Writing(d) /\ d.bucket = b => Half(d, b)'
  BY <1>3
<1> QED BY <1>2, <1>4 DEF BucketInv

\* what a writer may do to the bucket b under a lookup that found its name
Grows(t, b) ==
    /\ Members(b) \subseteq Members(b)'
    /\ \A s \in Members(b) : next_index'[s] = next_index[s] /\ slot_id'[s] = slot_id[s]
    /\ name_key[b] \in Keys => name_key'[b] = name_key[b] /\ ~HalfNamed(call'[t], b)

LEMMA KeptReads ==
    ASSUME Calm, NEW t \in Threads, Acts(t), Keeps(t), call'[t].pc \notin ReadPcs,
           call[Other(t)].pc \in ReadPcs => \A b \in Buckets : Writes(t, b) => Grows(t, b)
    PROVE  ReadsInv'
<1>1. PICK c \in Calls : c = call[Other(t)]
  BY ThreadsFacts DEF Calm, Types
<1>2. PICK d \in Calls : d = call[t]
  BY DEF Calm, Types
<1>3. PICK e \in Calls : e = call'[t]
  BY DEF Acts
<1>4. call'[Other(t)] = c /\ ReadInv(c, d) /\ Other(t) \in Threads /\ Other(Other(t)) = t
  BY <1>1, <1>2, ThreadsFacts DEF Calm, Acts, ReadsInv
<1>5. ASSUME c.pc \in ReadPcs, NEW b \in Buckets, c.bucket = b, ~c.early
      PROVE  Visits(c, b, e)'
  <2>1. Visits(c, b, d)
    BY <1>4, <1>5 DEF ReadInv
  <2>2. PICK M \in SUBSET Slots : M = Members(b)
    BY DEF Members
  <2>3. PICK N \in SUBSET Slots : N = Members(b)'
    BY DEF Members
  <2>4. /\ M \subseteq N
        /\ \A s \in M : next_index'[s] = next_index[s] /\ slot_id'[s] = slot_id[s]
        /\ name_key'[b] = name_key[b] /\ ~HalfNamed(e, b)
    <3>1. CASE Writes(t, b)
      <4>1. Grows(t, b)
        BY <1>1, <1>5, <3>1
      <4>2. name_key[b] \in Keys
        BY <2>1 DEF Visits
      <4> QED BY <1>3, <2>2, <2>3, <4>1, <4>2 DEF Grows
    <3>2. CASE ~Writes(t, b)
      <4>1. N = M
        BY <2>2, <2>3, <3>2, KeptMembers
      <4>2. \A s \in M : SameSlot(s)
        BY <2>2, <3>2, MineApart DEF Keeps
      <4>3. ~HalfNamed(e, b)
        BY <1>3, <3>2 DEF Keeps, HalfNamed, UnsettledPcs
      <4> QED BY <3>2, <4>1, <4>2, <4>3 DEF Keeps, SameSlot
    <3> QED BY <3>1, <3>2
  <2>5. ASSUME c.pc = "head" PROVE c.before \subseteq {slot_id'[s] : s \in N}
    <3>1. c.before \subseteq {slot_id[s] : s \in M}
      BY <2>1, <2>2, <2>5 DEF Visits
    <3> QED BY <2>4, <3>1
  <2>6. ASSUME c.pc = "walk"
        PROVE  \E R \in SUBSET N :
                  /\ IsList(next_index', c.slot, R)
                  /\ Cardinality(R) <= c.left
                  /\ c.before \subseteq c.found \cup {slot_id'[s] : s \in R}
    <3>1. PICK R \in SUBSET M :
              /\ IsList(next_index, c.slot, R)
              /\ Cardinality(R) <= c.left
              /\ c.before \subseteq c.found \cup {slot_id[s] : s \in R}
      BY <2>1, <2>2, <2>6 DEF Visits
    <3>2. IsList(next_index', c.slot, R)
      BY <2>4, <3>1, FreeFrame
    <3>3. {slot_id'[s] : s \in R} = {slot_id[s] : s \in R}
      BY <2>4
    <3> QED BY <2>4, <3>1, <3>2, <3>3
  <2> QED BY <2>1, <2>3, <2>4, <2>5, <2>6 DEF Visits
<1>6. ReadInv(c, e)'
  BY <1>4, <1>5 DEF ReadInv
<1>7. ReadInv(e, c)'
  BY <1>3 DEF ReadInv
<1>8. \A u \in Threads : u = t \/ u = Other(t)
  BY ThreadsFacts
<1>9. ReadInv(call[t], call[Other(t)])' /\ ReadInv(call[Other(t)], call[Other(Other(t))])'
  BY <1>3, <1>4, <1>6, <1>7 DEF ReadInv
<1> QED BY <1>8, <1>9 DEF ReadsInv

-----------------------------------------------------------------------------
(* Steps that store nothing *)

Loads(t, c) ==
    /\ UNCHANGED <<tables, slots, free_head>>
    /\ call'[t] = c
    /\ call[t].pc \notin UnsettledPcs \cup {"fill"} /\ c.pc \notin UnsettledPcs \cup {"fill"}
    /\ c.pc \in HoldsPcs <=> call[t].pc \in HoldsPcs
    /\ c.pc \in HoldsPcs => c.slot = call[t].slot
    /\ t = "operational" => c.pc \in AppendPcs \cup {"idle"}

LEMMA LoadsSame ==
    ASSUME Calm, NEW t \in Threads, NEW c \in Calls, Acts(t), Loads(t, c)
    PROVE  /\ \A b \in Buckets : Members(b)' = Members(b) /\ (Unsettling(b) => Unsettling(b)')
           /\ Unused' = Unused
           /\ \A h \in IdBuckets : Recs(h)' = Recs(h) /\ (Filling(h) => Filling(h)')
           /\ \A s \in Slots : InHand(s)' <=> InHand(s)
<1>1. /\ is_used' = is_used /\ slot_id' = slot_id /\ slot_bucket' = slot_bucket
      /\ call'[t] = c /\ call'[Other(t)] = call[Other(t)]
  BY DEF Loads, slots, Acts
<1>2. \A s \in Slots : InHand(s)' <=> InHand(s)
  BY <1>1, ThreadsFacts DEF InHand, Loads
<1>3. ASSUME NEW b \in Buckets, Unsettling(b) PROVE Unsettling(b)'
  BY <1>1, <1>3, ThreadsFacts DEF Unsettling, Loads
<1>4. ASSUME NEW h \in IdBuckets, Filling(h) PROVE Filling(h)'
  BY <1>1, <1>4, ThreadsFacts DEF Filling, Loads
<1> QED BY <1>1, <1>2, <1>3, <1>4 DEF Members, Unused, Recs

LEMMA LoadsCalm ==
    ASSUME Calm, NEW t \in Threads, NEW c \in Calls, Acts(t), Loads(t, c),
           SlotInv(c), BucketInv(c), EntryInv(c), ReadInv(c, call[Other(t)])
    PROVE  Calm'
<1>1. /\ name_key' = name_key /\ head_slot_idx' = head_slot_idx /\ id_slot' = id_slot
      /\ is_used' = is_used /\ next_index' = next_index /\ prev_index' = prev_index
      /\ slot_id' = slot_id /\ slot_bucket' = slot_bucket /\ free_head' = free_head
  BY DEF Loads, tables, slots
<1>2. /\ \A b \in Buckets : Members(b)' = Members(b) /\ (Unsettling(b) => Unsettling(b)')
      /\ Unused' = Unused
      /\ \A h \in IdBuckets : Recs(h)' = Recs(h) /\ (Filling(h) => Filling(h)')
      /\ \A s \in Slots : InHand(s)' <=> InHand(s)
  BY LoadsSame
<1>3. PICK d \in Calls : d = call[Other(t)]
  BY ThreadsFacts DEF Calm, Types
<1>4. /\ call'[t] = c /\ call'[Other(t)] = d /\ ~Meet(c, d)
      /\ Other(t) \in Threads /\ Other(Other(t)) = t
      /\ \A u \in Threads : u = t \/ u = Other(t)
  BY <1>3, ThreadsFacts DEF Loads, Acts
<1>5. Types'
  BY <1>1, <1>4 DEF Types, Calm, Acts, Loads, Threads, Other
<1>6. Apart' /\ Distinct'
  <2>1. Apart'
    BY <1>4 DEF Apart, Meet, Threads, Other
  <2>2. Distinct'
    BY <1>3, <1>4 DEF Calm, Distinct, Loads
  <2> QED BY <2>1, <2>2
<1>7. FreeInv' /\ SlotsInv'
  BY <1>1, <1>2 DEF Calm, FreeInv, SlotsInv
<1>8. BucketsInv'
  <2>1. ASSUME NEW b \in Buckets PROVE Settled(b)' <=> Settled(b)
    BY <1>1, <1>2 DEF Settled
  <2> QED BY <1>1, <1>2, <2>1 DEF Calm, BucketsInv
<1>9. IdsInv'
  BY <1>1, <1>2 DEF Calm, IdsInv
<1>10. ASSUME NEW e \in Calls, SlotInv(e) PROVE SlotInv(e)'
  BY <1>1, <1>10 DEF SlotInv
<1>11. ASSUME NEW e \in Calls, BucketInv(e) PROVE BucketInv(e)'
  <2>1. ASSUME NEW b \in Buckets, Half(e, b) PROVE Half(e, b)'
    <3>1. ASSUME NEW n, NEW p PROVE Behind(n, p)' = Behind(n, p)
      BY <1>1 DEF Behind
    <3>2. Members(b)' = Members(b)
      BY <1>2
    <3> QED BY <1>1, <2>1, <3>1, <3>2 DEF Half, Behind
  <2> QED BY <1>11, <2>1 DEF BucketInv
<1>12. ASSUME NEW e \in Calls, EntryInv(e) PROVE EntryInv(e)'
  <2>1. ASSUME NEW h \in IdBuckets, Tested(e, h) PROVE Tested(e, h)'
    BY <1>1, <1>2, <2>1 DEF Tested
  <2> QED BY <1>12, <2>1 DEF EntryInv
<1>13. CallsInv'
  <2>1. SlotInv(d) /\ BucketInv(d) /\ EntryInv(d)
    BY <1>3, <1>4 DEF Calm, CallsInv
  <2>2. /\ SlotInv(c)' /\ BucketInv(c)' /\ EntryInv(c)'
        /\ SlotInv(d)' /\ BucketInv(d)' /\ EntryInv(d)'
    BY <1>10, <1>11, <1>12, <2>1
  <2>3. /\ SlotInv(call[t])' /\ BucketInv(call[t])' /\ EntryInv(call[t])'
        /\ SlotInv(call[Other(t)])' /\ BucketInv(call[Other(t)])' /\ EntryInv(call[Other(t)])'
    BY <1>4, <2>2 DEF SlotInv, BucketInv, EntryInv
  <2> QED BY <1>4, <2>3 DEF CallsInv
<1>14. ReadsInv'
  <2>1. ReadInv(d, call[t]) /\ ReadInv(c, d)
    BY <1>3, <1>4 DEF Calm, ReadsInv
  <2>2. ASSUME NEW e \in Calls, NEW f, NEW g, ~HalfNamed(g, e.bucket), ReadInv(e, f)
        PROVE  ReadInv(e, g)'
    <3>1. ASSUME NEW b \in Buckets, e.bucket = b, Visits(e, b, f) PROVE Visits(e, b, g)'
      BY <1>1, <1>2, <2>2, <3>1 DEF Visits
    <3> QED BY <2>2, <3>1 DEF ReadInv
  <2>3. ReadInv(d, c)'
    BY <2>1, <2>2 DEF HalfNamed, Loads, UnsettledPcs
  <2>4. ReadInv(c, d)'
    <3>1. ASSUME NEW b \in Buckets, Visits(c, b, d) PROVE Visits(c, b, d)'
      BY <1>1, <1>2, <3>1 DEF Visits
    <3> QED BY <2>1, <3>1 DEF ReadInv
  <2>5. ReadInv(call[t], call[Other(t)])' /\ ReadInv(call[Other(t)], call[Other(Other(t))])'
    BY <1>4, <2>3, <2>4 DEF ReadInv
  <2> QED BY <1>4, <2>5 DEF ReadsInv
<1> QED BY <1>5, <1>6, <1>7, <1>8, <1>9, <1>13, <1>14 DEF Calm

LEMMA IdleFacts ==
    /\ Idle \in Calls
    /\ SlotInv(Idle) /\ BucketInv(Idle) /\ EntryInv(Idle) /\ \A d : ReadInv(Idle, d)
<1>1. Idle \in Calls
  BY RaceAssumption DEF Idle, Calls, SlotOrNil
<1>2. Idle.pc = "idle" /\ Idle.id \notin Ids
  BY RaceAssumption DEF Idle
<1>3. SlotInv(Idle) /\ EntryInv(Idle) /\ \A d : ReadInv(Idle, d)
  BY <1>2 DEF SlotInv, EntryInv, ReadInv, HoldsPcs, AppendPcs, DeletePcs, ReadPcs
<1>4. BucketInv(Idle)
  BY <1>2 DEF BucketInv, Writing, AppendPcs
<1> QED BY <1>1, <1>3, <1>4

\* what Calm says of the call of t
LEMMA CallFacts ==
    ASSUME Calm, NEW t \in Threads
    PROVE  /\ call[t] \in Calls
           /\ SlotInv(call[t]) /\ BucketInv(call[t]) /\ EntryInv(call[t])
           /\ t = "operational" => call[t].pc \in AppendPcs \cup {"idle"}
  BY DEF Calm, Types, CallsInv

LEMMA FindCalm ==
    ASSUME IInv, ~raced', NEW t \in Threads, NEW id \in Ids, Find(t, id)
    PROVE  Calm'
<1> DEFINE b == FindBucket(Owner[id])
           c == [Idle EXCEPT !.pc = "test_id", !.id = id, !.key = Owner[id], !.bucket = b]
<1>1. Owner[id] \in Keys /\ b \in Buckets /\ name_key[b] \in {NoKey, Owner[id]}
  BY RaceAssumption, FindBucketFacts DEF Find
<1>2. /\ c \in Calls /\ c.pc = "test_id" /\ c.id = id /\ c.key = Owner[id] /\ c.bucket = b
  BY <1>1, IdleFacts DEF Calls, Idle, AppendPcs
<1>3. Begin(t, c) /\ UNCHANGED <<tables, slots, free_head>>
  BY DEF Find
<1> HIDE DEF b, c
<1>4. Acts(t) /\ Calm /\ call'[t] = c /\ call[t].pc = "idle"
  BY <1>2, <1>3, BeginActs
<1>5. Loads(t, c)
  BY <1>2, <1>3, <1>4 DEF Loads, UnsettledPcs, HoldsPcs, AppendPcs
<1>6. SlotInv(c) /\ ReadInv(c, call[Other(t)]) /\ EntryInv(c)
  BY <1>2 DEF SlotInv, ReadInv, EntryInv, Tested, HoldsPcs, ReadPcs
<1>7. BucketInv(c)
  <2>1. Half(c, b)
    BY <1>1, <1>2 DEF Half
  <2> QED BY <1>1, <1>2, <2>1 DEF BucketInv
<1> QED BY <1>2, <1>4, <1>5, <1>6, <1>7, LoadsCalm

LEMMA TestIdCalm ==
    ASSUME IInv, ~raced', NEW t \in Threads, TestId(t)
    PROVE  Calm'
<1> DEFINE h == IdHash[call[t].id]
           c == IF id_slot[h] = Nil THEN To(t, "load_free") ELSE Idle
<1>1. Calm /\ call[t].pc = "test_id" /\ Step(t, "test_id", c)
      /\ UNCHANGED <<tables, slots, free_head>>
  BY DEF TestId, IInv, Step
<1>2. PICK d \in Calls : d = call[t]
  BY <1>1, CallFacts
<1>3. SlotInv(d) /\ BucketInv(d) /\ EntryInv(d) /\ d.pc = "test_id"
  BY <1>1, <1>2, CallFacts
<1>4. CASE id_slot[h] = Nil
  <2>1. /\ c \in Calls /\ c.pc = "load_free" /\ c.id = d.id /\ c.key = d.key /\ c.bucket = d.bucket
    BY <1>2, <1>4 DEF To, Calls, AppendPcs
  <2> HIDE DEF c
  <2>2. Acts(t) /\ call'[t] = c
    BY <1>1, <2>1, StepActs
  <2>3. Loads(t, c)
    BY <1>1, <2>1, <2>2 DEF Loads, UnsettledPcs, HoldsPcs, AppendPcs
  <2>4. SlotInv(c) /\ ReadInv(c, call[Other(t)])
    BY <2>1 DEF SlotInv, ReadInv, HoldsPcs, ReadPcs
  <2>5. BucketInv(c)
    BY <1>3, <2>1 DEF BucketInv, Half, Writing, AppendPcs
  <2>6. EntryInv(c)
    BY <1>2, <1>3, <1>4, <2>1 DEF EntryInv, Tested, AppendPcs
  <2> QED BY <1>1, <2>1, <2>2, <2>3, <2>4, <2>5, <2>6, LoadsCalm
<1>5. CASE id_slot[h] # Nil
  <2>1. c = Idle /\ c.pc = "idle"
    BY <1>5 DEF Idle
  <2> HIDE DEF c
  <2>2. Acts(t) /\ call'[t] = c
    BY <1>1, <2>1, IdleFacts, StepActs
  <2>3. Loads(t, c)
    BY <1>1, <2>1, <2>2 DEF Loads, UnsettledPcs, HoldsPcs, AppendPcs
  <2> QED BY <1>1, <2>1, <2>2, <2>3, IdleFacts, LoadsCalm
<1> QED BY <1>4, <1>5

LEMMA LoadFreeCalm ==
    ASSUME IInv, ~raced', NEW t \in Threads, LoadFree(t)
    PROVE  Calm'
<1> DEFINE c == IF free_head = Nil THEN Idle ELSE [To(t, "load_next") EXCEPT !.slot = free_head]
<1>1. Calm /\ call[t].pc = "load_free" /\ Step(t, "load_free", c)
      /\ UNCHANGED <<tables, slots, free_head>> /\ free_head \in SlotOrNil
  BY DEF LoadFree, IInv, Step, Calm, Types
<1>2. PICK d \in Calls : d = call[t]
  BY <1>1, CallFacts
<1>3. SlotInv(d) /\ BucketInv(d) /\ EntryInv(d) /\ d.pc = "load_free"
  BY <1>1, <1>2, CallFacts
<1>4. CASE free_head # Nil
  <2>1. /\ c \in Calls /\ c.pc = "load_next" /\ c.id = d.id /\ c.key = d.key
        /\ c.bucket = d.bucket /\ c.slot = free_head
    BY <1>1, <1>2, <1>4 DEF To, Calls, AppendPcs
  <2> HIDE DEF c
  <2>2. Acts(t) /\ call'[t] = c
    BY <1>1, <2>1, StepActs
  <2>3. Loads(t, c)
    BY <1>1, <2>1, <2>2 DEF Loads, UnsettledPcs, HoldsPcs, AppendPcs
  <2>4. SlotInv(c) /\ ReadInv(c, call[Other(t)])
    BY <1>1, <1>4, <2>1 DEF SlotInv, ReadInv, HoldsPcs, ReadPcs, SlotOrNil
  <2>5. BucketInv(c)
    BY <1>3, <2>1 DEF BucketInv, Half, Writing, AppendPcs
  <2>6. EntryInv(c)
    BY <1>2, <1>3, <1>4, <2>1 DEF EntryInv, Tested, AppendPcs
  <2> QED BY <1>1, <2>1, <2>2, <2>3, <2>4, <2>5, <2>6, LoadsCalm
<1>5. CASE free_head = Nil
  <2>1. c = Idle /\ c.pc = "idle"
    BY <1>5 DEF Idle
  <2> HIDE DEF c
  <2>2. Acts(t) /\ call'[t] = c
    BY <1>1, <2>1, IdleFacts, StepActs
  <2>3. Loads(t, c)
    BY <1>1, <2>1, <2>2 DEF Loads, UnsettledPcs, HoldsPcs, AppendPcs
  <2> QED BY <1>1, <2>1, <2>2, <2>3, IdleFacts, LoadsCalm
<1> QED BY <1>4, <1>5

LEMMA LoadNextCalm ==
    ASSUME IInv, ~raced', NEW t \in Threads, LoadNext(t)
    PROVE  Calm'
<1> DEFINE c == [To(t, "store_free") EXCEPT !.next = next_index[call[t].slot]]
<1>1. Calm /\ call[t].pc = "load_next" /\ Step(t, "load_next", c)
      /\ UNCHANGED <<tables, slots, free_head>> /\ next_index \in [Slots -> SlotOrNil]
  BY DEF LoadNext, IInv, Step, Calm, Types
<1>2. PICK d \in Calls : d = call[t]
  BY <1>1, CallFacts
<1>3. /\ SlotInv(d) /\ BucketInv(d) /\ EntryInv(d) /\ d.pc = "load_next"
      /\ d.slot = free_head /\ d.slot \in Slots
  BY <1>1, <1>2, CallFacts DEF SlotInv
<1>4. /\ c \in Calls /\ c.pc = "store_free" /\ c.id = d.id /\ c.key = d.key
      /\ c.bucket = d.bucket /\ c.slot = d.slot /\ c.next = next_index[d.slot]
  BY <1>1, <1>2, <1>3 DEF To, Calls, AppendPcs
<1> HIDE DEF c
<1>5. Acts(t) /\ call'[t] = c
  BY <1>1, <1>4, StepActs
<1>6. Loads(t, c)
  BY <1>1, <1>4, <1>5 DEF Loads, UnsettledPcs, HoldsPcs, AppendPcs
<1>7. SlotInv(c) /\ ReadInv(c, call[Other(t)])
  BY <1>3, <1>4 DEF SlotInv, ReadInv, HoldsPcs, ReadPcs
<1>8. BucketInv(c)
  BY <1>3, <1>4 DEF BucketInv, Half, Writing, AppendPcs
<1>9. EntryInv(c)
  BY <1>3, <1>4 DEF EntryInv, Tested, AppendPcs
<1> QED BY <1>1, <1>4, <1>5, <1>6, <1>7, <1>8, <1>9, LoadsCalm

LEMMA TestNameCalm ==
    ASSUME IInv, ~raced', NEW t \in Threads, TestName(t)
    PROVE  Calm'
<1> DEFINE b == call[t].bucket
           c == IF name_key[b] = NoKey THEN To(t, "name")
                ELSE [To(t, "link") EXCEPT !.next = head_slot_idx[b]]
<1>1. Calm /\ call[t].pc = "test_name" /\ Step(t, "test_name", c)
      /\ UNCHANGED <<tables, slots, free_head>> /\ head_slot_idx \in [Buckets -> SlotOrNil]
  BY DEF TestName, IInv, Step, Calm, Types
<1>2. PICK d \in Calls : d = call[t]
  BY <1>1, CallFacts
<1>3. SlotInv(d) /\ BucketInv(d) /\ EntryInv(d) /\ d.pc = "test_name"
  BY <1>1, <1>2, CallFacts
<1>4. b = d.bucket /\ b \in Buckets /\ name_key[b] \in {NoKey, d.key}
  BY <1>2, <1>3 DEF BucketInv, Half, Writing, AppendPcs
<1>5. /\ c \in Calls /\ c.pc = (IF name_key[b] = NoKey THEN "name" ELSE "link")
      /\ c.id = d.id /\ c.key = d.key /\ c.bucket = b /\ c.slot = d.slot
      /\ name_key[b] # NoKey => c.next = head_slot_idx[b]
  BY <1>1, <1>2, <1>4 DEF To, Calls, AppendPcs
<1> HIDE DEF b, c
<1>6. Acts(t) /\ call'[t] = c
  BY <1>1, <1>5, StepActs
<1>7. Loads(t, c)
  BY <1>1, <1>2, <1>5, <1>6 DEF Loads, UnsettledPcs, HoldsPcs, AppendPcs
<1>8. SlotInv(c) /\ ReadInv(c, call[Other(t)])
  BY <1>3, <1>4, <1>5 DEF SlotInv, ReadInv, HoldsPcs, ReadPcs
<1>9. BucketInv(c)
  BY <1>3, <1>4, <1>5 DEF BucketInv, Half, Writing, AppendPcs
<1>10. EntryInv(c)
  BY <1>3, <1>5 DEF EntryInv, Tested, AppendPcs
<1> QED BY <1>1, <1>5, <1>6, <1>7, <1>8, <1>9, <1>10, LoadsCalm

LEMMA LocateCalm ==
    ASSUME IInv, ~raced', NEW id \in Ids, Locate("worker", id)
    PROVE  Calm'
<1>1. PICK s : s = id_slot[IdHash[id]]
  OBVIOUS
<1>2. PICK b : b = slot_bucket[s]
  OBVIOUS
<1> DEFINE t == "worker"
           c == [Idle EXCEPT !.pc = "unlink", !.id = id, !.slot = s, !.bucket = b,
                             !.prev = prev_index[s], !.next = next_index[s]]
<1>3. /\ Begin(t, c) /\ UNCHANGED <<tables, slots, free_head>>
      /\ s # Nil /\ is_used[s] /\ slot_id[s] = id
  BY <1>1, <1>2 DEF Locate
<1>4. Calm /\ Types
  BY <1>3 DEF IInv, Begin, Calm
<1>5. s \in Slots /\ b \in Buckets \cup {NoBucket}
  BY <1>1, <1>2, <1>3, <1>4, RaceAssumption DEF Types, SlotOrNil
<1>6. /\ c \in Calls /\ c.pc = "unlink" /\ c.id = id /\ c.slot = s /\ c.bucket = b
      /\ c.prev = prev_index[s] /\ c.next = next_index[s]
  BY <1>4, <1>5, IdleFacts DEF Types, Calls, Idle, DeletePcs, SlotOrNil
<1> HIDE DEF c
<1>7. Acts(t) /\ call'[t] = c /\ call[t].pc = "idle"
  BY <1>3, <1>6, BeginActs DEF Threads
<1>8. Loads(t, c)
  BY <1>3, <1>6, <1>7 DEF Loads, UnsettledPcs, HoldsPcs
<1>9. ~InHand(s)
  <2>1. PICK d \in Calls : d = call["operational"]
    BY <1>4, CallFacts DEF Threads
  <2>2. SlotInv(d) /\ EntryInv(d) /\ ~Meet(c, d) /\ d.pc \in AppendPcs \cup {"idle"}
    BY <1>4, <1>7, <2>1, CallFacts DEF Threads, Acts, Other
  <2>3. d.pc \in HoldsPcs /\ d.slot = s => d.id = id /\ id # NoId
    BY <1>3, <2>2, RaceAssumption DEF SlotInv, HoldsPcs, AppendPcs
  <2>4. d.pc \in HoldsPcs /\ d.slot = s => FALSE
    BY <1>6, <2>2, <2>3 DEF Meet, OnIdEntry, HoldsPcs
  <2> QED BY <1>7, <2>1, <2>4 DEF InHand, Threads, HoldsPcs
<1>10. b \in Buckets /\ s \in Members(b)
  BY <1>2, <1>3, <1>4, <1>5, <1>9 DEF Calm, SlotsInv, Members
<1>11. SlotInv(c) /\ ReadInv(c, call[Other(t)])
  BY <1>2, <1>3, <1>6 DEF SlotInv, ReadInv, HoldsPcs, ReadPcs
<1>12. BucketInv(c)
  <2>1. Half(c, b)
    BY <1>6, <1>10 DEF Half, AppendPcs
  <2> QED BY <1>6, <1>10, <2>1 DEF BucketInv, AppendPcs
<1>13. EntryInv(c)
  BY <1>1, <1>6 DEF EntryInv, Tested
<1> QED BY <1>4, <1>6, <1>7, <1>8, <1>11, <1>12, <1>13, LoadsCalm DEF Threads

-----------------------------------------------------------------------------
(* get_record *)

LEMMA WalkTyped ==
    ASSUME NEW S, NEW max \in Nat, NEW used, NEW next \in [S -> S \cup {Nil}], NEW w,
           IsWalk(w, used, next, S, max)
    PROVE  \A left \in 0 .. max : w[left] \in [S \cup {Nil} -> Seq(S)]
<1> DEFINE D == [S \cup {Nil} -> Seq(S)]
           T == {n \in Nat : n <= max /\ w[n] \notin D}
<1>1. ASSUME NEW m \in 0 .. max, m # 0 => w[m - 1] \in D PROVE w[m] \in D
  <2> DEFINE f == [s \in S \cup {Nil} |->
                     IF s = Nil \/ m = 0 THEN <<>>
                     ELSE IF ~used[s] THEN <<>>
                     ELSE IF next[s] = s THEN <<s>>
                     ELSE <<s>> \o w[m - 1][next[s]]]
  <2>1. w[m] = f
    BY DEF IsWalk
  <2>2. ASSUME NEW s \in S, m # 0 PROVE <<s>> \o w[m - 1][next[s]] \in Seq(S)
    <3>1. w[m - 1][next[s]] \in Seq(S)
      BY <1>1, <2>2
    <3> QED BY <3>1
  <2>3. f \in D
    BY <2>2
  <2> QED BY <2>1, <2>3
<1> HIDE DEF D
<1>2. ASSUME T # {} PROVE FALSE
  <2>1. T \in SUBSET Nat
    OBVIOUS
  <2>2. PICK m \in T : \A n \in T : m <= n
    BY <1>2, <2>1, SmallestOf
  <2>3. m \in 0 .. max /\ w[m] \notin D
    BY <2>2
  <2>4. m # 0 => m - 1 \in Nat /\ m - 1 <= max /\ m - 1 \notin T
    BY <2>2, <2>3
  <2>5. m # 0 => w[m - 1] \in D
    BY <2>4
  <2> QED BY <1>1, <2>3, <2>5
<1>3. ASSUME NEW left \in 0 .. max PROVE w[left] \in D
  BY <1>2
<1> QED BY <1>3 DEF D

LEMMA PathWalks ==
    ASSUME Types
    PROVE  IsWalk(Path, is_used, next_index, Slots, MaxRecords)
<1>1. PICK w : IsWalk(w, is_used, next_index, Slots, MaxRecords)
  BY WalkExists, SlotsFacts, RaceAssumption DEF Types, SlotOrNil
<1>2. w = [left \in 0 .. MaxRecords |->
              [s \in SlotOrNil |->
                  IF s = Nil \/ left = 0 THEN <<>>
                  ELSE IF ~is_used[s] THEN <<>>
                  ELSE IF next_index[s] = s THEN <<s>>
                  ELSE <<s>> \o w[left - 1][next_index[s]]]]
  BY <1>1 DEF IsWalk, SlotOrNil
<1>3. Path = [left \in 0 .. MaxRecords |->
              [s \in SlotOrNil |->
                  IF s = Nil \/ left = 0 THEN <<>>
                  ELSE IF ~is_used[s] THEN <<>>
                  ELSE IF next_index[s] = s THEN <<s>>
                  ELSE <<s>> \o Path[left - 1][next_index[s]]]]
  BY <1>2 DEF Path
<1> QED BY <1>3 DEF IsWalk, SlotOrNil

\* a bucket that has its name, and whose head is stored, leads to a list
LEMMA NamedIsList ==
    ASSUME Calm, NEW b \in Buckets, name_key[b] \in Keys,
           call["worker"].pc \notin UnsettledPcs, ~HalfNamed(call["operational"], b)
    PROVE  IsList(next_index, head_slot_idx[b], Members(b))
<1>1. PICK M : M = Members(b)
  OBVIOUS
<1>2. PICK head : head = head_slot_idx[b]
  OBVIOUS
<1>3. CASE Settled(b)
  <2>1. IsDoubleList(next_index, prev_index, head, M)
    BY <1>1, <1>2, <1>3, RaceAssumption DEF Settled
  <2> QED BY <1>1, <1>2, <2>1, DoubleIsList
<1>4. CASE Unsettling(b)
  <2>1. PICK d \in Calls : d = call["operational"]
    BY CallFacts DEF Threads
  <2>2. /\ d.pc \in UnsettledPcs /\ d.bucket = b /\ d.pc \in AppendPcs \cup {"idle"}
        /\ d.pc # "first_head" /\ BucketInv(d)
    BY <1>4, <2>1, CallFacts DEF Unsettling, Threads, HalfNamed
  <2>3. Half(d, b)
    BY <2>2 DEF BucketInv, Writing, UnsettledPcs
  <2>4. d.pc # "qtype"
    BY <2>3, RaceAssumption DEF Half
  <2>5. d.pc = "new_head"
    BY <2>2, <2>4 DEF UnsettledPcs, AppendPcs
  <2>6. IsDoubleList(next_index, Behind(head, Nil), head, M)
    BY <1>1, <1>2, <2>3, <2>5 DEF Half
  <2> QED BY <1>1, <1>2, <2>6, DoubleIsList
<1> QED BY <1>3, <1>4 DEF Calm, BucketsInv

LEMMA ChainedFacts ==
    ASSUME Calm, NEW b \in Buckets
    PROVE  /\ Chained(b) \subseteq Ids \cup {NoId}
           /\ (/\ name_key[b] \in Keys
               /\ call["worker"].pc \notin UnsettledPcs
               /\ ~HalfNamed(call["operational"], b))
                  => Chained(b) \subseteq {slot_id[s] : s \in Members(b)}
<1>1. PICK path : path = Path[MaxRecords][head_slot_idx[b]]
  OBVIOUS
<1>2. Chained(b) = {slot_id[path[i]] : i \in DOMAIN path}
  BY <1>1 DEF Chained
<1>3. Types /\ MaxRecords \in Nat /\ MaxRecords \in 0 .. MaxRecords
  BY RaceAssumption DEF Calm
<1>4. IsWalk(Path, is_used, next_index, Slots, MaxRecords)
  BY <1>3, PathWalks
<1>5. path \in Seq(Slots)
  <2>1. Path[MaxRecords] \in [Slots \cup {Nil} -> Seq(Slots)]
    BY <1>3, <1>4, WalkTyped DEF Types, SlotOrNil
  <2> QED BY <1>1, <1>3, <2>1 DEF Types, SlotOrNil
<1>6. \A i \in DOMAIN path : slot_id[path[i]] \in Ids \cup {NoId}
  BY <1>3, <1>5 DEF Types
<1>7. ASSUME name_key[b] \in Keys, call["worker"].pc \notin UnsettledPcs,
             ~HalfNamed(call["operational"], b)
      PROVE  Chained(b) \subseteq {slot_id[s] : s \in Members(b)}
  <2>1. PICK M \in SUBSET Slots : M = Members(b)
    BY DEF Members
  <2>2. IsList(next_index, head_slot_idx[b], M)
    BY <1>7, <2>1, NamedIsList
  <2>3. PICK c \in [1 .. Cardinality(M) -> M] : Order(next_index, head_slot_idx[b], M, c)
    BY <2>2 DEF IsList
  <2>4. \A s \in M : is_used[s]
    BY <2>1 DEF Members
  <2>5. path = c
    BY <1>1, <1>3, <1>4, <2>3, <2>4, SlotsFacts, WalkOfList
  <2> QED BY <1>2, <2>1, <2>3, <2>5
<1>8. Chained(b) \subseteq Ids \cup {NoId}
  BY <1>2, <1>6
<1> QED BY <1>7, <1>8

LEMMA ReaderFacts ==
    ASSUME NEW c, c.pc \in ReadPcs
    PROVE  SlotInv(c) /\ BucketInv(c) /\ EntryInv(c)
  BY DEF SlotInv, BucketInv, EntryInv, Tested, Writing, ReadPcs, HoldsPcs, AppendPcs, DeletePcs

LEMMA LookUpCalm ==
    ASSUME IInv, ~raced', NEW k \in Keys, LookUp("worker", k)
    PROVE  Calm'
<1>1. PICK b : b = FindBucket(k)
  OBVIOUS
<1>2. PICK d : d = call["operational"]
  OBVIOUS
<1> DEFINE t == "worker"
           c == [Idle EXCEPT !.pc = "head", !.key = k, !.bucket = b, !.before = Chained(b),
                             !.early = HalfNamed(d, b)]
<1>3. /\ Step(t, "idle", c) /\ UNCHANGED <<tables, slots, free_head>>
      /\ b # NoBucket /\ name_key[b] # NoKey
  BY <1>1, <1>2 DEF LookUp, Other
<1>4. Calm /\ call[t].pc = "idle"
  BY <1>3 DEF IInv, Step
<1>5. b \in Buckets /\ name_key[b] = k
  BY <1>1, <1>3, FindBucketFacts
<1>6. /\ c \in Calls /\ c.pc = "head" /\ c.key = k /\ c.bucket = b /\ c.before = Chained(b)
      /\ c.early = HalfNamed(d, b) /\ c.found = {}
  BY <1>4, <1>5, ChainedFacts, IdleFacts DEF Calls, Idle, ReadPcs, HalfNamed
<1> HIDE DEF c
<1>7. Acts(t) /\ call'[t] = c
  BY <1>3, <1>6, StepActs DEF Threads
<1>8. Loads(t, c)
  BY <1>3, <1>4, <1>6, <1>7 DEF Loads, UnsettledPcs, HoldsPcs
<1>9. ReadInv(c, d)
  <2>1. ASSUME ~c.early PROVE Visits(c, b, d)
    BY <1>2, <1>4, <1>5, <1>6, <2>1, ChainedFacts DEF Visits, UnsettledPcs
  <2> QED BY <1>5, <1>6, <2>1 DEF ReadInv
<1> QED BY <1>2, <1>4, <1>6, <1>7, <1>8, <1>9, LoadsCalm, ReaderFacts DEF Threads, ReadPcs, Other

LEMMA LoadHeadCalm ==
    ASSUME IInv, ~raced', LoadHead("worker")
    PROVE  Calm'
<1>1. PICK e : e = call["worker"]
  OBVIOUS
<1>2. PICK d : d = call["operational"]
  OBVIOUS
<1>3. PICK b : b = e.bucket
  OBVIOUS
<1> DEFINE t == "worker"
           c == [To(t, "walk") EXCEPT !.slot = head_slot_idx[b], !.left = MaxRecords,
                                      !.early = @ \/ HalfNamed(d, b)]
<1>4. Step(t, "head", c) /\ UNCHANGED <<tables, slots, free_head>>
  BY <1>1, <1>2, <1>3 DEF LoadHead, Other
<1>5. Calm /\ e.pc = "head"
  BY <1>1, <1>4 DEF IInv, Step
<1>6. e \in Calls /\ ReadInv(e, d) /\ b \in Buckets
  BY <1>1, <1>2, <1>3, <1>5, CallFacts DEF Calm, ReadsInv, ReadInv, Threads, Other, ReadPcs
<1>7. /\ c \in Calls /\ c.pc = "walk" /\ c.key = e.key /\ c.bucket = b /\ c.before = e.before
      /\ c.early = (e.early \/ HalfNamed(d, b)) /\ c.found = e.found
      /\ c.slot = head_slot_idx[b] /\ c.left = MaxRecords
  <2>1. head_slot_idx[b] \in SlotOrNil /\ MaxRecords \in 0 .. MaxRecords
    BY <1>5, <1>6, RaceAssumption DEF Calm, Types
  <2>2. PICK early \in BOOLEAN : early = (e.early \/ HalfNamed(d, b))
    BY <1>6 DEF Calls, HalfNamed
  <2>3. c = [e EXCEPT !.pc = "walk", !.slot = head_slot_idx[b], !.left = MaxRecords,
                      !.early = early]
    BY <1>1, <1>6, <2>2 DEF To, Calls
  <2> HIDE DEF c
  <2>4. c \in Calls
    BY <1>6, <2>1, <2>3 DEF Calls, ReadPcs
  <2>5. /\ c.pc = "walk" /\ c.key = e.key /\ c.bucket = e.bucket /\ c.before = e.before
        /\ c.early = early /\ c.found = e.found
        /\ c.slot = head_slot_idx[b] /\ c.left = MaxRecords
    BY <1>6, <2>3 DEF Calls
  <2> QED BY <1>3, <2>2, <2>4, <2>5
<1> HIDE DEF c
<1>8. Acts(t) /\ call'[t] = c
  BY <1>4, <1>7, StepActs DEF Threads
<1>9. Loads(t, c)
  BY <1>1, <1>4, <1>5, <1>7, <1>8 DEF Loads, UnsettledPcs, HoldsPcs
<1>10. ReadInv(c, d)
  <2>1. ASSUME ~c.early PROVE Visits(c, b, d)
    <3>1. Visits(e, b, d) /\ ~HalfNamed(d, b)
      BY <1>3, <1>5, <1>6, <1>7, <2>1 DEF ReadInv, ReadPcs
    <3>2. PICK R \in SUBSET Slots : R = Members(b)
      BY DEF Members
    <3>3. IsList(next_index, c.slot, R)
      BY <1>1, <1>2, <1>5, <1>6, <1>7, <3>1, <3>2, NamedIsList DEF Visits, UnsettledPcs
    <3>4. Cardinality(R) <= c.left
      BY <1>7, SlotsFacts
    <3>5. c.before \subseteq c.found \cup {slot_id[s] : s \in R}
      BY <1>5, <1>7, <3>1, <3>2 DEF Visits
    <3> QED BY <1>7, <3>1, <3>2, <3>3, <3>4, <3>5 DEF Visits
  <2> QED BY <1>6, <1>7, <2>1 DEF ReadInv
<1> QED BY <1>2, <1>5, <1>7, <1>8, <1>9, <1>10, LoadsCalm, ReaderFacts DEF Threads, ReadPcs, Other

LEMMA WalkCalm ==
    ASSUME IInv, ~raced', Walk("worker")
    PROVE  Calm'
<1>1. PICK e : e = call["worker"]
  OBVIOUS
<1>2. PICK d : d = call["operational"]
  OBVIOUS
<1>3. PICK b : b = e.bucket
  OBVIOUS
<1>4. PICK s : s = e.slot
  OBVIOUS
<1> DEFINE t == "worker"
           ends == s = Nil \/ e.left = 0 \/ ~is_used[s]
           c == IF ends THEN To(t, "answer")
                ELSE [e EXCEPT !.found = @ \cup {slot_id[s]}, !.slot = next_index[s],
                               !.pc = IF next_index[s] = s THEN "answer" ELSE "walk",
                               !.left = @ - 1]
<1>5. Step(t, "walk", c) /\ UNCHANGED <<tables, slots, free_head>>
  BY <1>1, <1>4 DEF Walk
<1>6. Calm /\ Types /\ e.pc = "walk"
  BY <1>1, <1>5 DEF IInv, Step, Calm
<1>7. e \in Calls /\ ReadInv(e, d) /\ b \in Buckets
  BY <1>1, <1>2, <1>3, <1>6, CallFacts DEF Calm, ReadsInv, ReadInv, Threads, Other, ReadPcs
<1>8. /\ c \in Calls /\ c.key = e.key /\ c.bucket = b /\ c.before = e.before
      /\ c.early = e.early /\ c.pc \in {"walk", "answer"}
      /\ ends => c.pc = "answer" /\ c.found = e.found
      /\ ~ends => /\ c.found = e.found \cup {slot_id[s]} /\ c.slot = next_index[s]
                  /\ c.pc = (IF next_index[s] = s THEN "answer" ELSE "walk")
                  /\ c.left = e.left - 1
  <2>1. CASE ends
    BY <1>1, <1>3, <1>7, <2>1 DEF To, Calls, ReadPcs
  <2>2. CASE ~ends
    <3>1. s \in Slots /\ slot_id[s] \in Ids \cup {NoId} /\ next_index[s] \in SlotOrNil
      BY <1>4, <1>6, <1>7, <2>2 DEF Types, Calls, SlotOrNil
    <3>2. e.left - 1 \in 0 .. MaxRecords
      BY <1>7, <2>2, RaceAssumption DEF Calls
    <3>3. PICK pc \in {"walk", "answer"} : pc = IF next_index[s] = s THEN "answer" ELSE "walk"
      OBVIOUS
    <3>4. PICK found \in SUBSET (Ids \cup {NoId}) : found = e.found \cup {slot_id[s]}
      BY <1>7, <3>1 DEF Calls
    <3>5. c = [e EXCEPT !.found = found, !.slot = next_index[s], !.pc = pc, !.left = e.left - 1]
      BY <2>2, <3>3, <3>4
    <3> HIDE DEF c, ends
    <3>6. c \in Calls
      BY <1>7, <3>1, <3>2, <3>5 DEF Calls, ReadPcs
    <3>7. /\ c.key = e.key /\ c.bucket = e.bucket /\ c.before = e.before /\ c.early = e.early
          /\ c.pc = pc /\ c.found = found /\ c.slot = next_index[s] /\ c.left = e.left - 1
      BY <1>7, <3>5 DEF Calls
    <3> QED BY <1>3, <2>2, <3>3, <3>4, <3>6, <3>7
  <2> QED BY <2>1, <2>2
<1> HIDE DEF c
<1>9. Acts(t) /\ call'[t] = c
  BY <1>5, <1>8, StepActs DEF Threads
<1>10. Loads(t, c)
  BY <1>1, <1>5, <1>6, <1>8, <1>9 DEF Loads, UnsettledPcs, HoldsPcs
<1>11. ASSUME ~c.early PROVE Visits(c, b, d)
  <2>1. Visits(e, b, d)
    BY <1>3, <1>6, <1>7, <1>8, <1>11 DEF ReadInv, ReadPcs
  <2>2. PICK M \in SUBSET Slots : M = Members(b)
    BY DEF Members
  <2>3. PICK R \in SUBSET M : /\ IsList(next_index, s, R)
                              /\ Cardinality(R) <= e.left
                              /\ e.before \subseteq e.found \cup {slot_id[q] : q \in R}
    BY <1>4, <1>6, <2>1, <2>2 DEF Visits
  <2>4. IsFiniteSet(R) /\ Nil \notin R /\ Cardinality(R) \in Nat
    BY SlotsFacts
  <2>5. (R = {} <=> s = Nil) /\ (R # {} => s \in R)
    BY <2>3, <2>4, HeadOfList
  <2>6. CASE ends
    <3>1. e.left = 0 => R = {}
      BY <2>3, <2>4, FS_EmptySet
    <3>2. R = {}
      BY <2>2, <2>5, <2>6, <3>1 DEF Members
    <3>3. c.before \subseteq c.found
      BY <1>8, <2>3, <2>6, <3>2
    <3> QED BY <1>8, <2>1, <2>6, <3>3 DEF Visits
  <2>7. CASE ~ends
    <3>1. s \in R /\ s \in M /\ s # Nil
      BY <2>5, <2>7
    <3>2. IsList(next_index, next_index[s], R \ {s})
      BY <2>3, <2>4, <3>1, FreePop
    <3>3. IsFiniteSet(R \ {s}) /\ Cardinality(R \ {s}) = Cardinality(R) - 1
      BY <2>4, <3>1, FS_RemoveElement
    <3>4. next_index[s] # s
      <4>1. Nil \notin R \ {s}
        BY <2>4
      <4>2. next_index[s] # Nil => next_index[s] \in R \ {s}
        BY <3>2, <3>3, <4>1, HeadOfList
      <4> QED BY <3>1, <4>2
    <3>5. Cardinality(R \ {s}) <= c.left
      BY <1>7, <1>8, <2>3, <2>4, <2>7, <3>3 DEF Calls
    <3>6. c.before \subseteq c.found \cup {slot_id[q] : q \in R \ {s}}
      BY <1>8, <2>3, <2>7
    <3>7. slot_id[s] \in Ids /\ Owner[slot_id[s]] = c.key
      BY <1>6, <1>7, <1>8, <2>1, <2>2, <3>1 DEF Calm, SlotsInv, BucketsInv, Members, Visits
    <3>8. \A id \in c.found : id \in Ids /\ Owner[id] = c.key
      BY <1>8, <2>1, <2>7, <3>7 DEF Visits
    <3>9. R \ {s} \in SUBSET M /\ c.pc = "walk" /\ c.slot = next_index[s]
      BY <1>8, <2>7, <3>4
    <3> QED BY <1>8, <2>1, <2>2, <3>2, <3>5, <3>6, <3>8, <3>9 DEF Visits
  <2> QED BY <2>6, <2>7
<1>12. ReadInv(c, d)
  BY <1>7, <1>8, <1>11 DEF ReadInv
<1> QED BY <1>2, <1>6, <1>8, <1>9, <1>10, <1>12, LoadsCalm, ReaderFacts DEF Threads, ReadPcs, Other

LEMMA AnswerCalm ==
    ASSUME IInv, ~raced', Answer("worker")
    PROVE  Calm'
<1>1. /\ Calm /\ call["worker"].pc = "answer" /\ Step("worker", "answer", Idle)
      /\ UNCHANGED <<tables, slots, free_head>>
  BY DEF Answer, IInv, Step
<1>2. Acts("worker") /\ call'["worker"] = Idle
  BY <1>1, IdleFacts, StepActs DEF Threads
<1>3. Loads("worker", Idle)
  BY <1>1, <1>2 DEF Loads, UnsettledPcs, HoldsPcs, Idle
<1> QED BY <1>1, <1>2, <1>3, IdleFacts, LoadsCalm DEF Threads

-----------------------------------------------------------------------------
(* Steps of a call with a slot in its hands *)

\* what a step must show of the places t writes in to keep all
LEMMA KeptCalm ==
    ASSUME Calm, NEW t \in Threads, Acts(t), Keeps(t), Types', FreeInv', SlotsInv',
           \A b \in Buckets : Writes(t, b) =>
               /\ \A s \in Members(b)' : Owner[slot_id'[s]] = name_key'[b]
               /\ Settled(b)' \/ (call'[t].pc \in UnsettledPcs /\ call'[t].bucket = b),
           \A h \in IdBuckets : Enters(t, h) =>
               \/ Recs(h)' = {id_slot'[h]} \ {Nil}
               \/ call'[t].pc = "fill" /\ call'[t].id = call[t].id,
           SlotInv(call[t])', BucketInv(call[t])', EntryInv(call[t])',
           call'[t].pc \notin ReadPcs,
           call[Other(t)].pc \in ReadPcs => \A b \in Buckets : Writes(t, b) => Grows(t, b)
    PROVE  Calm'
<1>1. Apart' /\ Distinct'
  BY KeptApart
<1>2. BucketsInv'
  BY KeptBuckets
<1>3. IdsInv'
  BY KeptIds
<1>4. CallsInv'
  BY KeptSlotInv, KeptBucketInv, KeptEntryInv, ThreadsFacts DEF CallsInv
<1>5. ReadsInv'
  BY KeptReads
<1> QED BY <1>1, <1>2, <1>3, <1>4, <1>5 DEF Calm

\* a bucket is as the one call that writes in it has left it
LEMMA OwnSettled ==
    ASSUME Calm, NEW t \in Threads, NEW b \in Buckets, Writes(t, b),
           call[t].pc \notin UnsettledPcs
    PROVE  Settled(b)
<1>1. ~Unsettling(b)
  BY ThreadsFacts, ApartFacts DEF Calm, Unsettling, Writes, Meet, Writing, UnsettledPcs
<1> QED BY <1>1 DEF Calm, BucketsInv

Holding(t) ==
    /\ call[t].pc \in HoldsPcs \ {"push"}
    /\ call'[t].pc \in HoldsPcs /\ call'[t].slot = call[t].slot
    /\ call'[t].id = call[t].id /\ call'[t].bucket = call[t].bucket
    /\ free_head' = free_head
    /\ \A q \in Slots \ {call[t].slot} :
           /\ is_used'[q] = is_used[q]
           /\ slot_bucket'[q] = slot_bucket[q] /\ slot_id'[q] = slot_id[q]
    /\ \A q \in Slots \ ({call[t].slot} \cup Members(call[t].bucket)) :
           next_index'[q] = next_index[q] /\ prev_index'[q] = prev_index[q]
    /\ \/ slot_id'[call[t].slot] = slot_id[call[t].slot]
       \/ /\ slot_id[call[t].slot] \in {NoId, call[t].id}
          /\ slot_id'[call[t].slot] \in {NoId, call[t].id}
    /\ ~is_used'[call[t].slot] => slot_id'[call[t].slot] = NoId
    /\ \A b \in Buckets : b # call[t].bucket =>
           name_key'[b] = name_key[b] /\ head_slot_idx'[b] = head_slot_idx[b]
    /\ \A h \in IdBuckets : id_slot'[h] = id_slot[h] \/ Enters(t, h)

LEMMA HoldingFacts ==
    ASSUME Calm, NEW t \in Threads, Acts(t), Holding(t)
    PROVE  /\ Keeps(t) /\ FreeInv' /\ SlotsInv'
           /\ \A b \in Buckets : Members(b)' = Members(b) /\ call[t].slot \notin Members(b)
           /\ call[t].slot \in Slots /\ call'[t].slot = call[t].slot
<1>1. PICK s : s = call[t].slot
  OBVIOUS
<1>2. s \in Slots /\ call'[t].slot = s /\ InHand(s) /\ InHand(s)'
  BY <1>1, CallFacts DEF SlotInv, Holding, InHand
<1>3. \A q \in Slots : InHand(q)' <=> InHand(q)
  BY ThreadsFacts DEF InHand, Holding, Acts
<1>4. \A b \in Buckets : Members(b)' = Members(b) /\ s \notin Members(b)
  BY <1>1, <1>2, <1>3 DEF Members, Holding
<1>5. Unused' = Unused /\ s \notin Unused
  BY <1>1, <1>2, <1>3 DEF Unused, Holding
<1>6. Writing(call[t])
  BY DEF Holding, HoldsPcs, Writing
<1>7. FreeInv'
  <2>1. \A q \in Unused : next_index'[q] = next_index[q]
    BY <1>1, <1>5 DEF Unused, Members, Holding
  <2>2. IsList(next_index', free_head, Unused)
    BY <2>1, FreeFrame DEF Calm, FreeInv
  <2> QED BY <1>5, <2>2 DEF FreeInv, Holding
<1>8. SlotsInv'
  BY <1>1, <1>2, <1>3 DEF Calm, SlotsInv, Holding
<1>9. Keeps(t)
  <2>1. \A q \in Slots \ Mine(t) : SameSlot(q)
    BY <1>6 DEF Mine, SameSlot, Holding
  <2>2. \A q \in Mine(t) : \/ InHand(q)'
                           \/ slot_bucket'[q] = call[t].bucket /\ Writing(call[t])
    BY <1>1, <1>2, <1>6 DEF Mine, Members, Holding
  <2>3. \A q \in Slots : \/ slot_id'[q] = slot_id[q]
                         \/ /\ call[t].pc # "idle"
                            /\ slot_id[q] \in {NoId, call[t].id}
                            /\ slot_id'[q] \in {NoId, call[t].id}
    BY DEF Holding, HoldsPcs
  <2> QED BY <1>6, <2>1, <2>2, <2>3 DEF Keeps, Holding, Writes
<1> QED BY <1>1, <1>2, <1>4, <1>7, <1>8, <1>9

LEMMA HoldingCalm ==
    ASSUME Calm, NEW t \in Threads, Acts(t), Holding(t), Types',
           \A b \in Buckets : call[t].bucket = b =>
               /\ name_key'[b] = name_key[b] \/ Members(b) = {}
               /\ Settled(b)' \/ call'[t].pc \in UnsettledPcs
               /\ call[Other(t)].pc \in ReadPcs => Grows(t, b),
           \A h \in IdBuckets : Enters(t, h) =>
               Recs(h)' = {id_slot'[h]} \ {Nil} \/ call'[t].pc = "fill",
           SlotInv(call[t])', BucketInv(call[t])', EntryInv(call[t])'
    PROVE  Calm'
<1>1. /\ Keeps(t) /\ FreeInv' /\ SlotsInv'
      /\ \A b \in Buckets : Members(b)' = Members(b) /\ call[t].slot \notin Members(b)
      /\ call'[t].pc \notin ReadPcs /\ call'[t].id = call[t].id
      /\ call'[t].bucket = call[t].bucket
  BY HoldingFacts DEF Holding, HoldsPcs, ReadPcs
<1>2. ASSUME NEW b \in Buckets, Writes(t, b), NEW s \in Members(b)'
      PROVE  Owner[slot_id'[s]] = name_key'[b]
  <2>1. s \in Members(b) /\ name_key'[b] = name_key[b]
    BY <1>1, <1>2 DEF Writes
  <2>2. slot_id'[s] = slot_id[s]
    BY <1>1, <2>1 DEF Holding, Members
  <2> QED BY <2>1, <2>2 DEF Calm, BucketsInv
<1>3. \A b \in Buckets : Writes(t, b) =>
          /\ Settled(b)' \/ (call'[t].pc \in UnsettledPcs /\ call'[t].bucket = b)
          /\ call[Other(t)].pc \in ReadPcs => Grows(t, b)
  BY <1>1 DEF Writes
<1> QED BY <1>1, <1>2, <1>3, KeptCalm

\* a step that stores nothing into the bucket
LEMMA BucketHeld ==
    ASSUME Calm, NEW t \in Threads, Acts(t), Holding(t), NEW b \in Buckets, call[t].bucket = b,
           name_key'[b] = name_key[b], head_slot_idx'[b] = head_slot_idx[b],
           \A q \in Slots \ {call[t].slot} :
               next_index'[q] = next_index[q] /\ prev_index'[q] = prev_index[q]
    PROVE  /\ call[t].pc \notin UnsettledPcs => Settled(b)'
           /\ call'[t].pc # "first_head" => Grows(t, b)
<1>1. Members(b)' = Members(b) /\ call[t].slot \notin Members(b)
  BY HoldingFacts
<1>2. \A q \in Members(b) : /\ next_index'[q] = next_index[q] /\ prev_index'[q] = prev_index[q]
                            /\ slot_id'[q] = slot_id[q]
  BY <1>1 DEF Members, Holding
<1>3. Settled(b) => Settled(b)'
  <2>1. IsDoubleList(next_index, prev_index, head_slot_idx[b], Members(b))
          => IsDoubleList(next_index', prev_index', head_slot_idx[b], Members(b))
    BY <1>2, DoubleFrame
  <2> QED BY <1>1, <2>1 DEF Settled
<1>4. Writes(t, b)
  BY DEF Writes, Writing, Holding, HoldsPcs
<1> QED BY <1>1, <1>2, <1>3, <1>4, OwnSettled DEF Grows, HalfNamed

\* an id entry is exact but for the one call that writes in it
LEMMA OwnEntry ==
    ASSUME Calm, NEW t \in Threads, NEW h \in IdBuckets, Enters(t, h), call[t].pc # "fill"
    PROVE  Recs(h) = {id_slot[h]} \ {Nil}
<1>1. ASSUME Filling(h) PROVE FALSE
  <2>1. PICK d \in Calls : d = call[Other(t)]
    BY ThreadsFacts, CallFacts
  <2>2. d.pc = "fill" /\ IdHash[d.id] = h /\ EntryInv(d) /\ ~Meet(call[t], d)
    BY <1>1, <2>1, ThreadsFacts, CallFacts, ApartFacts DEF Filling, Calm
  <2>3. d.id \in Ids
    BY <2>2 DEF EntryInv, AppendPcs
  <2> QED BY <2>2, <2>3, RaceAssumption DEF Enters, Meet, OnIdEntry
<1> QED BY <1>1 DEF Calm, IdsInv

\* the call of t with another pc
LEMMA ToFacts ==
    ASSUME IInv, ~raced', NEW t \in Threads, NEW from, NEW pc, Step(t, from, To(t, pc)),
           pc \in AppendPcs \cup DeletePcs \cup ReadPcs
    PROVE  /\ Calm /\ Types /\ Acts(t) /\ call[t].pc = from
           /\ \E e, c \in Calls :
                /\ e = call[t] /\ e.pc = from
                /\ SlotInv(e) /\ BucketInv(e) /\ EntryInv(e)
                /\ c = call'[t] /\ c.pc = pc /\ c.id = e.id /\ c.key = e.key
                /\ c.bucket = e.bucket /\ c.slot = e.slot /\ c.next = e.next /\ c.prev = e.prev
<1>1. Calm /\ Types /\ call[t].pc = from
  BY DEF IInv, Step, Calm
<1>2. PICK e \in Calls : e = call[t]
  BY <1>1, CallFacts
<1>3. PICK c : c = To(t, pc)
  OBVIOUS
<1>4. /\ c \in Calls /\ c.pc = pc /\ c.id = e.id /\ c.key = e.key
      /\ c.bucket = e.bucket /\ c.slot = e.slot /\ c.next = e.next /\ c.prev = e.prev
  BY <1>2, <1>3 DEF To, Calls
<1>5. Acts(t) /\ c = call'[t]
  BY <1>3, <1>4, StepActs
<1>6. SlotInv(e) /\ BucketInv(e) /\ EntryInv(e)
  BY <1>1, <1>2, CallFacts
<1> QED BY <1>1, <1>2, <1>4, <1>5, <1>6

LEMMA TakeCalm ==
    ASSUME IInv, ~raced', NEW t \in Threads, Take(t)
    PROVE  Calm'
<1>1. Calm /\ Types /\ Acts(t) /\ call[t].pc = "take"
  BY ToFacts DEF Take, AppendPcs
<1>2. PICK e, c \in Calls :
        /\ e = call[t] /\ e.pc = "take"
        /\ SlotInv(e) /\ BucketInv(e) /\ EntryInv(e)
        /\ c = call'[t] /\ c.pc = "reset" /\ c.id = e.id /\ c.key = e.key
        /\ c.bucket = e.bucket /\ c.slot = e.slot /\ c.next = e.next /\ c.prev = e.prev
  BY ToFacts DEF Take, AppendPcs
<1>3. /\ is_used' = [is_used EXCEPT ![e.slot] = TRUE]
      /\ name_key' = name_key /\ head_slot_idx' = head_slot_idx /\ id_slot' = id_slot
      /\ next_index' = next_index /\ prev_index' = prev_index
      /\ slot_id' = slot_id /\ slot_bucket' = slot_bucket /\ free_head' = free_head
  BY <1>2 DEF Take, tables
<1>4. e.slot \in Slots /\ ~is_used[e.slot]
  BY <1>2 DEF SlotInv, HoldsPcs
<1>5. is_used' \in [Slots -> BOOLEAN] /\ is_used'[e.slot] = TRUE
      /\ \A q \in Slots \ {e.slot} : is_used'[q] = is_used[q]
  BY <1>1, <1>3, <1>4 DEF Types
<1>6. slot_id[e.slot] = NoId
  BY <1>1, <1>4 DEF Calm, SlotsInv
<1>7. Types'
  BY <1>1, <1>2, <1>3, <1>5, ThreadsFacts DEF Types, Acts, AppendPcs, Threads, Other
<1>8. Holding(t)
  BY <1>2, <1>3, <1>5 DEF Holding, HoldsPcs
<1>9. SlotInv(call[t])'
  <2>1. SlotInv(c)'
    BY <1>2, <1>3, <1>4, <1>5, <1>6 DEF SlotInv, HoldsPcs
  <2> QED BY <1>2, <2>1 DEF SlotInv
<1>10. BucketInv(call[t])'
  <2>1. BucketInv(c)'
    BY <1>2, <1>3 DEF BucketInv, Half, Writing, AppendPcs
  <2> QED BY <1>2, <2>1 DEF BucketInv
<1>11. EntryInv(call[t])'
  <2>1. EntryInv(c)'
    BY <1>2, <1>3 DEF EntryInv, Tested, AppendPcs
  <2> QED BY <1>2, <2>1 DEF EntryInv
<1>12. ASSUME NEW b \in Buckets, call[t].bucket = b
       PROVE  Settled(b)' /\ Grows(t, b)
  BY <1>1, <1>2, <1>3, <1>8, <1>12, BucketHeld DEF UnsettledPcs
<1>13. ASSUME NEW h \in IdBuckets, Enters(t, h)
       PROVE  Recs(h)' = {id_slot'[h]} \ {Nil}
  BY <1>1, <1>3, <1>13, OwnEntry DEF Recs
<1> QED BY <1>1, <1>3, <1>7, <1>8, <1>9, <1>10, <1>11, <1>12, <1>13, HoldingCalm

LEMMA ResetCalm ==
    ASSUME IInv, ~raced', NEW t \in Threads, Reset(t)
    PROVE  Calm'
<1>1. Calm /\ Types /\ Acts(t) /\ call[t].pc = "reset"
  BY ToFacts DEF Reset, AppendPcs
<1>2. PICK e, c \in Calls :
        /\ e = call[t] /\ e.pc = "reset"
        /\ SlotInv(e) /\ BucketInv(e) /\ EntryInv(e)
        /\ c = call'[t] /\ c.pc = "store_id" /\ c.id = e.id /\ c.key = e.key
        /\ c.bucket = e.bucket /\ c.slot = e.slot /\ c.next = e.next /\ c.prev = e.prev
  BY ToFacts DEF Reset, AppendPcs
<1>3. /\ next_index' = [next_index EXCEPT ![e.slot] = Nil]
      /\ prev_index' = [prev_index EXCEPT ![e.slot] = Nil]
      /\ name_key' = name_key /\ head_slot_idx' = head_slot_idx /\ id_slot' = id_slot
      /\ is_used' = is_used /\ slot_id' = slot_id /\ slot_bucket' = slot_bucket
      /\ free_head' = free_head
  BY <1>2 DEF Reset, tables
<1>4. e.slot \in Slots /\ is_used[e.slot] /\ slot_id[e.slot] = NoId
  BY <1>2 DEF SlotInv, HoldsPcs
<1>5. /\ next_index' \in [Slots -> SlotOrNil] /\ next_index'[e.slot] = Nil
      /\ prev_index' \in [Slots -> SlotOrNil] /\ prev_index'[e.slot] = Nil
      /\ \A q \in Slots \ {e.slot} :
             next_index'[q] = next_index[q] /\ prev_index'[q] = prev_index[q]
  BY <1>1, <1>3, <1>4 DEF Types, SlotOrNil
<1>6. Types'
  BY <1>1, <1>2, <1>3, <1>5, ThreadsFacts DEF Types, Acts, AppendPcs, Threads, Other
<1>7. Holding(t)
  BY <1>2, <1>3, <1>4, <1>5 DEF Holding, HoldsPcs
<1>8. SlotInv(call[t])'
  <2>1. SlotInv(c)'
    BY <1>2, <1>3, <1>4, <1>5 DEF SlotInv, HoldsPcs
  <2> QED BY <1>2, <2>1 DEF SlotInv
<1>9. BucketInv(call[t])'
  <2>1. BucketInv(c)'
    BY <1>2, <1>3 DEF BucketInv, Half, Writing, AppendPcs
  <2> QED BY <1>2, <2>1 DEF BucketInv
<1>10. EntryInv(call[t])'
  <2>1. EntryInv(c)'
    BY <1>2, <1>3 DEF EntryInv, Tested, AppendPcs
  <2> QED BY <1>2, <2>1 DEF EntryInv
<1>11. ASSUME NEW b \in Buckets, call[t].bucket = b
       PROVE  Settled(b)' /\ Grows(t, b)
  BY <1>1, <1>2, <1>3, <1>5, <1>7, <1>11, BucketHeld DEF UnsettledPcs
<1>12. ASSUME NEW h \in IdBuckets, Enters(t, h)
       PROVE  Recs(h)' = {id_slot'[h]} \ {Nil}
  BY <1>1, <1>3, <1>12, OwnEntry DEF Recs
<1> QED BY <1>1, <1>3, <1>6, <1>7, <1>8, <1>9, <1>10, <1>11, <1>12, HoldingCalm

LEMMA StoreIdCalm ==
    ASSUME IInv, ~raced', NEW t \in Threads, StoreId(t)
    PROVE  Calm'
<1>1. Calm /\ Types /\ Acts(t) /\ call[t].pc = "store_id"
  BY ToFacts DEF StoreId, AppendPcs
<1>2. PICK e, c \in Calls :
        /\ e = call[t] /\ e.pc = "store_id"
        /\ SlotInv(e) /\ BucketInv(e) /\ EntryInv(e)
        /\ c = call'[t] /\ c.pc = "fill" /\ c.id = e.id /\ c.key = e.key
        /\ c.bucket = e.bucket /\ c.slot = e.slot /\ c.next = e.next /\ c.prev = e.prev
  BY ToFacts DEF StoreId, AppendPcs
<1>3. /\ id_slot' = [id_slot EXCEPT ![IdHash[e.id]] = e.slot]
      /\ name_key' = name_key /\ head_slot_idx' = head_slot_idx
      /\ next_index' = next_index /\ prev_index' = prev_index
      /\ is_used' = is_used /\ slot_id' = slot_id /\ slot_bucket' = slot_bucket
      /\ free_head' = free_head
  BY <1>2 DEF StoreId, slots
<1>4. /\ e.slot \in Slots /\ is_used[e.slot] /\ slot_id[e.slot] = NoId
      /\ next_index[e.slot] = Nil /\ prev_index[e.slot] = Nil
  BY <1>2 DEF SlotInv, HoldsPcs
<1>5. e.id \in Ids /\ IdHash[e.id] \in IdBuckets
  BY <1>2, RaceAssumption DEF EntryInv, AppendPcs
<1>6. /\ id_slot' \in [IdBuckets -> SlotOrNil] /\ id_slot'[IdHash[e.id]] = e.slot
      /\ \A h \in IdBuckets : h # IdHash[e.id] => id_slot'[h] = id_slot[h]
  BY <1>1, <1>3, <1>4, <1>5 DEF Types, SlotOrNil
<1>7. Types'
  BY <1>1, <1>2, <1>3, <1>6, ThreadsFacts DEF Types, Acts, AppendPcs, Threads, Other
<1>8. Holding(t)
  BY <1>1, <1>2, <1>3, <1>4, <1>5, <1>6 DEF Holding, HoldsPcs, Enters
<1>9. SlotInv(call[t])'
  <2>1. SlotInv(c)'
    BY <1>2, <1>3, <1>4 DEF SlotInv, HoldsPcs
  <2> QED BY <1>2, <2>1 DEF SlotInv
<1>10. BucketInv(call[t])'
  <2>1. BucketInv(c)'
    BY <1>2, <1>3 DEF BucketInv, Half, Writing, AppendPcs
  <2> QED BY <1>2, <2>1 DEF BucketInv
<1>11. EntryInv(call[t])'
  <2>1. PICK h \in IdBuckets : h = IdHash[e.id]
    BY <1>5
  <2>2. id_slot[h] = Nil
    BY <1>2, <1>5, <2>1 DEF EntryInv, Tested
  <2>3. Recs(h) = {}
    BY <1>1, <1>2, <1>5, <2>1, <2>2, OwnEntry DEF Enters
  <2>4. Tested(c, h)'
    BY <1>2, <1>3, <1>6, <2>1, <2>3 DEF Tested, Recs
  <2>5. EntryInv(c)'
    BY <1>2, <1>5, <2>1, <2>4 DEF EntryInv
  <2> QED BY <1>2, <2>5 DEF EntryInv
<1>12. ASSUME NEW b \in Buckets, call[t].bucket = b
       PROVE  Settled(b)' /\ Grows(t, b)
  BY <1>1, <1>2, <1>3, <1>8, <1>12, BucketHeld DEF UnsettledPcs
<1> QED BY <1>1, <1>2, <1>3, <1>7, <1>8, <1>9, <1>10, <1>11, <1>12, HoldingCalm

LEMMA FillCalm ==
    ASSUME IInv, ~raced', NEW t \in Threads, Fill(t)
    PROVE  Calm'
<1>1. Calm /\ Types /\ Acts(t) /\ call[t].pc = "fill"
  BY ToFacts DEF Fill, AppendPcs
<1>2. PICK e, c \in Calls :
        /\ e = call[t] /\ e.pc = "fill"
        /\ SlotInv(e) /\ BucketInv(e) /\ EntryInv(e)
        /\ c = call'[t] /\ c.pc = "test_name" /\ c.id = e.id /\ c.key = e.key
        /\ c.bucket = e.bucket /\ c.slot = e.slot /\ c.next = e.next /\ c.prev = e.prev
  BY ToFacts DEF Fill, AppendPcs
<1>3. /\ slot_id' = [slot_id EXCEPT ![e.slot] = e.id]
      /\ slot_bucket' = [slot_bucket EXCEPT ![e.slot] = e.bucket]
      /\ is_used' = [is_used EXCEPT ![e.slot] = TRUE]
      /\ name_key' = name_key /\ head_slot_idx' = head_slot_idx /\ id_slot' = id_slot
      /\ next_index' = next_index /\ prev_index' = prev_index /\ free_head' = free_head
  BY <1>2 DEF Fill, tables
<1>4. /\ e.slot \in Slots /\ is_used[e.slot] /\ slot_id[e.slot] = NoId
      /\ next_index[e.slot] = Nil /\ prev_index[e.slot] = Nil
  BY <1>2 DEF SlotInv, HoldsPcs
<1>5. /\ e.id \in Ids /\ IdHash[e.id] \in IdBuckets /\ e.bucket \in Buckets
  BY <1>2, RaceAssumption DEF EntryInv, BucketInv, Writing, AppendPcs
<1>6. /\ slot_id' \in [Slots -> Ids \cup {NoId}] /\ slot_id'[e.slot] = e.id
      /\ slot_bucket' \in [Slots -> Buckets \cup {NoBucket}] /\ slot_bucket'[e.slot] = e.bucket
      /\ is_used' \in [Slots -> BOOLEAN] /\ is_used'[e.slot] = TRUE
      /\ \A q \in Slots \ {e.slot} : /\ slot_id'[q] = slot_id[q] /\ is_used'[q] = is_used[q]
                                     /\ slot_bucket'[q] = slot_bucket[q]
  BY <1>1, <1>3, <1>4, <1>5 DEF Types
<1>7. Types'
  BY <1>1, <1>2, <1>3, <1>6, ThreadsFacts DEF Types, Acts, AppendPcs, Threads, Other
<1>8. Holding(t)
  BY <1>2, <1>3, <1>4, <1>6 DEF Holding, HoldsPcs
<1>9. SlotInv(call[t])'
  <2>1. SlotInv(c)'
    BY <1>2, <1>3, <1>4, <1>6 DEF SlotInv, HoldsPcs
  <2> QED BY <1>2, <2>1 DEF SlotInv
<1>10. BucketInv(call[t])'
  <2>1. BucketInv(c)'
    BY <1>2, <1>3 DEF BucketInv, Half, Writing, AppendPcs
  <2> QED BY <1>2, <2>1 DEF BucketInv
<1>11. EntryInv(call[t])'
  <2>1. EntryInv(c)'
    BY <1>2, <1>3 DEF EntryInv, Tested, AppendPcs
  <2> QED BY <1>2, <2>1 DEF EntryInv
<1>12. ASSUME NEW b \in Buckets, call[t].bucket = b
       PROVE  Settled(b)' /\ Grows(t, b)
  BY <1>1, <1>2, <1>3, <1>8, <1>12, BucketHeld DEF UnsettledPcs
<1>13. ASSUME NEW h \in IdBuckets, Enters(t, h)
       PROVE  Recs(h)' = {id_slot'[h]} \ {Nil}
  <2>1. h = IdHash[e.id] /\ id_slot[h] = e.slot /\ Recs(h) = {}
    BY <1>2, <1>5, <1>13 DEF Enters, EntryInv, Tested
  <2>2. \A q \in Slots : q \in Recs(h)' <=> q = e.slot
    BY <1>4, <1>5, <1>6, <2>1 DEF Recs
  <2>3. Recs(h)' = {e.slot}
    BY <1>4, <2>2 DEF Recs
  <2> QED BY <1>3, <1>4, <2>1, <2>3, SlotsFacts
<1> QED BY <1>1, <1>3, <1>7, <1>8, <1>9, <1>10, <1>11, <1>12, <1>13, HoldingCalm

LEMMA NameCalm ==
    ASSUME IInv, ~raced', NEW t \in Threads, Name(t)
    PROVE  Calm'
<1>1. Calm /\ Types /\ Acts(t) /\ call[t].pc = "name"
  BY ToFacts DEF Name, AppendPcs
<1>2. PICK e, c \in Calls :
        /\ e = call[t] /\ e.pc = "name"
        /\ SlotInv(e) /\ BucketInv(e) /\ EntryInv(e)
        /\ c = call'[t] /\ c.pc = "qtype" /\ c.id = e.id /\ c.key = e.key
        /\ c.bucket = e.bucket /\ c.slot = e.slot /\ c.next = e.next /\ c.prev = e.prev
  BY ToFacts DEF Name, AppendPcs
<1>3. /\ name_key' = [name_key EXCEPT ![e.bucket] = HashOnly]
      /\ head_slot_idx' = head_slot_idx /\ id_slot' = id_slot
      /\ next_index' = next_index /\ prev_index' = prev_index
      /\ is_used' = is_used /\ slot_id' = slot_id /\ slot_bucket' = slot_bucket
      /\ free_head' = free_head
  BY <1>2 DEF Name, slots
<1>4. PICK b \in Buckets : b = e.bucket /\ Half(e, b) /\ e.key \in Keys /\ Owner[e.id] = e.key
  BY <1>2 DEF BucketInv, Writing, AppendPcs
<1>5. Members(b) = {} /\ name_key[b] \notin Keys
  <2>1. name_key[b] = NoKey
    BY <1>2, <1>4 DEF Half
  <2>2. Settled(b)
    BY <1>1, <1>2, <1>4, OwnSettled DEF Writes, Writing, UnsettledPcs
  <2> QED BY <2>1, <2>2, RaceAssumption DEF Settled
<1>6. /\ name_key' \in [Buckets -> Keys \cup {NoKey, HashOnly}] /\ name_key'[b] = HashOnly
      /\ \A d \in Buckets : d # b => name_key'[d] = name_key[d]
  BY <1>1, <1>3, <1>4 DEF Types
<1>7. Types'
  BY <1>1, <1>2, <1>3, <1>6, ThreadsFacts DEF Types, Acts, AppendPcs, Threads, Other
<1>8. Holding(t)
  <2>1. is_used[e.slot]
    BY <1>2 DEF SlotInv, HoldsPcs
  <2> QED BY <1>2, <1>3, <1>4, <1>6, <2>1 DEF Holding, HoldsPcs
<1>9. Members(b)' = {}
  BY <1>1, <1>5, <1>8, HoldingFacts
<1>10. SlotInv(call[t])'
  <2>1. SlotInv(c)'
    BY <1>2, <1>3 DEF SlotInv, HoldsPcs
  <2> QED BY <1>2, <2>1 DEF SlotInv
<1>11. BucketInv(call[t])'
  <2>1. Half(c, b)'
    BY <1>2, <1>6, <1>9 DEF Half, AppendPcs
  <2>2. BucketInv(c)'
    BY <1>2, <1>4, <2>1 DEF BucketInv
  <2> QED BY <1>2, <2>2 DEF BucketInv
<1>12. EntryInv(call[t])'
  <2>1. EntryInv(c)'
    BY <1>2, <1>3 DEF EntryInv, Tested, AppendPcs
  <2> QED BY <1>2, <2>1 DEF EntryInv
<1>13. Grows(t, b) /\ call'[t].pc \in UnsettledPcs
  BY <1>2, <1>5 DEF Grows, UnsettledPcs
<1>14. ASSUME NEW h \in IdBuckets, Enters(t, h)
       PROVE  Recs(h)' = {id_slot'[h]} \ {Nil}
  BY <1>1, <1>3, <1>14, OwnEntry DEF Recs
<1>15. \A a \in Buckets : call[t].bucket = a => a = b
  BY <1>2, <1>4
<1> QED BY <1>1, <1>5, <1>7, <1>8, <1>10, <1>11, <1>12, <1>13, <1>14, <1>15, HoldingCalm

LEMMA QtypeCalm ==
    ASSUME IInv, ~raced', NEW t \in Threads, Qtype(t)
    PROVE  Calm'
<1>1. Calm /\ Types /\ Acts(t) /\ call[t].pc = "qtype"
  BY ToFacts DEF Qtype, AppendPcs
<1>2. PICK e, c \in Calls :
        /\ e = call[t] /\ e.pc = "qtype"
        /\ SlotInv(e) /\ BucketInv(e) /\ EntryInv(e)
        /\ c = call'[t] /\ c.pc = "first_head" /\ c.id = e.id /\ c.key = e.key
        /\ c.bucket = e.bucket /\ c.slot = e.slot /\ c.next = e.next /\ c.prev = e.prev
  BY ToFacts DEF Qtype, AppendPcs
<1>3. /\ name_key' = [name_key EXCEPT ![e.bucket] = e.key]
      /\ head_slot_idx' = head_slot_idx /\ id_slot' = id_slot
      /\ next_index' = next_index /\ prev_index' = prev_index
      /\ is_used' = is_used /\ slot_id' = slot_id /\ slot_bucket' = slot_bucket
      /\ free_head' = free_head
  BY <1>2 DEF Qtype, slots
<1>4. PICK b \in Buckets : b = e.bucket /\ Half(e, b) /\ e.key \in Keys /\ Owner[e.id] = e.key
  BY <1>2 DEF BucketInv, Writing, AppendPcs
<1>5. Members(b) = {} /\ name_key[b] \notin Keys
  BY <1>2, <1>4, RaceAssumption DEF Half
<1>6. /\ name_key' \in [Buckets -> Keys \cup {NoKey, HashOnly}] /\ name_key'[b] = e.key
      /\ \A d \in Buckets : d # b => name_key'[d] = name_key[d]
  BY <1>1, <1>3, <1>4 DEF Types
<1>7. Types'
  BY <1>1, <1>2, <1>3, <1>6, ThreadsFacts DEF Types, Acts, AppendPcs, Threads, Other
<1>8. Holding(t)
  <2>1. is_used[e.slot]
    BY <1>2 DEF SlotInv, HoldsPcs
  <2> QED BY <1>2, <1>3, <1>4, <1>6, <2>1 DEF Holding, HoldsPcs
<1>9. Members(b)' = {}
  BY <1>1, <1>5, <1>8, HoldingFacts
<1>10. SlotInv(call[t])'
  <2>1. SlotInv(c)'
    BY <1>2, <1>3 DEF SlotInv, HoldsPcs
  <2> QED BY <1>2, <2>1 DEF SlotInv
<1>11. BucketInv(call[t])'
  <2>1. Half(c, b)'
    BY <1>2, <1>6, <1>9 DEF Half, AppendPcs
  <2>2. BucketInv(c)'
    BY <1>2, <1>4, <2>1 DEF BucketInv
  <2> QED BY <1>2, <2>2 DEF BucketInv
<1>12. EntryInv(call[t])'
  <2>1. EntryInv(c)'
    BY <1>2, <1>3 DEF EntryInv, Tested, AppendPcs
  <2> QED BY <1>2, <2>1 DEF EntryInv
<1>13. Grows(t, b) /\ call'[t].pc \in UnsettledPcs
  BY <1>2, <1>5 DEF Grows, UnsettledPcs
<1>14. ASSUME NEW h \in IdBuckets, Enters(t, h)
       PROVE  Recs(h)' = {id_slot'[h]} \ {Nil}
  BY <1>1, <1>3, <1>14, OwnEntry DEF Recs
<1>15. \A a \in Buckets : call[t].bucket = a => a = b
  BY <1>2, <1>4
<1> QED BY <1>1, <1>5, <1>7, <1>8, <1>10, <1>11, <1>12, <1>13, <1>14, <1>15, HoldingCalm

\* the store that chains the slot in hand
Chaining(t) ==
    /\ call[t].pc \in {"first_head", "new_head"} /\ call'[t].pc \in {"ends", "idle"}
    /\ head_slot_idx' = [head_slot_idx EXCEPT ![call[t].bucket] = call[t].slot]
    /\ UNCHANGED <<name_key, id_slot, slots, free_head>>

LEMMA ChainingFacts ==
    ASSUME Calm, NEW t \in Threads, Acts(t), Chaining(t)
    PROVE  /\ Keeps(t) /\ Types' /\ FreeInv' /\ SlotsInv'
           /\ call[t].slot \in Slots
           /\ \A b \in Buckets : call[t].bucket = b =>
                /\ head_slot_idx'[b] = call[t].slot
                /\ Members(b)' = Members(b) \cup {call[t].slot} /\ call[t].slot \notin Members(b)
<1>1. PICK e \in Calls : e = call[t] /\ SlotInv(e) /\ BucketInv(e) /\ EntryInv(e)
  BY CallFacts
<1>2. PICK s \in Slots : s = e.slot
  BY <1>1 DEF SlotInv, Chaining, HoldsPcs
<1>3. PICK b \in Buckets : b = e.bucket /\ Writing(e)
  BY <1>1 DEF BucketInv, Writing, Chaining
<1>4. /\ name_key' = name_key /\ id_slot' = id_slot /\ next_index' = next_index
      /\ prev_index' = prev_index /\ is_used' = is_used /\ slot_id' = slot_id
      /\ slot_bucket' = slot_bucket /\ free_head' = free_head
      /\ e.pc \in {"first_head", "new_head"} /\ call'[t].pc \in {"ends", "idle"}
  BY <1>1 DEF Chaining, slots
<1>5. is_used[s] /\ slot_id[s] = e.id /\ slot_bucket[s] = b /\ e.id \in Ids
  BY <1>1, <1>2, <1>3, <1>4 DEF SlotInv, HoldsPcs, EntryInv, AppendPcs
<1>6. /\ head_slot_idx' \in [Buckets -> SlotOrNil] /\ head_slot_idx'[b] = s
      /\ \A d \in Buckets : d # b => head_slot_idx'[d] = head_slot_idx[d]
  BY <1>1, <1>2, <1>3 DEF Calm, Types, Chaining, SlotOrNil
<1>7. Types'
  BY <1>4, <1>6, CallFacts, ThreadsFacts DEF Calm, Types, Acts, AppendPcs, Threads, Other
<1>8. InHand(s) /\ ~InHand(s)'
  <2>1. InHand(s)
    BY <1>1, <1>2, <1>4 DEF InHand, HoldsPcs
  <2>2. ~(call[Other(t)].pc \in HoldsPcs /\ call[Other(t)].slot = s)
    BY <1>1, <1>2, <1>4, ThreadsFacts DEF Calm, Distinct, HoldsPcs
  <2> QED BY <1>4, <2>1, <2>2, ThreadsFacts DEF InHand, Acts, HoldsPcs
<1>9. \A q \in Slots \ {s} : InHand(q)' <=> InHand(q)
  BY <1>1, <1>2, <1>4, ThreadsFacts DEF InHand, Acts, HoldsPcs
<1>10. Members(b)' = Members(b) \cup {s} /\ s \notin Members(b)
  BY <1>4, <1>5, <1>8, <1>9 DEF Members
<1>11. \A q \in Mine(t) : /\ is_used[q] /\ slot_bucket[q] = b /\ slot_id[q] \in Ids
                         /\ Writing(call[t]) /\ b = call[t].bucket
  BY <1>1, <1>2, <1>3, <1>4, <1>5 DEF Mine, Members, Calm, SlotsInv
<1>12. Keeps(t)
  BY <1>1, <1>3, <1>4, <1>6, <1>11 DEF Keeps, SameSlot, Writes, HoldsPcs, UnsettledPcs
<1>13. FreeInv'
  BY <1>1, <1>4, <1>11, <1>12, KeptFree DEF OnFreeList
<1>14. SlotsInv'
  BY <1>3, <1>4, <1>11, <1>12, KeptSlots
<1> QED BY <1>1, <1>2, <1>3, <1>6, <1>7, <1>10, <1>12, <1>13, <1>14

LEMMA FirstHeadCalm ==
    ASSUME IInv, ~raced', NEW t \in Threads, FirstHead(t)
    PROVE  Calm'
<1>1. Calm /\ Types /\ Acts(t) /\ call[t].pc = "first_head"
  BY ToFacts DEF FirstHead, AppendPcs
<1>2. PICK e, c \in Calls :
        /\ e = call[t] /\ e.pc = "first_head"
        /\ SlotInv(e) /\ BucketInv(e) /\ EntryInv(e)
        /\ c = call'[t] /\ c.pc = "ends" /\ c.id = e.id /\ c.key = e.key
        /\ c.bucket = e.bucket /\ c.slot = e.slot /\ c.next = e.next /\ c.prev = e.prev
  BY ToFacts DEF FirstHead, AppendPcs
<1>3. /\ name_key' = name_key /\ id_slot' = id_slot /\ next_index' = next_index
      /\ prev_index' = prev_index /\ is_used' = is_used /\ slot_id' = slot_id
      /\ slot_bucket' = slot_bucket /\ free_head' = free_head
  BY DEF FirstHead, slots
<1>4. Chaining(t)
  BY <1>2 DEF Chaining, FirstHead
<1>5. PICK b \in Buckets : b = e.bucket /\ Half(e, b) /\ e.key \in Keys /\ Owner[e.id] = e.key
  BY <1>2 DEF BucketInv, Writing, AppendPcs
<1>6. PICK s \in Slots : s = e.slot /\ is_used[s] /\ slot_id[s] = e.id /\ slot_bucket[s] = b
                         /\ next_index[s] = Nil /\ prev_index[s] = Nil
  BY <1>2, <1>5 DEF SlotInv, HoldsPcs
<1>7. Members(b) = {} /\ name_key[b] = e.key
  BY <1>2, <1>5 DEF Half
<1>8. /\ Keeps(t) /\ Types' /\ FreeInv' /\ SlotsInv'
      /\ head_slot_idx'[b] = s /\ Members(b)' = {s}
  BY <1>1, <1>2, <1>4, <1>5, <1>6, <1>7, ChainingFacts
<1>9. Settled(b)'
  <2>1. IsDoubleList(next_index, prev_index, s, {s})
    BY <1>6, DoubleNew
  <2> QED BY <1>3, <1>5, <1>7, <1>8, <2>1, RaceAssumption DEF Settled
<1>10. SlotInv(call[t])'
  <2>1. SlotInv(c)'
    BY <1>2, <1>3, <1>5, <1>6 DEF SlotInv, HoldsPcs
  <2> QED BY <1>2, <2>1 DEF SlotInv
<1>11. BucketInv(call[t])'
  <2>1. Half(c, b)'
    BY <1>2, <1>3, <1>6, <1>7, <1>8 DEF Half
  <2>2. BucketInv(c)'
    BY <1>2, <1>5, <2>1 DEF BucketInv
  <2> QED BY <1>2, <2>2 DEF BucketInv
<1>12. EntryInv(call[t])'
  <2>1. EntryInv(c)'
    BY <1>2, <1>3 DEF EntryInv, Tested, AppendPcs
  <2> QED BY <1>2, <2>1 DEF EntryInv
<1>13. ASSUME NEW h \in IdBuckets, Enters(t, h)
       PROVE  Recs(h)' = {id_slot'[h]} \ {Nil}
  BY <1>1, <1>3, <1>13, OwnEntry DEF Recs
<1>14. \A a \in Buckets : Writes(t, a) => a = b
  BY <1>2, <1>5 DEF Writes
<1>15. \A q \in Members(b)' : Owner[slot_id'[q]] = name_key'[b]
  BY <1>3, <1>5, <1>6, <1>7, <1>8
<1>16. Grows(t, b) /\ call'[t].pc \notin ReadPcs
  BY <1>2, <1>3, <1>7 DEF Grows, HalfNamed, ReadPcs
<1> QED BY <1>1, <1>8, <1>9, <1>10, <1>11, <1>12, <1>13, <1>14, <1>15, <1>16, KeptCalm

LEMMA EndsCalm ==
    ASSUME IInv, ~raced', NEW t \in Threads, Ends(t)
    PROVE  Calm'
<1>1. Calm /\ Types /\ call[t].pc = "ends" /\ Step(t, "ends", Idle)
  BY DEF Ends, IInv, Step, Calm
<1>2. Acts(t) /\ call'[t] = Idle
  BY <1>1, IdleFacts, StepActs
<1>3. PICK s \in Slots : s = call[t].slot /\ next_index[s] = Nil /\ prev_index[s] = Nil
  BY <1>1, CallFacts, ChainedMine DEF SlotInv, Mine
<1>4. next_index' = next_index /\ prev_index' = prev_index
  BY <1>1, <1>3 DEF Ends, Types
<1>5. Loads(t, Idle)
  BY <1>1, <1>2, <1>4 DEF Loads, Ends, slots, UnsettledPcs, HoldsPcs, Idle
<1> QED BY <1>1, <1>2, <1>5, IdleFacts, LoadsCalm

LEMMA LinkCalm ==
    ASSUME IInv, ~raced', NEW t \in Threads, Link(t)
    PROVE  Calm'
<1>1. Calm /\ Types /\ call[t].pc = "link"
  BY DEF Link, IInv, Step, Calm
<1>2. PICK e \in Calls : e = call[t] /\ SlotInv(e) /\ BucketInv(e) /\ EntryInv(e)
  BY <1>1, CallFacts
<1>3. PICK b \in Buckets : b = e.bucket /\ Half(e, b) /\ e.key \in Keys /\ Writes(t, b)
  BY <1>1, <1>2 DEF BucketInv, Writing, AppendPcs, Writes
<1>4. PICK s \in Slots : s = e.slot /\ is_used[s] /\ slot_id[s] = e.id /\ slot_bucket[s] = b
                         /\ InHand(s)
  BY <1>1, <1>2, <1>3 DEF SlotInv, HoldsPcs, InHand
<1>5. PICK M \in SUBSET Slots : M = Members(b)
  BY DEF Members
<1>6. PICK head : head = head_slot_idx[b]
  OBVIOUS
<1>7. /\ name_key[b] = e.key /\ e.next = head
      /\ M # {} /\ IsDoubleList(next_index, prev_index, head, M)
  <2>1. Settled(b)
    BY <1>1, <1>3, OwnSettled DEF UnsettledPcs
  <2> QED BY <1>1, <1>2, <1>3, <1>5, <1>6, <2>1, RaceAssumption DEF Half, Settled
<1>8. IsFiniteSet(M) /\ Nil \notin M /\ s \notin M
  BY <1>4, <1>5, SlotsFacts DEF Members
<1>9. head \in M /\ head \in Slots /\ head # Nil /\ head # s /\ is_used[head]
  <2>1. head \in M
    BY <1>7, <1>8, DoubleIsList, HeadOfList
  <2> QED BY <1>5, <1>8, <2>1 DEF Members
<1>10. prev_index[head] = Nil
  BY <1>7, <1>8, <1>9, DoubleNeighbours
<1>11. /\ Step(t, "link", To(t, "new_head")) /\ InFront(s, head)
       /\ UNCHANGED <<tables, is_used, slot_id, slot_bucket, free_head>>
  BY <1>2, <1>4, <1>7, <1>9 DEF Link
<1>12. Acts(t)
  BY <1>11, ToFacts DEF AppendPcs
<1>13. PICK c \in Calls :
        /\ c = call'[t] /\ c.pc = "new_head" /\ c.id = e.id /\ c.key = e.key
        /\ c.bucket = b /\ c.slot = s
  BY <1>2, <1>3, <1>4, <1>11, ToFacts DEF AppendPcs
<1>14. /\ name_key' = name_key /\ head_slot_idx' = head_slot_idx /\ id_slot' = id_slot
       /\ is_used' = is_used /\ slot_id' = slot_id /\ slot_bucket' = slot_bucket
       /\ free_head' = free_head
  BY <1>11 DEF tables
<1>15. /\ next_index' \in [Slots -> SlotOrNil] /\ next_index'[s] = head
       /\ prev_index' \in [Slots -> SlotOrNil] /\ prev_index'[s] = Nil /\ prev_index'[head] = s
       /\ \A q \in Slots \ {s} : /\ next_index'[q] = next_index[q]
                                 /\ q # head => prev_index'[q] = prev_index[q]
  BY <1>1, <1>9, <1>11 DEF Types, InFront, SlotOrNil
<1>16. Types'
  BY <1>1, <1>12, <1>13, <1>14, <1>15, ThreadsFacts DEF Types, Acts, AppendPcs, Threads, Other
<1>17. Holding(t)
  BY <1>1, <1>2, <1>3, <1>4, <1>5, <1>9, <1>13, <1>14, <1>15 DEF Holding, HoldsPcs
<1>18. Members(b)' = M
  BY <1>1, <1>5, <1>12, <1>17, HoldingFacts
<1>19. IsDoubleList(next_index', Behind(head, Nil)', head, M)
  <2>1. \A q \in M : /\ next_index'[q] = next_index[q]
                     /\ Behind(head, Nil)'[q] = prev_index[q]
    BY <1>8, <1>10, <1>15 DEF Behind
  <2> QED BY <1>7, <2>1, DoubleFrame
<1>20. SlotInv(call[t])'
  <2>1. SlotInv(c)'
    BY <1>4, <1>13, <1>14 DEF SlotInv, HoldsPcs
  <2> QED BY <1>13, <2>1 DEF SlotInv
<1>21. BucketInv(call[t])'
  <2>1. Behind(head_slot_idx[b], Nil)' = Behind(head, Nil)'
    BY <1>6, <1>14 DEF Behind
  <2>2. Half(c, b)'
    BY <1>6, <1>7, <1>13, <1>14, <1>15, <1>18, <1>19, <2>1 DEF Half
  <2>3. BucketInv(c)'
    BY <1>2, <1>3, <1>13, <2>2, <1>1 DEF BucketInv, AppendPcs
  <2> QED BY <1>13, <2>3 DEF BucketInv
<1>22. EntryInv(call[t])'
  <2>1. EntryInv(c)'
    BY <1>1, <1>2, <1>13 DEF EntryInv, Tested, AppendPcs
  <2> QED BY <1>13, <2>1 DEF EntryInv
<1>23. Grows(t, b) /\ call'[t].pc \in UnsettledPcs
  BY <1>5, <1>8, <1>13, <1>14, <1>15, <1>18 DEF Grows, HalfNamed, UnsettledPcs
<1>24. ASSUME NEW h \in IdBuckets, Enters(t, h)
       PROVE  Recs(h)' = {id_slot'[h]} \ {Nil}
  BY <1>1, <1>14, <1>24, OwnEntry DEF Recs
<1>25. \A a \in Buckets : call[t].bucket = a => a = b
  BY <1>2, <1>3
<1> QED BY <1>1, <1>12, <1>14, <1>16, <1>17, <1>20, <1>21, <1>22, <1>23, <1>24, <1>25, HoldingCalm

\* a call that is done keeps nothing half written
LEMMA IdleAfter ==
    ASSUME NEW t, call'[t] = Idle
    PROVE  /\ SlotInv(call[t])' /\ BucketInv(call[t])' /\ EntryInv(call[t])'
           /\ call'[t].pc = "idle" /\ call'[t].pc \notin HoldsPcs \cup ReadPcs \cup UnsettledPcs
<1>1. call'[t].pc = "idle" /\ call'[t].id \notin Ids
  BY RaceAssumption DEF Idle
<1> QED
  BY <1>1 DEF SlotInv, BucketInv, EntryInv, Writing, HoldsPcs, AppendPcs, DeletePcs, ReadPcs,
              UnsettledPcs

LEMMA NewHeadCalm ==
    ASSUME IInv, ~raced', NEW t \in Threads, NewHead(t)
    PROVE  Calm'
<1>1. Calm /\ Types /\ call[t].pc = "new_head" /\ Step(t, "new_head", Idle)
  BY DEF NewHead, IInv, Step, Calm
<1>2. Acts(t) /\ call'[t] = Idle /\ call'[t].pc = "idle"
  BY <1>1, IdleFacts, StepActs DEF Idle
<1>3. PICK e \in Calls : e = call[t] /\ SlotInv(e) /\ BucketInv(e) /\ EntryInv(e)
  BY <1>1, CallFacts
<1>4. PICK b \in Buckets : b = e.bucket /\ Half(e, b) /\ Owner[e.id] = e.key
  BY <1>1, <1>3 DEF BucketInv, Writing, AppendPcs
<1>5. PICK s \in Slots : s = e.slot /\ slot_id[s] = e.id
  BY <1>1, <1>3 DEF SlotInv, HoldsPcs
<1>6. PICK M \in SUBSET Slots : M = Members(b)
  BY DEF Members
<1>7. PICK head : head = head_slot_idx[b]
  OBVIOUS
<1>8. /\ name_key[b] = e.key /\ e.key \in Keys /\ M # {}
      /\ next_index[s] = head /\ prev_index[s] = Nil /\ prev_index[head] = s
      /\ IsDoubleList(next_index, Behind(head, Nil), head, M)
  BY <1>1, <1>3, <1>4, <1>5, <1>6, <1>7 DEF Half, BucketInv, AppendPcs
<1>9. /\ name_key' = name_key /\ id_slot' = id_slot /\ next_index' = next_index
      /\ prev_index' = prev_index /\ is_used' = is_used /\ slot_id' = slot_id
      /\ slot_bucket' = slot_bucket /\ free_head' = free_head
  BY DEF NewHead, slots
<1>10. Chaining(t)
  BY <1>1, <1>2 DEF Chaining, NewHead
<1>11. /\ Keeps(t) /\ Types' /\ FreeInv' /\ SlotsInv'
       /\ head_slot_idx'[b] = s /\ Members(b)' = M \cup {s} /\ s \notin M
  BY <1>1, <1>2, <1>3, <1>4, <1>5, <1>6, <1>10, ChainingFacts
<1>12. Settled(b)'
  <2>1. IsFiniteSet(M) /\ Nil \notin M
    BY SlotsFacts
  <2>2. \A q \in M : next_index[q] = next_index[q] /\ (q # head => prev_index[q] = Behind(head, Nil)[q])
    BY DEF Behind
  <2>3. IsDoubleList(next_index, prev_index, s, M \cup {s})
    BY <1>8, <1>11, <2>1, <2>2, DoublePush
  <2> QED BY <1>8, <1>9, <1>11, <2>3, RaceAssumption DEF Settled
<1>13. \A q \in Members(b)' : Owner[slot_id'[q]] = name_key'[b]
  <2>1. \A q \in M : Owner[slot_id[q]] = name_key[b]
    BY <1>1, <1>6 DEF Calm, BucketsInv
  <2> QED BY <1>4, <1>5, <1>8, <1>9, <1>11, <2>1
<1>14. Grows(t, b)
  BY <1>2, <1>6, <1>9, <1>11 DEF Grows, HalfNamed
<1>15. ASSUME NEW h \in IdBuckets, Enters(t, h)
       PROVE  Recs(h)' = {id_slot'[h]} \ {Nil}
  BY <1>1, <1>9, <1>15, OwnEntry DEF Recs
<1>16. \A a \in Buckets : Writes(t, a) => a = b
  BY <1>3, <1>4 DEF Writes
<1> QED BY <1>1, <1>2, <1>11, <1>12, <1>13, <1>14, <1>15, <1>16, IdleAfter, KeptCalm

-----------------------------------------------------------------------------
(* The free list *)

LEMMA StoreFreeCalm ==
    ASSUME IInv, ~raced', NEW t \in Threads, StoreFree(t)
    PROVE  Calm'
<1>1. PICK c : c = [To(t, "take") EXCEPT !.next = Nil]
  OBVIOUS
<1>2. Calm /\ Types /\ call[t].pc = "store_free" /\ Step(t, "store_free", c)
  BY <1>1 DEF StoreFree, IInv, Step, Calm
<1>3. PICK e \in Calls : e = call[t] /\ SlotInv(e) /\ BucketInv(e) /\ EntryInv(e)
  BY <1>2, CallFacts
<1>4. /\ c \in Calls /\ c.pc = "take" /\ c.id = e.id /\ c.key = e.key
      /\ c.bucket = e.bucket /\ c.slot = e.slot
  BY <1>1, <1>3 DEF To, Calls, AppendPcs, SlotOrNil
<1>5. Acts(t) /\ call'[t] = c
  BY <1>2, <1>4, StepActs
<1>6. PICK s \in Slots : s = e.slot /\ s = free_head /\ e.next = next_index[s]
  BY <1>2, <1>3 DEF SlotInv
<1>7. /\ name_key' = name_key /\ head_slot_idx' = head_slot_idx /\ id_slot' = id_slot
      /\ next_index' = next_index /\ prev_index' = prev_index /\ is_used' = is_used
      /\ slot_id' = slot_id /\ slot_bucket' = slot_bucket /\ free_head' = next_index[s]
  BY <1>3, <1>6 DEF StoreFree, tables, slots
<1>8. s \in Unused /\ ~is_used[s] /\ s # Nil
  BY <1>2, <1>6, FreeHeadUnused, SlotsFacts DEF Unused
<1>9. InHand(s)' /\ \A q \in Slots \ {s} : InHand(q)' <=> InHand(q)
  BY <1>2, <1>3, <1>4, <1>5, <1>6, ThreadsFacts DEF InHand, Acts, HoldsPcs
<1>10. \A b \in Buckets : Members(b)' = Members(b)
  BY <1>7, <1>8, <1>9 DEF Members
<1>11. Unused' = Unused \ {s}
  BY <1>7, <1>8, <1>9 DEF Unused
<1>12. FreeInv'
  <2>1. Unused \in SUBSET Slots
    BY DEF Unused
  <2>2. IsFiniteSet(Unused) /\ Nil \notin Unused /\ IsList(next_index, free_head, Unused)
    BY <1>2, <2>1, SlotsFacts DEF Calm, FreeInv
  <2>3. IsList(next_index, next_index[s], Unused \ {s})
    BY <1>6, <1>8, <2>2, FreePop
  <2> QED BY <1>7, <1>11, <2>3 DEF FreeInv
<1>13. Types'
  BY <1>2, <1>4, <1>5, <1>7, ThreadsFacts DEF Types, Acts, AppendPcs, Threads, Other
<1>14. SlotsInv'
  BY <1>2, <1>7, <1>8, <1>9 DEF Calm, SlotsInv
<1>15. \A q \in Mine(t) : q = s \/ (is_used[q] /\ slot_bucket[q] = e.bucket)
  BY <1>2, <1>3, <1>6 DEF Mine, Members
<1>16. Keeps(t)
  BY <1>2, <1>3, <1>4, <1>5, <1>6, <1>7, <1>9, <1>15
     DEF Keeps, SameSlot, HoldsPcs, UnsettledPcs, OnFreeList, Writing
<1>17. ASSUME NEW b \in Buckets, Writes(t, b)
       PROVE  /\ \A q \in Members(b)' : Owner[slot_id'[q]] = name_key'[b]
              /\ Settled(b)' /\ Grows(t, b)
  <2>1. Settled(b)
    BY <1>2, <1>17, OwnSettled DEF UnsettledPcs
  <2>2. Settled(b)'
    BY <1>7, <1>10, <2>1 DEF Settled
  <2>3. Grows(t, b)
    BY <1>4, <1>5, <1>7, <1>10 DEF Grows, HalfNamed
  <2> QED BY <1>2, <1>7, <1>10, <2>2, <2>3 DEF Calm, BucketsInv
<1>18. ASSUME NEW h \in IdBuckets, Enters(t, h)
       PROVE  Recs(h)' = {id_slot'[h]} \ {Nil}
  BY <1>2, <1>7, <1>18, OwnEntry DEF Recs
<1>19. SlotInv(call[t])'
  <2>1. SlotInv(c)'
    BY <1>4, <1>6, <1>7, <1>8 DEF SlotInv, HoldsPcs
  <2> QED BY <1>5, <2>1 DEF SlotInv
<1>20. BucketInv(call[t])'
  <2>1. BucketInv(c)'
    BY <1>2, <1>3, <1>4, <1>7 DEF BucketInv, Half, Writing, AppendPcs
  <2> QED BY <1>5, <2>1 DEF BucketInv
<1>21. EntryInv(call[t])'
  <2>1. EntryInv(c)'
    BY <1>2, <1>3, <1>4, <1>7 DEF EntryInv, Tested, AppendPcs
  <2> QED BY <1>5, <2>1 DEF EntryInv
<1>22. call'[t].pc \notin ReadPcs
  BY <1>4, <1>5 DEF ReadPcs
<1> QED BY <1>2, <1>5, <1>12, <1>13, <1>14, <1>16, <1>17, <1>18, <1>19, <1>20, <1>21, <1>22, KeptCalm

-----------------------------------------------------------------------------
(* delete_record_from_uuid *)

LEMMA OnlyWorkerReads ==
    ASSUME Types
    PROVE  call[Other("worker")].pc \notin ReadPcs
  BY DEF Types, Other, AppendPcs, ReadPcs

LEMMA UnlinkCalm ==
    ASSUME IInv, ~raced', Unlink("worker")
    PROVE  Calm'
<1> DEFINE t == "worker"
<1>1. Calm /\ Types /\ Acts(t) /\ call[t].pc = "unlink" /\ t \in Threads
  BY ToFacts DEF Unlink, DeletePcs, Threads
<1>2. PICK e, c \in Calls :
        /\ e = call[t] /\ e.pc = "unlink"
        /\ SlotInv(e) /\ BucketInv(e) /\ EntryInv(e)
        /\ c = call'[t] /\ c.pc = "back_link" /\ c.id = e.id /\ c.key = e.key
        /\ c.bucket = e.bucket /\ c.slot = e.slot /\ c.next = e.next /\ c.prev = e.prev
  BY ToFacts DEF Unlink, DeletePcs, Threads
<1>3. PICK b \in Buckets : b = e.bucket /\ Half(e, b) /\ Writes(t, b)
  BY <1>2 DEF BucketInv, Writing, Writes
<1>4. PICK M \in SUBSET Slots : M = Members(b)
  BY DEF Members
<1>5. PICK s \in M : /\ s = e.slot /\ s \in Slots /\ slot_id[s] = e.id /\ slot_bucket[s] = b
                     /\ is_used[s] /\ e.next = next_index[s] /\ e.prev = prev_index[s]
  BY <1>2, <1>3, <1>4 DEF Half, SlotInv, Members
<1>6. PICK head : head = head_slot_idx[b]
  OBVIOUS
<1>7. IsDoubleList(next_index, prev_index, head, M) /\ name_key[b] # NoKey
  <2>1. Settled(b)
    BY <1>1, <1>2, <1>3, OwnSettled DEF UnsettledPcs
  <2> QED BY <1>4, <1>5, <1>6, <2>1 DEF Settled
<1>8. IsFiniteSet(M) /\ Nil \notin M
  BY SlotsFacts
<1>9. /\ next_index[s] \in (M \ {s}) \cup {Nil} /\ prev_index[s] \in (M \ {s}) \cup {Nil}
  BY <1>5, <1>7, <1>8, DoubleNeighbours
<1>10. /\ name_key' = name_key /\ id_slot' = id_slot /\ is_used' = is_used
       /\ prev_index' = prev_index /\ slot_id' = slot_id /\ slot_bucket' = slot_bucket
       /\ free_head' = free_head
  BY DEF Unlink
<1>11. /\ head_slot_idx' \in [Buckets -> SlotOrNil]
       /\ head_slot_idx'[b] = IF head = s THEN next_index[s] ELSE head
       /\ \A d \in Buckets : d # b => head_slot_idx'[d] = head_slot_idx[d]
  <2>1. \/ head = s /\ head_slot_idx' = [head_slot_idx EXCEPT ![b] = next_index[s]]
        \/ head # s /\ head_slot_idx' = head_slot_idx
    BY <1>2, <1>3, <1>5, <1>6 DEF Unlink
  <2> QED BY <1>1, <1>5, <1>6, <2>1 DEF Types
<1>12. /\ next_index' \in [Slots -> SlotOrNil]
       /\ \A q \in Slots : next_index'[q] =
              IF head # s /\ q = prev_index[s] THEN next_index[s] ELSE next_index[q]
  <2>1. \/ head = s /\ next_index' = next_index
        \/ head # s /\ next_index' = [q \in Slots |-> IF q = prev_index[s] THEN next_index[s]
                                                      ELSE next_index[q]]
    BY <1>2, <1>3, <1>5, <1>6 DEF Unlink
  <2> QED BY <1>1, <1>5, <2>1 DEF Types
<1>13. InHand(s)' /\ \A q \in Slots \ {s} : InHand(q)' <=> InHand(q)
  BY <1>1, <1>2, <1>5, ThreadsFacts DEF InHand, Acts, HoldsPcs
<1>14. Members(b)' = M \ {s}
  BY <1>4, <1>10, <1>13 DEF Members
<1>15. IsDoubleList(next_index', Behind(e.next, e.prev)', head_slot_idx'[b], M \ {s})
  <2>1. \A q \in M \ {s} :
            /\ next_index'[q] = IF head # s /\ q = prev_index[s] THEN next_index[s]
                                ELSE next_index[q]
            /\ Behind(e.next, e.prev)'[q] = IF q = next_index[s] THEN prev_index[s]
                                            ELSE prev_index[q]
    BY <1>5, <1>10, <1>12 DEF Behind
  <2> QED BY <1>5, <1>7, <1>8, <1>11, <2>1, DoubleCut
<1>16. Types'
  BY <1>1, <1>2, <1>10, <1>11, <1>12, ThreadsFacts DEF Types, Acts, Threads, Other
<1>17. Mine(t) = M
  BY <1>2, <1>3, <1>4 DEF Mine, Writes, HoldsPcs
<1>18. Keeps(t)
  <2>1. \A q \in Slots \ M : SameSlot(q)
    BY <1>9, <1>10, <1>12, SlotsFacts DEF SameSlot
  <2>2. \A q \in M : slot_bucket'[q] = call[t].bucket /\ Writing(call[t])
    BY <1>2, <1>3, <1>4, <1>10 DEF Members, Writes
  <2> QED BY <1>2, <1>3, <1>10, <1>11, <1>17, <2>1, <2>2 DEF Keeps, Writes
<1>19. FreeInv' /\ SlotsInv'
  <2>1. \A q \in M : is_used'[q] /\ slot_bucket'[q] \in Buckets /\ slot_id'[q] \in Ids
    BY <1>1, <1>4, <1>10 DEF Members, Calm, SlotsInv
  <2>2. ~OnFreeList(call[t])
    BY <1>2 DEF OnFreeList
  <2> QED BY <1>1, <1>10, <1>17, <1>18, <2>1, <2>2, KeptFree, KeptSlots
<1>20. ASSUME NEW a \in Buckets, Writes(t, a)
       PROVE  /\ \A q \in Members(a)' : Owner[slot_id'[q]] = name_key'[a]
              /\ call'[t].pc \in UnsettledPcs /\ call'[t].bucket = a
  BY <1>1, <1>2, <1>3, <1>4, <1>10, <1>14, <1>20 DEF Calm, BucketsInv, Writes, UnsettledPcs
<1>21. ASSUME NEW h \in IdBuckets, Enters(t, h)
       PROVE  Recs(h)' = {id_slot'[h]} \ {Nil}
  BY <1>1, <1>10, <1>21, OwnEntry DEF Recs
<1>22. SlotInv(call[t])'
  <2>1. SlotInv(c)'
    BY <1>2, <1>3, <1>5, <1>10 DEF SlotInv, HoldsPcs
  <2> QED BY <1>2, <2>1 DEF SlotInv
<1>23. BucketInv(call[t])'
  <2>1. Half(c, b)'
    BY <1>2, <1>5, <1>7, <1>9, <1>10, <1>14, <1>15 DEF Half, AppendPcs
  <2>2. BucketInv(c)'
    BY <1>2, <1>3, <2>1 DEF BucketInv, AppendPcs
  <2> QED BY <1>2, <2>2 DEF BucketInv
<1>24. EntryInv(call[t])'
  <2>1. EntryInv(c)'
    BY <1>2, <1>10 DEF EntryInv, Tested, DeletePcs
  <2> QED BY <1>2, <2>1 DEF EntryInv
<1>25. call'[t].pc \notin ReadPcs
  BY <1>2 DEF ReadPcs
<1> HIDE DEF t
<1> QED BY <1>1, <1>16, <1>18, <1>19, <1>20, <1>21, <1>22, <1>23, <1>24, <1>25, OnlyWorkerReads,
           KeptCalm DEF t

LEMMA BackLinkCalm ==
    ASSUME IInv, ~raced', BackLink("worker")
    PROVE  Calm'
<1> DEFINE t == "worker"
<1>1. Calm /\ Types /\ Acts(t) /\ call[t].pc = "back_link" /\ t \in Threads
  BY ToFacts DEF BackLink, DeletePcs, Threads
<1>2. PICK e, c \in Calls :
        /\ e = call[t] /\ e.pc = "back_link"
        /\ SlotInv(e) /\ BucketInv(e) /\ EntryInv(e)
        /\ c = call'[t] /\ c.pc = "empty" /\ c.id = e.id /\ c.key = e.key
        /\ c.bucket = e.bucket /\ c.slot = e.slot /\ c.next = e.next /\ c.prev = e.prev
  BY ToFacts DEF BackLink, DeletePcs, Threads
<1>3. PICK b \in Buckets : b = e.bucket /\ Half(e, b)
  BY <1>2 DEF BucketInv, Writing
<1>4. PICK s \in Slots : s = e.slot /\ is_used[s] /\ slot_id[s] = e.id /\ slot_bucket[s] = b
  BY <1>2, <1>3 DEF SlotInv, HoldsPcs
<1>5. PICK M \in SUBSET Slots : M = Members(b)
  BY DEF Members
<1>6. PICK head : head = head_slot_idx[b]
  OBVIOUS
<1>7. /\ name_key[b] # NoKey /\ e.next \in M \cup {Nil}
      /\ IsDoubleList(next_index, Behind(e.next, e.prev), head, M)
  BY <1>2, <1>3, <1>5, <1>6 DEF Half
<1>8. /\ name_key' = name_key /\ head_slot_idx' = head_slot_idx /\ id_slot' = id_slot
      /\ is_used' = is_used /\ next_index' = next_index /\ slot_id' = slot_id
      /\ slot_bucket' = slot_bucket /\ free_head' = free_head
      /\ prev_index' = Behind(e.next, e.prev)
  BY <1>2 DEF BackLink, tables, Behind
<1>9. Types'
  <2>1. prev_index' \in [Slots -> SlotOrNil]
    BY <1>1, <1>8 DEF Types, Behind, Calls
  <2> QED BY <1>1, <1>2, <1>8, <2>1, ThreadsFacts DEF Types, Acts, Threads, Other
<1>10. Holding(t)
  <2>1. \A q \in Slots \ ({s} \cup M) : prev_index'[q] = prev_index[q]
    BY <1>7, <1>8, SlotsFacts DEF Behind
  <2> QED BY <1>2, <1>3, <1>4, <1>5, <1>8, <2>1 DEF Holding, HoldsPcs
<1>11. Members(b)' = M
  BY <1>1, <1>5, <1>10, HoldingFacts
<1>12. SlotInv(call[t])'
  <2>1. SlotInv(c)'
    BY <1>2, <1>3, <1>4, <1>8 DEF SlotInv, HoldsPcs
  <2> QED BY <1>2, <2>1 DEF SlotInv
<1>13. BucketInv(call[t])'
  <2>1. Half(c, b)'
    BY <1>2, <1>6, <1>7, <1>8, <1>11 DEF Half, AppendPcs
  <2>2. BucketInv(c)'
    BY <1>2, <1>3, <2>1 DEF BucketInv, AppendPcs
  <2> QED BY <1>2, <2>2 DEF BucketInv
<1>14. EntryInv(call[t])'
  <2>1. EntryInv(c)'
    BY <1>2, <1>8 DEF EntryInv, Tested, DeletePcs
  <2> QED BY <1>2, <2>1 DEF EntryInv
<1>15. ASSUME NEW h \in IdBuckets, Enters(t, h)
       PROVE  Recs(h)' = {id_slot'[h]} \ {Nil}
  BY <1>1, <1>8, <1>15, OwnEntry DEF Recs
<1>16. call'[t].pc \in UnsettledPcs
  BY <1>2 DEF UnsettledPcs
<1> HIDE DEF t
<1> QED BY <1>1, <1>8, <1>9, <1>10, <1>12, <1>13, <1>14, <1>15, <1>16, OnlyWorkerReads,
           HoldingCalm DEF t

LEMMA EmptyCalm ==
    ASSUME IInv, ~raced', Empty("worker")
    PROVE  Calm'
<1> DEFINE t == "worker"
<1>1. Calm /\ Types /\ Acts(t) /\ call[t].pc = "empty" /\ t \in Threads
  BY ToFacts DEF Empty, DeletePcs, Threads
<1>2. PICK e, c \in Calls :
        /\ e = call[t] /\ e.pc = "empty"
        /\ SlotInv(e) /\ BucketInv(e) /\ EntryInv(e)
        /\ c = call'[t] /\ c.pc = "free" /\ c.id = e.id /\ c.key = e.key
        /\ c.bucket = e.bucket /\ c.slot = e.slot /\ c.next = e.next /\ c.prev = e.prev
  BY ToFacts DEF Empty, DeletePcs, Threads
<1>3. PICK b \in Buckets : b = e.bucket /\ Half(e, b)
  BY <1>2 DEF BucketInv, Writing
<1>4. PICK s \in Slots : s = e.slot /\ is_used[s] /\ slot_id[s] = e.id /\ slot_bucket[s] = b
  BY <1>2, <1>3 DEF SlotInv, HoldsPcs
<1>5. PICK M \in SUBSET Slots : M = Members(b)
  BY DEF Members
<1>6. PICK head : head = head_slot_idx[b]
  OBVIOUS
<1>7. name_key[b] # NoKey /\ IsDoubleList(next_index, prev_index, head, M)
  BY <1>2, <1>3, <1>5, <1>6 DEF Half
<1>8. /\ head_slot_idx' = head_slot_idx /\ id_slot' = id_slot
      /\ is_used' = is_used /\ next_index' = next_index /\ prev_index' = prev_index
      /\ slot_id' = slot_id /\ slot_bucket' = slot_bucket /\ free_head' = free_head
  BY DEF Empty, slots
<1>9. /\ name_key' \in [Buckets -> Keys \cup {NoKey, HashOnly}]
      /\ name_key'[b] = IF head = Nil THEN NoKey ELSE name_key[b]
      /\ \A d \in Buckets : d # b => name_key'[d] = name_key[d]
  BY <1>1, <1>2, <1>3, <1>6 DEF Empty, Types
<1>10. M = {} <=> head = Nil
  <2>1. IsFiniteSet(M) /\ Nil \notin M
    BY SlotsFacts
  <2> QED BY <1>7, <2>1, DoubleIsList, HeadOfList
<1>11. Types'
  BY <1>1, <1>2, <1>8, <1>9, ThreadsFacts DEF Types, Acts, Threads, Other
<1>12. Holding(t)
  BY <1>2, <1>3, <1>4, <1>8, <1>9 DEF Holding, HoldsPcs
<1>13. Members(b)' = M
  BY <1>1, <1>5, <1>12, HoldingFacts
<1>14. Settled(b)'
  BY <1>6, <1>7, <1>8, <1>9, <1>10, <1>13 DEF Settled
<1>15. SlotInv(call[t])'
  <2>1. SlotInv(c)'
    BY <1>2, <1>3, <1>4, <1>8 DEF SlotInv, HoldsPcs
  <2> QED BY <1>2, <2>1 DEF SlotInv
<1>16. BucketInv(call[t])'
  <2>1. Half(c, b)'
    BY <1>2 DEF Half, AppendPcs
  <2>2. BucketInv(c)'
    BY <1>2, <1>3, <2>1 DEF BucketInv, AppendPcs
  <2> QED BY <1>2, <2>2 DEF BucketInv
<1>17. EntryInv(call[t])'
  <2>1. EntryInv(c)'
    BY <1>2, <1>8 DEF EntryInv, Tested, DeletePcs
  <2> QED BY <1>2, <2>1 DEF EntryInv
<1>18. ASSUME NEW h \in IdBuckets, Enters(t, h)
       PROVE  Recs(h)' = {id_slot'[h]} \ {Nil}
  BY <1>1, <1>2, <1>8, <1>18, OwnEntry DEF Recs
<1>19. \A a \in Buckets : call[t].bucket = a =>
           (name_key'[a] = name_key[a] \/ Members(a) = {}) /\ Settled(a)'
  BY <1>2, <1>3, <1>5, <1>9, <1>10, <1>14
<1> HIDE DEF t
<1> QED BY <1>1, <1>11, <1>12, <1>15, <1>16, <1>17, <1>18, <1>19, OnlyWorkerReads,
           HoldingCalm DEF t

LEMMA FreeCalm ==
    ASSUME IInv, ~raced', Free("worker")
    PROVE  Calm'
<1> DEFINE t == "worker"
<1>1. Calm /\ Types /\ Acts(t) /\ call[t].pc = "free" /\ t \in Threads
  BY ToFacts DEF Free, DeletePcs, Threads
<1>2. PICK e, c \in Calls :
        /\ e = call[t] /\ e.pc = "free"
        /\ SlotInv(e) /\ BucketInv(e) /\ EntryInv(e)
        /\ c = call'[t] /\ c.pc = "push" /\ c.id = e.id /\ c.key = e.key
        /\ c.bucket = e.bucket /\ c.slot = e.slot /\ c.next = e.next /\ c.prev = e.prev
  BY ToFacts DEF Free, DeletePcs, Threads
<1>3. PICK b \in Buckets : b = e.bucket /\ Half(e, b)
  BY <1>2 DEF BucketInv, Writing
<1>4. PICK s \in Slots : s = e.slot /\ is_used[s] /\ slot_id[s] = e.id /\ slot_bucket[s] = b
  BY <1>2, <1>3 DEF SlotInv, HoldsPcs
<1>5. PICK h \in IdBuckets : h = IdHash[e.id]
  BY <1>2, RaceAssumption DEF EntryInv, DeletePcs
<1>6. e.id \in Ids /\ id_slot[h] = s
  BY <1>2, <1>4, <1>5 DEF EntryInv, Tested, DeletePcs
<1>7. /\ name_key' = name_key /\ head_slot_idx' = head_slot_idx
      /\ slot_bucket' = slot_bucket /\ free_head' = free_head
      /\ id_slot' = [id_slot EXCEPT ![h] = Nil]
      /\ is_used' = [is_used EXCEPT ![s] = FALSE]
      /\ slot_id' = [slot_id EXCEPT ![s] = NoId]
      /\ next_index' = [next_index EXCEPT ![s] = free_head]
      /\ prev_index' = [prev_index EXCEPT ![s] = Nil]
  BY <1>2, <1>4, <1>5, <1>6 DEF Free
<1>8. /\ id_slot' \in [IdBuckets -> SlotOrNil] /\ id_slot'[h] = Nil
      /\ \A d \in IdBuckets : d # h => id_slot'[d] = id_slot[d]
  BY <1>1, <1>7 DEF Types, SlotOrNil
<1>9. /\ is_used' \in [Slots -> BOOLEAN] /\ is_used'[s] = FALSE
      /\ slot_id' \in [Slots -> Ids \cup {NoId}] /\ slot_id'[s] = NoId
      /\ next_index' \in [Slots -> SlotOrNil] /\ next_index'[s] = free_head
      /\ prev_index' \in [Slots -> SlotOrNil]
      /\ \A q \in Slots \ {s} :
             /\ is_used'[q] = is_used[q] /\ slot_id'[q] = slot_id[q]
             /\ next_index'[q] = next_index[q] /\ prev_index'[q] = prev_index[q]
  BY <1>1, <1>7 DEF Types, SlotOrNil
<1>10. Types'
  BY <1>1, <1>2, <1>7, <1>8, <1>9, ThreadsFacts DEF Types, Acts, Threads, Other
<1>11. Holding(t)
  <2>1. \A d \in IdBuckets : id_slot'[d] = id_slot[d] \/ Enters(t, d)
    BY <1>2, <1>5, <1>6, <1>8 DEF Enters
  <2>2. \A q \in Slots \ {s} : slot_bucket'[q] = slot_bucket[q]
    BY <1>7
  <2>3. slot_id[s] \in {NoId, e.id} /\ slot_id'[s] \in {NoId, e.id}
    BY <1>4, <1>9
  <2> QED BY <1>2, <1>4, <1>7, <1>9, <2>1, <2>2, <2>3 DEF Holding, HoldsPcs
<1>12. Settled(b)'
  BY <1>1, <1>2, <1>3, <1>4, <1>7, <1>9, <1>11, BucketHeld DEF UnsettledPcs
<1>13. Recs(h)' = {}
  <2>1. Recs(h) = {s}
    BY <1>1, <1>2, <1>5, <1>6, OwnEntry, SlotsFacts DEF Enters
  <2>2. \A q \in Slots : ~(slot_id'[q] \in Ids /\ IdHash[slot_id'[q]] = h)
    BY <1>9, <2>1, RaceAssumption DEF Recs
  <2> QED BY <2>2 DEF Recs
<1>14. SlotInv(call[t])'
  <2>1. SlotInv(c)'
    BY <1>2, <1>4, <1>7, <1>9 DEF SlotInv, HoldsPcs
  <2> QED BY <1>2, <2>1 DEF SlotInv
<1>15. BucketInv(call[t])'
  <2>1. BucketInv(c)'
    BY <1>2 DEF BucketInv, Writing, AppendPcs
  <2> QED BY <1>2, <2>1 DEF BucketInv
<1>16. EntryInv(call[t])'
  <2>1. Tested(c, h)'
    BY <1>2, <1>8 DEF Tested
  <2>2. EntryInv(c)'
    BY <1>2, <1>5, <1>6, <2>1 DEF EntryInv
  <2> QED BY <1>2, <2>2 DEF EntryInv
<1>17. ASSUME NEW i \in IdBuckets, Enters(t, i)
       PROVE  Recs(i)' = {id_slot'[i]} \ {Nil}
  BY <1>2, <1>5, <1>8, <1>13, <1>17 DEF Enters
<1>18. \A a \in Buckets : call[t].bucket = a => name_key'[a] = name_key[a] /\ Settled(a)'
  BY <1>2, <1>3, <1>7, <1>12
<1> HIDE DEF t
<1> QED BY <1>1, <1>10, <1>11, <1>14, <1>15, <1>16, <1>17, <1>18, OnlyWorkerReads,
           HoldingCalm DEF t

LEMMA PushCalm ==
    ASSUME IInv, ~raced', Push("worker")
    PROVE  Calm'
<1> DEFINE t == "worker"
<1>1. Calm /\ Types /\ Acts(t) /\ call[t].pc = "push" /\ t \in Threads
  BY ToFacts DEF Push, DeletePcs, Threads
<1>2. PICK e, c \in Calls :
        /\ e = call[t] /\ e.pc = "push"
        /\ SlotInv(e) /\ BucketInv(e) /\ EntryInv(e)
        /\ c = call'[t] /\ c.pc = "clear_id" /\ c.id = e.id /\ c.key = e.key
        /\ c.bucket = e.bucket /\ c.slot = e.slot /\ c.next = e.next /\ c.prev = e.prev
  BY ToFacts DEF Push, DeletePcs, Threads
<1>3. PICK s \in Slots : s = e.slot /\ ~is_used[s] /\ next_index[s] = free_head
  BY <1>2 DEF SlotInv, HoldsPcs
<1>4. /\ name_key' = name_key /\ head_slot_idx' = head_slot_idx /\ id_slot' = id_slot
      /\ next_index' = next_index /\ prev_index' = prev_index /\ is_used' = is_used
      /\ slot_id' = slot_id /\ slot_bucket' = slot_bucket /\ free_head' = s
  BY <1>2, <1>3 DEF Push, tables, slots
<1>5. InHand(s) /\ ~InHand(s)'
  <2>1. ~(call[Other(t)].pc \in HoldsPcs /\ call[Other(t)].slot = s)
    BY <1>1, <1>2, <1>3, ThreadsFacts DEF Calm, Distinct, HoldsPcs
  <2>2. InHand(s)
    BY <1>1, <1>2, <1>3 DEF InHand, HoldsPcs
  <2>3. c.pc \notin HoldsPcs
    BY <1>2 DEF HoldsPcs
  <2> HIDE DEF t
  <2> QED BY <1>1, <1>2, <2>1, <2>2, <2>3, ThreadsFacts DEF InHand, Acts
<1>6. \A q \in Slots \ {s} : InHand(q)' <=> InHand(q)
  BY <1>1, <1>2, <1>3, ThreadsFacts DEF InHand, Acts, HoldsPcs
<1>7. Unused' = Unused \cup {s} /\ s \notin Unused
  BY <1>3, <1>4, <1>5, <1>6 DEF Unused
<1>8. FreeInv'
  <2>1. Unused \in SUBSET Slots
    BY DEF Unused
  <2>2. IsFiniteSet(Unused) /\ IsList(next_index, free_head, Unused)
    BY <1>1, <2>1, SlotsFacts DEF Calm, FreeInv
  <2>3. IsList(next_index, s, Unused \cup {s})
    BY <1>3, <1>7, <2>2, FreePush
  <2> QED BY <1>4, <1>7, <2>3 DEF FreeInv
<1>9. Types'
  BY <1>1, <1>2, <1>3, <1>4, ThreadsFacts DEF Types, Acts, Threads, Other, SlotOrNil
<1>10. SlotsInv'
  BY <1>1, <1>3, <1>4, <1>6 DEF Calm, SlotsInv
<1>11. Mine(t) = {s} /\ \A b \in Buckets : ~Writes(t, b)
  BY <1>2, <1>3 DEF Mine, Writes, Writing, HoldsPcs
<1>12. Keeps(t)
  BY <1>2, <1>3, <1>4, <1>11 DEF Keeps, SameSlot, HoldsPcs, UnsettledPcs, OnFreeList
<1>13. ASSUME NEW h \in IdBuckets, Enters(t, h)
       PROVE  Recs(h)' = {id_slot'[h]} \ {Nil}
  BY <1>1, <1>2, <1>4, <1>13, OwnEntry DEF Recs
<1>14. SlotInv(call[t])' /\ BucketInv(call[t])'
  BY <1>2 DEF SlotInv, BucketInv, Writing, HoldsPcs, AppendPcs
<1>15. EntryInv(call[t])'
  <2>1. EntryInv(c)'
    BY <1>2, <1>4 DEF EntryInv, Tested, DeletePcs
  <2> QED BY <1>2, <2>1 DEF EntryInv
<1>16. call'[t].pc \notin ReadPcs
  BY <1>2 DEF ReadPcs
<1> HIDE DEF t
<1> QED BY <1>1, <1>8, <1>9, <1>10, <1>11, <1>12, <1>13, <1>14, <1>15, <1>16, KeptCalm

LEMMA ClearIdCalm ==
    ASSUME IInv, ~raced', ClearId("worker")
    PROVE  Calm'
<1> DEFINE t == "worker"
<1>1. Calm /\ Types /\ call[t].pc = "clear_id" /\ Step(t, "clear_id", Idle) /\ t \in Threads
  BY DEF ClearId, IInv, Step, Calm, Threads
<1>2. Acts(t) /\ call'[t] = Idle
  BY <1>1, IdleFacts, StepActs
<1>3. PICK h \in IdBuckets : h = IdHash[call[t].id] /\ id_slot[h] = Nil
  BY <1>1, CallFacts, RaceAssumption DEF EntryInv, Tested, DeletePcs
<1>4. id_slot' = id_slot
  BY <1>1, <1>3 DEF ClearId, Types
<1>5. Loads(t, Idle)
  BY <1>1, <1>2, <1>4 DEF Loads, ClearId, tables, slots, UnsettledPcs, HoldsPcs, Idle
<1> QED BY <1>1, <1>2, <1>5, IdleFacts, LoadsCalm

-----------------------------------------------------------------------------
(* Every step *)

LEMMA InitIInv ==
    ASSUME Init
    PROVE  IInv
<1>1. Types
  <2>1. 0 \in Slots /\ \A s \in Slots : (IF s + 1 \in Slots THEN s + 1 ELSE Nil) \in SlotOrNil
    BY SlotsFacts DEF SlotOrNil
  <2>2. call \in [Threads -> Calls] /\ call["operational"].pc = "idle"
    BY IdleFacts DEF Init, Threads, Idle
  <2> QED BY <2>1, <2>2 DEF Types, Init, SlotOrNil
<1>2. \A t \in Threads : call[t] = Idle /\ call[t].pc = "idle"
  BY DEF Init, Idle
<1>3. Apart /\ Distinct
  BY <1>2 DEF Apart, Distinct, Meet, OnFreeList, Writing, OnIdEntry, Threads, HoldsPcs
<1>4. \A s \in Slots : ~is_used[s] /\ ~InHand(s) /\ slot_id[s] = NoId
  BY <1>2 DEF Init, InHand, HoldsPcs
<1>5. FreeInv
  <2>1. Unused = Slots
    BY <1>4 DEF Unused
  <2> DEFINE N == MaxRecords
             first == [p \in 0 .. N |-> IF p = N THEN Nil ELSE p]
  <2>2. N \in Nat \ {0} /\ Slots = 0 .. N - 1
    BY RaceAssumption DEF Slots
  <2>3. /\ first[N] = Nil /\ first[0] = 0
        /\ \A p \in 0 .. N - 1 : first[p] = IF p \in Slots THEN p ELSE first[p + 1]
        /\ \A s \in Slots : next_index[s] = first[s + 1]
    BY <2>2 DEF Init
  <2> HIDE DEF N, first
  <2>4. IsList(next_index, first[0], Slots)
    BY <2>2, <2>3, ListAscending
  <2> QED BY <2>1, <2>3, <2>4 DEF FreeInv, Init
<1>6. SlotsInv
  BY <1>4 DEF SlotsInv
<1>7. BucketsInv
  <2>1. \A b \in Buckets : Members(b) = {} /\ name_key[b] = NoKey
    BY <1>4 DEF Members, Init
  <2> QED BY <2>1 DEF BucketsInv, Settled
<1>8. IdsInv
  <2>1. \A h \in IdBuckets : Recs(h) = {} /\ id_slot[h] = Nil
    BY <1>4, RaceAssumption DEF Recs, Init
  <2> QED BY <2>1 DEF IdsInv
<1>9. CallsInv /\ ReadsInv
  BY <1>2, IdleFacts DEF CallsInv, ReadsInv
<1> QED
  BY <1>1, <1>3, <1>5, <1>6, <1>7, <1>8, <1>9 DEF IInv, Calm, Init

LEMMA RacedBoolean ==
    ASSUME IInv, NEW t, NEW c
    PROVE  /\ \A from : Step(t, from, c) => raced' \in BOOLEAN
           /\ Begin(t, c) => raced' \in BOOLEAN
  BY DEF IInv, Step, Begin

LEMMA AppendIInv ==
    ASSUME IInv, NEW t \in Threads, AppendRecord(t)
    PROVE  IInv'
<1>1. ASSUME NEW id \in Ids, Find(t, id) PROVE IInv'
  BY <1>1, FindCalm, RacedBoolean DEF IInv, Find
<1>2. CASE TestId(t)
  BY <1>2, TestIdCalm, RacedBoolean DEF IInv, TestId
<1>3. CASE LoadFree(t)
  BY <1>3, LoadFreeCalm, RacedBoolean DEF IInv, LoadFree
<1>4. CASE LoadNext(t)
  BY <1>4, LoadNextCalm, RacedBoolean DEF IInv, LoadNext
<1>5. CASE StoreFree(t)
  BY <1>5, StoreFreeCalm, RacedBoolean DEF IInv, StoreFree
<1>6. CASE Take(t)
  BY <1>6, TakeCalm, RacedBoolean DEF IInv, Take
<1>7. CASE Reset(t)
  BY <1>7, ResetCalm, RacedBoolean DEF IInv, Reset
<1>8. CASE StoreId(t)
  BY <1>8, StoreIdCalm, RacedBoolean DEF IInv, StoreId
<1>9. CASE Fill(t)
  BY <1>9, FillCalm, RacedBoolean DEF IInv, Fill
<1>10. CASE TestName(t)
  BY <1>10, TestNameCalm, RacedBoolean DEF IInv, TestName
<1>11. CASE Name(t)
  BY <1>11, NameCalm, RacedBoolean DEF IInv, Name
<1>12. CASE Qtype(t)
  BY <1>12, QtypeCalm, RacedBoolean DEF IInv, Qtype
<1>13. CASE FirstHead(t)
  BY <1>13, FirstHeadCalm, RacedBoolean DEF IInv, FirstHead
<1>14. CASE Ends(t)
  BY <1>14, EndsCalm, RacedBoolean DEF IInv, Ends
<1>15. CASE Link(t)
  <2>1. raced' \in BOOLEAN
    BY <1>15, RacedBoolean DEF Link
  <2> QED BY <1>15, <2>1, LinkCalm DEF IInv
<1>16. CASE NewHead(t)
  BY <1>16, NewHeadCalm, RacedBoolean DEF IInv, NewHead
<1>17. CASE Links(t)
  <2>1. raced' \in BOOLEAN /\ (~raced' => Calm /\ call[t].pc = "links")
    BY <1>17, RacedBoolean DEF Links, Step, IInv
  <2>2. Calm => call[t].pc # "links"
    BY DEF Calm, Types, Calls, AppendPcs, DeletePcs, ReadPcs
  <2> QED BY <2>1, <2>2 DEF IInv
<1> QED
  BY <1>1, <1>2, <1>3, <1>4, <1>5, <1>6, <1>7, <1>8, <1>9, <1>10, <1>11, <1>12, <1>13, <1>14,
     <1>15, <1>16, <1>17 DEF AppendRecord

LEMMA DeleteIInv ==
    ASSUME IInv, DeleteRecord("worker")
    PROVE  IInv'
<1>1. ASSUME NEW id \in Ids, Locate("worker", id) PROVE IInv'
  BY <1>1, LocateCalm, RacedBoolean DEF IInv, Locate
<1>2. CASE Unlink("worker")
  BY <1>2, UnlinkCalm, RacedBoolean DEF IInv, Unlink
<1>3. CASE BackLink("worker")
  BY <1>3, BackLinkCalm, RacedBoolean DEF IInv, BackLink
<1>4. CASE Empty("worker")
  BY <1>4, EmptyCalm, RacedBoolean DEF IInv, Empty
<1>5. CASE Free("worker")
  BY <1>5, FreeCalm, RacedBoolean DEF IInv, Free
<1>6. CASE Push("worker")
  BY <1>6, PushCalm, RacedBoolean DEF IInv, Push
<1>7. CASE ClearId("worker")
  BY <1>7, ClearIdCalm, RacedBoolean DEF IInv, ClearId
<1> QED
  BY <1>1, <1>2, <1>3, <1>4, <1>5, <1>6, <1>7 DEF DeleteRecord

LEMMA GetIInv ==
    ASSUME IInv, GetRecord("worker")
    PROVE  IInv'
<1>1. ASSUME NEW k \in Keys, LookUp("worker", k) PROVE IInv'
  BY <1>1, LookUpCalm, RacedBoolean DEF IInv, LookUp
<1>2. CASE LoadHead("worker")
  BY <1>2, LoadHeadCalm, RacedBoolean DEF IInv, LoadHead
<1>3. CASE Walk("worker")
  BY <1>3, WalkCalm, RacedBoolean DEF IInv, Walk
<1>4. CASE Answer("worker")
  BY <1>4, AnswerCalm, RacedBoolean DEF IInv, Answer
<1> QED
  BY <1>1, <1>2, <1>3, <1>4 DEF GetRecord

LEMMA StutterIInv ==
    ASSUME IInv, UNCHANGED vars
    PROVE  IInv'
<1>1. /\ name_key' = name_key /\ head_slot_idx' = head_slot_idx /\ id_slot' = id_slot
      /\ is_used' = is_used /\ next_index' = next_index /\ prev_index' = prev_index
      /\ slot_id' = slot_id /\ slot_bucket' = slot_bucket /\ free_head' = free_head
      /\ call' = call /\ raced' = raced
  BY DEF vars
<1>2. /\ \A s \in Slots : InHand(s)' <=> InHand(s)
      /\ \A b \in Buckets : Members(b)' = Members(b)
      /\ \A h \in IdBuckets : Recs(h)' = Recs(h)
      /\ Unused' = Unused
  BY <1>1 DEF InHand, Members, Recs, Unused
<1>3. ASSUME Calm PROVE Calm'
  <2>1. Types' /\ Apart' /\ Distinct' /\ FreeInv' /\ SlotsInv'
    BY <1>1, <1>2, <1>3 DEF Calm, Types, Apart, Distinct, FreeInv, SlotsInv
  <2>2. BucketsInv' /\ IdsInv'
    BY <1>1, <1>2, <1>3 DEF Calm, BucketsInv, Settled, Unsettling, IdsInv, Filling
  <2>3. ASSUME NEW t \in Threads PROVE (SlotInv(call[t]) /\ EntryInv(call[t]))'
    <3>1. SlotInv(call[t]) /\ EntryInv(call[t])
      BY <1>3 DEF Calm, CallsInv
    <3> QED BY <1>1, <1>2, <3>1 DEF SlotInv, EntryInv, Tested
  <2>4. ASSUME NEW t \in Threads PROVE BucketInv(call[t])'
    <3>1. PICK c : c = call[t] /\ BucketInv(c)
      BY <1>3 DEF Calm, CallsInv
    <3>2. ASSUME NEW b \in Buckets, Half(c, b) PROVE Half(c, b)'
      BY <1>1, <1>2, <3>2 DEF Half, Behind
    <3>3. BucketInv(c)'
      BY <3>1, <3>2 DEF BucketInv
    <3> QED BY <1>1, <3>1, <3>3 DEF BucketInv
  <2>5. ASSUME NEW t \in Threads PROVE ReadInv(call[t], call[Other(t)])'
    <3>1. PICK c, d : c = call[t] /\ d = call[Other(t)] /\ ReadInv(c, d)
      BY <1>3 DEF Calm, ReadsInv
    <3>2. ASSUME NEW b \in Buckets, Visits(c, b, d) PROVE Visits(c, b, d)'
      BY <1>1, <1>2, <3>2 DEF Visits
    <3>3. ReadInv(c, d)'
      BY <3>1, <3>2 DEF ReadInv
    <3> QED BY <1>1, <3>1, <3>3 DEF ReadInv
  <2> QED BY <2>1, <2>2, <2>3, <2>4, <2>5 DEF Calm, CallsInv, ReadsInv
<1> QED BY <1>1, <1>3 DEF IInv

(* However the two threads' loads and stores interleave, as long as no two *)
(* calls have met, each place a call has not half written is exact, and    *)
(* what it has half written is what the source leaves at that point.       *)
THEOREM InvariantHolds == Spec => []IInv
<1>1. Init => IInv
  BY InitIInv
<1>2. IInv /\ [Next]_vars => IInv'
  <2> SUFFICES ASSUME IInv, [Next]_vars PROVE IInv'
    OBVIOUS
  <2>1. CASE UNCHANGED vars
    BY <2>1, StutterIInv
  <2>2. CASE Worker
    BY <2>2, AppendIInv, DeleteIInv, GetIInv DEF Worker, Threads
  <2>3. CASE Operational
    BY <2>3, AppendIInv DEF Operational, Threads
  <2> QED BY <2>1, <2>2, <2>3 DEF Next
<1> QED
  BY <1>1, <1>2, PTL DEF Spec

(* append_record and delete_record_from_uuid of two threads that never     *)
(* wrote in one place leave, once both are done, every slot on the free    *)
(* list or on the chain of its bucket, and each id entry leading to its    *)
(* record.                                                                 *)
THEOREM TablesExact == Spec => []ExactUnlessRaced
<1>1. IInv => ExactUnlessRaced
  <2> SUFFICES ASSUME IInv, Quiet, ~raced
               PROVE  /\ IsList(next_index, free_head, {s \in Slots : ~is_used[s]})
                      /\ \A b \in Buckets :
                             IF name_key[b] = NoKey THEN Chain(b) = {}
                             ELSE /\ Chain(b) # {}
                                  /\ IsDoubleList(next_index, prev_index, head_slot_idx[b], Chain(b))
                                  /\ \A s \in Chain(b) : Owner[slot_id[s]] = name_key[b]
                      /\ \A h \in IdBuckets :
                             {s \in Slots : is_used[s] /\ IdHash[slot_id[s]] = h}
                                 = {id_slot[h]} \ {Nil}
    BY DEF ExactUnlessRaced
  <2>1. Calm
    BY DEF IInv
  <2>2. /\ \A s \in Slots : ~InHand(s)
        /\ \A b \in Buckets : ~Unsettling(b)
        /\ \A h \in IdBuckets : ~Filling(h)
    BY DEF Quiet, InHand, Unsettling, Filling, HoldsPcs, UnsettledPcs
  <2>3. IsList(next_index, free_head, {s \in Slots : ~is_used[s]})
    <3>1. Unused = {s \in Slots : ~is_used[s]}
      BY <2>2 DEF Unused
    <3> QED BY <2>1, <3>1 DEF Calm, FreeInv
  <2>4. ASSUME NEW b \in Buckets
        PROVE  IF name_key[b] = NoKey THEN Chain(b) = {}
               ELSE /\ Chain(b) # {}
                    /\ IsDoubleList(next_index, prev_index, head_slot_idx[b], Chain(b))
                    /\ \A s \in Chain(b) : Owner[slot_id[s]] = name_key[b]
    <3>1. Chain(b) = Members(b)
      BY <2>2 DEF Chain, Members
    <3>2. Settled(b) /\ \A s \in Members(b) : Owner[slot_id[s]] = name_key[b]
      BY <2>1, <2>2 DEF Calm, BucketsInv
    <3> QED BY <3>1, <3>2 DEF Settled
  <2>5. ASSUME NEW h \in IdBuckets
        PROVE  {s \in Slots : is_used[s] /\ IdHash[slot_id[s]] = h} = {id_slot[h]} \ {Nil}
    <3>1. \A s \in Slots : is_used[s] <=> slot_id[s] \in Ids
      BY <2>1, <2>2, RaceAssumption DEF Calm, SlotsInv
    <3>2. {s \in Slots : is_used[s] /\ IdHash[slot_id[s]] = h} = Recs(h)
      BY <3>1 DEF Recs
    <3> QED BY <2>1, <2>2, <3>2 DEF Calm, IdsInv
  <2> QED BY <2>3, <2>4, <2>5
<1> QED
  BY <1>1, InvariantHolds, PTL

(* get_record, next to an append of the other thread and without any lock, *)
(* returns every record chained to the bucket when it looked it up and no  *)
(* other name's, unless it came between the name of a new bucket and its   *)
(* head.                                                                   *)
THEOREM LookupsExact == Spec => []LookupExactUnlessEarly
<1>1. IInv => LookupExactUnlessEarly
  <2> SUFFICES ASSUME IInv, NEW t \in Threads, call[t].pc = "answer", ~raced, ~call[t].early
               PROVE  /\ call[t].before \subseteq call[t].found
                      /\ \A id \in call[t].found : id # NoId /\ Owner[id] = call[t].key
    BY DEF LookupExactUnlessEarly
  <2>1. PICK c, d : c = call[t] /\ d = call[Other(t)] /\ ReadInv(c, d)
    BY DEF IInv, Calm, ReadsInv
  <2>2. Visits(c, c.bucket, d)
    BY <2>1 DEF ReadInv, ReadPcs
  <2> QED BY <2>1, <2>2, RaceAssumption DEF Visits
<1> QED
  BY <1>1, InvariantHolds, PTL
=============================================================================
