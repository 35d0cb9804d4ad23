------------------------- MODULE IpGroupCacheProofs -------------------------
(***************************************************************************)
(* Although a delete can damage the lists of IpGroupEntry::Mmap, the calls *)
(* the program makes never leave the arrays.  The invariant needs nothing  *)
(* of the lists' shape, so it survives the damage: an index is only ever   *)
(* copied from another field, and whoever writes -1 into a head empties    *)
(* its bucket in the same call.                                            *)
(***************************************************************************)
EXTENDS IpGroupCacheProperties, LinkedListProofs

LEMMA SlotFacts ==
    /\ 0 \in Slots /\ Nil \in SlotOrNil /\ Slots \subseteq SlotOrNil
    /\ Nil \notin Slots /\ SlotOrNil \ {Nil} = Slots
  BY EntriesAssumption DEF Slots, SlotOrNil, Nil

(* find_bucket answers size_t(-1), an empty bucket or the one of its key. *)
LEMMA FindBucketFacts ==
    ASSUME NEW g \in Groups, NEW c, FindBucket(g, c) # NoBucket
    PROVE  /\ FindBucket(g, c) \in Buckets
           /\ bucket_key[FindBucket(g, c)] \in {NoKey, <<g, c>>}
<1> DEFINE n == CHOOSE n \in 1 .. Len(Probe[g]) : FirstStop(g, c, n)
<1>1. \E m \in 1 .. Len(Probe[g]) : FirstStop(g, c, m)
  BY DEF FindBucket
<1>2. n \in 1 .. Len(Probe[g]) /\ FirstStop(g, c, n)
  BY <1>1
<1>3. FindBucket(g, c) = Probe[g][n]
  BY <1>1 DEF FindBucket
<1> HIDE DEF n
<1>4. Probe[g] \in Seq(Buckets)
  BY EntryBucketsAssumption
<1>5. Probe[g][n] \in Buckets
  BY <1>2, <1>4
<1> QED
  BY <1>2, <1>3, <1>5 DEF FirstStop, Stops

(* What update_record and delete_record_from_uuid find is the id's slot. *)
LEMMA SlotOfFacts ==
    ASSUME IndicesInRange, NEW id \in Ids, SlotOf(id) # Nil
    PROVE  /\ SlotOf(id) \in Slots
           /\ is_used[SlotOf(id)] /\ slot_id[SlotOf(id)] = id
           /\ id_slot[IdHash[id]] = SlotOf(id) /\ IdHash[id] \in IdBuckets
<1>1. IdHash[id] \in IdBuckets
  BY EntryBucketsAssumption
<1> QED
  BY <1>1, SlotFacts DEF IndicesInRange, SlotOf

LEMMA SlotOfType ==
    ASSUME IndicesInRange, NEW id \in Ids
    PROVE  SlotOf(id) \in SlotOrNil
<1>1. IdHash[id] \in IdBuckets
  BY EntryBucketsAssumption
<1> QED
  BY <1>1, SlotFacts DEF IndicesInRange, SlotOf

(* append_record puts the new slot in front of a slot or of nothing, also   *)
(* when it salvages a chain behind a head that is no longer used.           *)
LEMMA SuccessorType ==
    ASSUME IndicesInRange, NEW b \in Buckets, NEW s \in Slots
    PROVE  Successor(b, s) \in SlotOrNil
<1> DEFINE used == [is_used EXCEPT ![s] = TRUE]
           next == [next_index EXCEPT ![s] = Nil]
<1>1. Salvage(used, next, head_slot_idx[b]) \in SlotOrNil
  <2>1. CASE \E t \in Slots : Salvageable(used, next, head_slot_idx[b], t)
    BY <2>1, SlotFacts DEF Salvage
  <2>2. CASE ~\E t \in Slots : Salvageable(used, next, head_slot_idx[b], t)
    BY <2>2, SlotFacts DEF Salvage
  <2> QED BY <2>1, <2>2
<1>2. head_slot_idx[b] \in SlotOrNil
  BY DEF IndicesInRange
<1> HIDE DEF used, next
<1> QED
  BY <1>1, <1>2, SlotFacts DEF Successor, used, next

-----------------------------------------------------------------------------

LEMMA RangeInit == Init => IndicesInRange
  BY SlotFacts DEF Init, IndicesInRange, SlotOrNil

LEMMA RangeAppend ==
    ASSUME IndicesInRange, NEW g \in Groups, NEW c \in Countries, NEW id \in Ids,
           NEW v \in Values, AppendRecord(g, c, id, v)
    PROVE  IndicesInRange'
<1> DEFINE b == FindBucket(g, c)
           s == free_head
           n == Successor(b, s)
<1>1. /\ b \in Buckets /\ s \in Slots /\ n \in SlotOrNil
      /\ IdHash[id] \in IdBuckets /\ <<g, c>> \in Keys
  <2>1. b \in Buckets
    BY FindBucketFacts DEF AppendRecord, CanAppend
  <2>2. s \in Slots
    BY SlotFacts DEF AppendRecord, CanAppend, IndicesInRange
  <2> QED BY <2>1, <2>2, SuccessorType, EntryBucketsAssumption DEF Keys
<1> HIDE DEF b, s, n
<1> USE <1>1, SlotFacts
<1>2. bucket_key' = [bucket_key EXCEPT ![b] = <<g, c>>]
      /\ head_slot_idx' = [head_slot_idx EXCEPT ![b] = s]
  BY DEF AppendRecord, b, s
<1>3. bucket_key' \in [Buckets -> Keys \cup {NoKey}]
  BY <1>2 DEF IndicesInRange
<1>4. head_slot_idx' \in [Buckets -> SlotOrNil]
  BY <1>2 DEF IndicesInRange
<1>5. id_slot' \in [IdBuckets -> SlotOrNil]
  BY DEF IndicesInRange, AppendRecord, s
<1>6. is_used' \in [Slots -> BOOLEAN]
  BY DEF IndicesInRange, AppendRecord
<1>7. next_index' \in [Slots -> SlotOrNil] /\ prev_index' \in [Slots -> SlotOrNil]
  BY DEF IndicesInRange, AppendRecord, b, s, n
<1>8. slot_id' \in [Slots -> Ids \cup {NoId}]
  BY DEF IndicesInRange, AppendRecord
<1>9. slot_key' \in [Slots -> Keys \cup {NoKey}]
  BY DEF IndicesInRange, AppendRecord
<1>10. slot_value' \in [Slots -> Values \cup {NoValue}]
  BY DEF IndicesInRange, AppendRecord
<1>11. free_head' \in SlotOrNil
  BY DEF IndicesInRange, AppendRecord, s
<1>12. \A a \in Buckets : bucket_key'[a] # NoKey => head_slot_idx'[a] # Nil
  BY <1>2 DEF IndicesInRange
<1> QED
  BY <1>3, <1>4, <1>5, <1>6, <1>7, <1>8, <1>9, <1>10, <1>11, <1>12
     DEF IndicesInRange

LEMMA RangeUpdate ==
    ASSUME IndicesInRange, NEW g \in Groups, NEW c \in Countries, NEW id \in Ids,
           NEW v \in Values, UpdateRecord(g, c, id, v)
    PROVE  IndicesInRange'
<1>1. <<g, c>> \in Keys
  BY DEF Keys
<1>2. slot_key' \in [Slots -> Keys \cup {NoKey}]
      /\ slot_value' \in [Slots -> Values \cup {NoValue}]
  BY <1>1 DEF IndicesInRange, UpdateRecord
<1> QED
  BY <1>2 DEF IndicesInRange, UpdateRecord

LEMMA RangeDelete ==
    ASSUME IndicesInRange, NEW g \in Groups, NEW id \in Ids,
           DeleteRecordFromUuid(g, id)
    PROVE  IndicesInRange'
<1> DEFINE s == SlotOf(id)
           b == BucketOf(s)
           p == prev_index[s]
           n == next_index[s]
           head == IF head_slot_idx[b] = s THEN n ELSE head_slot_idx[b]
<1>1. /\ s \in Slots /\ b \in Buckets /\ IdHash[id] \in IdBuckets
      /\ p \in SlotOrNil /\ n \in SlotOrNil
  <2>1. s \in Slots
    BY SlotOfType, SlotFacts DEF DeleteRecordFromUuid
  <2>2. b \in Buckets
    BY FindBucketFacts DEF DeleteRecordFromUuid, BucketOf
  <2> QED BY <2>1, <2>2, EntryBucketsAssumption DEF IndicesInRange
<1>2. head \in SlotOrNil
  BY <1>1 DEF IndicesInRange
<1>3. /\ head_slot_idx' = [head_slot_idx EXCEPT ![b] = head]
      /\ bucket_key' = [bucket_key EXCEPT ![b] = BucketAfter(b, head)]
  BY DEF DeleteRecordFromUuid
<1>4. /\ next_index' = [IF head_slot_idx[b] = s \/ p = Nil THEN next_index
                        ELSE [next_index EXCEPT ![p] = n] EXCEPT ![s] = free_head]
      /\ prev_index' = [IF n = Nil THEN prev_index
                        ELSE [prev_index EXCEPT ![n] = p] EXCEPT ![s] = Nil]
      /\ free_head' = s
      /\ is_used' = [is_used EXCEPT ![s] = FALSE]
      /\ slot_id' = [slot_id EXCEPT ![s] = NoId]
      /\ slot_key' = [slot_key EXCEPT ![s] = NoKey]
      /\ slot_value' = [slot_value EXCEPT ![s] = NoValue]
      /\ id_slot' = [id_slot EXCEPT ![IdHash[id]] = Nil]
  BY DEF DeleteRecordFromUuid
<1> HIDE DEF s, b, p, n, head
<1> USE <1>1, <1>2, SlotFacts
<1>5. bucket_key' \in [Buckets -> Keys \cup {NoKey}]
      /\ head_slot_idx' \in [Buckets -> SlotOrNil]
  BY <1>3 DEF IndicesInRange, BucketAfter
<1>6. next_index' \in [Slots -> SlotOrNil]
  BY <1>4 DEF IndicesInRange
<1>7. prev_index' \in [Slots -> SlotOrNil]
  BY <1>4 DEF IndicesInRange
<1>8. /\ free_head' \in SlotOrNil
      /\ is_used' \in [Slots -> BOOLEAN]
      /\ slot_id' \in [Slots -> Ids \cup {NoId}]
      /\ slot_key' \in [Slots -> Keys \cup {NoKey}]
      /\ slot_value' \in [Slots -> Values \cup {NoValue}]
      /\ id_slot' \in [IdBuckets -> SlotOrNil]
  BY <1>4 DEF IndicesInRange
<1>9. \A a \in Buckets : bucket_key'[a] # NoKey => head_slot_idx'[a] # Nil
  BY <1>3 DEF IndicesInRange, BucketAfter
<1> QED
  BY <1>5, <1>6, <1>7, <1>8, <1>9 DEF IndicesInRange

-----------------------------------------------------------------------------
(* Exact lists, described by the set of slots on each chain *)

Chains(H) ==
    /\ H \in [Buckets -> SUBSET Slots]
    /\ IsList(next_index, free_head, Slots \ Used)
    /\ \A b \in Buckets :
           IF bucket_key[b] = NoKey THEN H[b] = {}
           ELSE /\ H[b] # {}
                /\ IsDoubleList(next_index, prev_index, head_slot_idx[b], H[b])
                /\ \A s \in H[b] : slot_key[s][1] = bucket_key[b][1]
    /\ \A s \in Slots : is_used[s] <=> \E b \in Buckets : s \in H[b]
    /\ \A b, c \in Buckets : b # c => H[b] \cap H[c] = {}

Ids1To1 ==
    /\ \A s \in Used : id_slot[IdHash[slot_id[s]]] = s
    /\ \A h \in IdBuckets : id_slot[h] # Nil =>
           id_slot[h] \in Used /\ IdHash[slot_id[id_slot[h]]] = h

SortedAs(H) == \A b \in Buckets : \A s \in H[b] : slot_key[s] = bucket_key[b]

LEMMA SlotSets ==
    /\ IsFiniteSet(Slots) /\ Cardinality(Slots) = MaxRecords
    /\ \A S \in SUBSET Slots : /\ IsFiniteSet(S) /\ Nil \notin S
                               /\ Cardinality(S) \in Nat /\ Cardinality(S) <= MaxRecords
<1>1. IsFiniteSet(Slots) /\ Cardinality(Slots) = MaxRecords
  BY EntriesAssumption, FS_Interval DEF Slots
<1>2. ASSUME NEW S \in SUBSET Slots
      PROVE  /\ IsFiniteSet(S) /\ Nil \notin S
             /\ Cardinality(S) \in Nat /\ Cardinality(S) <= MaxRecords
  <2>1. IsFiniteSet(S) /\ Cardinality(S) <= MaxRecords
    BY <1>1, FS_Subset
  <2> QED BY <2>1, FS_CardinalityType, SlotFacts
<1> QED BY <1>1, <1>2

LEMMA WalkIsWalk ==
    ASSUME IndicesInRange
    PROVE  IsWalk(Walk, is_used, next_index, Slots, MaxRecords)
<1>1. /\ is_used \in [Slots -> BOOLEAN] /\ next_index \in [Slots -> Slots \cup {Nil}]
      /\ Nil \notin Slots /\ MaxRecords \in Nat
  BY SlotFacts, EntriesAssumption DEF IndicesInRange, SlotOrNil
<1>2. \E w : IsWalk(w, is_used, next_index, Slots, MaxRecords)
  BY <1>1, WalkExists
<1> QED
  BY <1>2 DEF IsWalk, Walk, SlotOrNil

(* Where the lists are exact, get_record's walk shows the whole chain. *)
LEMMA HungIs ==
    IndicesInRange => \A H : Chains(H) => \A b \in Buckets : Hung(b) = H[b]
<1> SUFFICES ASSUME IndicesInRange, NEW H, Chains(H), NEW b \in Buckets
             PROVE  Hung(b) = H[b]
  OBVIOUS
<1>1. CASE bucket_key[b] = NoKey
  BY <1>1 DEF Hung, Chains
<1>2. CASE bucket_key[b] # NoKey
  <2>1. PICK M : M = H[b]
    OBVIOUS
  <2>2. PICK c : Order(next_index, head_slot_idx[b], M, c)
    BY <1>2, <2>1 DEF Chains, IsDoubleList
  <2>3. M \in SUBSET Slots /\ \A s \in M : is_used[s]
    BY <2>1 DEF Chains
  <2>4. IsFiniteSet(M) /\ Cardinality(M) <= MaxRecords /\ M \subseteq Slots
    BY <2>3, SlotSets
  <2>5. IsWalk(Walk, is_used, next_index, Slots, MaxRecords)
    BY WalkIsWalk
  <2>6. Nil \notin Slots /\ MaxRecords \in Nat
    BY SlotFacts, EntriesAssumption
  <2>7. Walk[MaxRecords][head_slot_idx[b]] = c
    BY ONLY <2>2, <2>3, <2>4, <2>5, <2>6, WalkOfList
  <2>8. DOMAIN c = 1 .. Cardinality(M) /\ {c[i] : i \in DOMAIN c} = M
    BY <2>2 DEF Order
  <2> QED BY <1>2, <2>1, <2>7, <2>8 DEF Hung
<1> QED BY <1>1, <1>2

LEMMA HungNext ==
    IndicesInRange' => (\A H : Chains(H) => \A b \in Buckets : Hung(b) = H[b])'
  BY HungIs, PTL

LEMMA ChainsExact ==
    IndicesInRange => \A H : Chains(H) /\ Ids1To1 => ListsExact
<1> SUFFICES ASSUME IndicesInRange, NEW H, Chains(H), Ids1To1
             PROVE  ListsExact
  OBVIOUS
<1>1. \A b \in Buckets : Hung(b) = H[b]
  BY HungIs
<1>2. /\ IsList(next_index, free_head, Slots \ Used)
      /\ \A b \in Buckets : bucket_key[b] # NoKey =>
             /\ H[b] # {}
             /\ IsDoubleList(next_index, prev_index, head_slot_idx[b], H[b])
             /\ \A s \in H[b] : slot_key[s][1] = bucket_key[b][1]
      /\ \A b, c \in Buckets : b # c => H[b] \cap H[c] = {}
  BY DEF Chains
<1>3. Used = UNION {H[b] : b \in Buckets}
  BY DEF Chains, Used
<1>4. Used = UNION {Hung(b) : b \in Buckets}
  BY <1>1, <1>3
<1> QED BY <1>1, <1>2, <1>4 DEF ListsExact, Ids1To1

LEMMA ChainsExactNext ==
    IndicesInRange' => (\A H : Chains(H) /\ Ids1To1 => ListsExact)'
  BY ChainsExact, PTL

LEMMA ExactChains ==
    ASSUME ListsExact
    PROVE  Chains([b \in Buckets |-> Hung(b)]) /\ Ids1To1
<1>1. PICK H : H = [b \in Buckets |-> Hung(b)]
  OBVIOUS
<1>2. \A b \in Buckets : H[b] = Hung(b)
  BY <1>1
<1>3. Used = UNION {Hung(b) : b \in Buckets} /\ Used \subseteq Slots
  BY DEF ListsExact, Used
<1>4. H \in [Buckets -> SUBSET Slots]
  BY <1>1, <1>3
<1>5. \A s \in Slots : is_used[s] <=> \E b \in Buckets : s \in H[b]
  BY <1>2, <1>3 DEF Used
<1>6. \A b \in Buckets :
         IF bucket_key[b] = NoKey THEN H[b] = {}
         ELSE /\ H[b] # {}
              /\ IsDoubleList(next_index, prev_index, head_slot_idx[b], H[b])
              /\ \A s \in H[b] : slot_key[s][1] = bucket_key[b][1]
  <2> TAKE b \in Buckets
  <2>1. CASE bucket_key[b] = NoKey
    BY <1>2, <2>1 DEF Hung
  <2>2. CASE bucket_key[b] # NoKey
    BY <1>2, <2>2 DEF ListsExact
  <2> QED BY <2>1, <2>2
<1>7. IsList(next_index, free_head, Slots \ Used)
      /\ \A b, c \in Buckets : b # c => H[b] \cap H[c] = {}
  BY <1>2 DEF ListsExact
<1>8. Chains(H)
  BY <1>4, <1>5, <1>6, <1>7 DEF Chains
<1> QED BY <1>1, <1>8 DEF ListsExact, Ids1To1

LEMMA FreeHeadFacts ==
    ASSUME NEW H, Chains(H), free_head # Nil
    PROVE  free_head \in Slots /\ ~is_used[free_head]
<1>1. PICK U : U = Slots \ Used
  OBVIOUS
<1>2. IsList(next_index, free_head, U) /\ U \in SUBSET Slots
  BY <1>1 DEF Chains
<1>3. IsFiniteSet(U) /\ Nil \notin U
  BY <1>2, SlotSets
<1>4. free_head \in U
  BY <1>2, <1>3, HeadOfList
<1> QED BY <1>1, <1>4 DEF Used

LEMMA ChainHeads ==
    ASSUME NEW H, Chains(H), NEW b \in Buckets, bucket_key[b] # NoKey
    PROVE  head_slot_idx[b] \in H[b] /\ head_slot_idx[b] \in Slots
           /\ is_used[head_slot_idx[b]]
<1>1. PICK M : M = H[b]
  OBVIOUS
<1>2. M \in SUBSET Slots /\ M # {} /\ IsList(next_index, head_slot_idx[b], M)
  BY <1>1, DoubleIsList DEF Chains
<1>3. IsFiniteSet(M) /\ Nil \notin M
  BY <1>2, SlotSets
<1>4. head_slot_idx[b] \in M
  BY <1>2, <1>3, HeadOfList
<1> QED BY <1>1, <1>2, <1>4 DEF Chains

(* Chains no link of which is written stay what they are. *)
LEMMA ChainStays ==
    ASSUME NEW H, Chains(H), NEW a \in Buckets, bucket_key[a] # NoKey,
           bucket_key'[a] = bucket_key[a], head_slot_idx'[a] = head_slot_idx[a],
           \A t \in H[a] : /\ next_index'[t] = next_index[t]
                           /\ prev_index'[t] = prev_index[t]
                           /\ slot_key'[t][1] = slot_key[t][1]
    PROVE  /\ H[a] # {}
           /\ IsDoubleList(next_index', prev_index', head_slot_idx'[a], H[a])
           /\ \A s \in H[a] : slot_key'[s][1] = bucket_key'[a][1]
<1>1. PICK M : M = H[a]
  OBVIOUS
<1>2. /\ M # {} /\ IsDoubleList(next_index, prev_index, head_slot_idx[a], M)
      /\ \A s \in M : slot_key[s][1] = bucket_key[a][1]
  BY <1>1 DEF Chains
<1>3. IsDoubleList(next_index', prev_index', head_slot_idx[a], M)
  BY <1>1, <1>2, DoubleFrame
<1> QED BY <1>1, <1>2, <1>3

-----------------------------------------------------------------------------
(* append_record and update_record keep the lists exact. *)

LEMMA ExactAppend ==
    ASSUME IndicesInRange, NEW H, Chains(H), Ids1To1,
           NEW g \in Groups, NEW c \in Countries, NEW id \in Ids, NEW v \in Values,
           AppendRecord(g, c, id, v)
    PROVE  /\ Ids1To1'
           /\ \E G : Chains(G)' /\ (SortedAs(H) => SortedAs(G)')
<1>1. PICK s, b, n, k : /\ s = free_head /\ b = FindBucket(g, c)
                        /\ n = Successor(b, s) /\ k = <<g, c>>
  OBVIOUS
<1>2. /\ s \in Slots /\ ~is_used[s] /\ b \in Buckets
      /\ bucket_key[b] \in {NoKey, k}
      /\ k \in Keys /\ k # NoKey /\ k[1] = g
  BY <1>1, FreeHeadFacts, FindBucketFacts, EntriesAssumption
     DEF AppendRecord, CanAppend, Keys
<1>3. n = IF bucket_key[b] = NoKey THEN Nil ELSE head_slot_idx[b]
  <2>1. CASE bucket_key[b] = NoKey
    BY <1>1, <2>1 DEF Successor
  <2>2. CASE bucket_key[b] # NoKey
    <3>1. /\ head_slot_idx[b] \in Slots /\ is_used[head_slot_idx[b]]
          /\ head_slot_idx[b] # s
      BY <1>2, <2>2, ChainHeads
    <3>2. [is_used EXCEPT ![s] = TRUE][head_slot_idx[b]]
      BY <3>1 DEF IndicesInRange
    <3> QED BY <1>1, <2>2, <3>1, <3>2 DEF Successor
  <2> QED BY <2>1, <2>2
<1>4. /\ free_head' = next_index[s]
      /\ id_slot' = [id_slot EXCEPT ![IdHash[id]] = s]
      /\ is_used' = [is_used EXCEPT ![s] = TRUE]
      /\ slot_id' = [slot_id EXCEPT ![s] = id]
      /\ slot_key' = [slot_key EXCEPT ![s] = k]
      /\ bucket_key' = [bucket_key EXCEPT ![b] = k]
      /\ head_slot_idx' = [head_slot_idx EXCEPT ![b] = s]
      /\ next_index' = [next_index EXCEPT ![s] = n]
      /\ prev_index' = IF n = Nil THEN [prev_index EXCEPT ![s] = Nil]
                       ELSE [prev_index EXCEPT ![s] = Nil, ![n] = s]
      /\ id_slot[IdHash[id]] = Nil
  BY <1>1 DEF AppendRecord, CanAppend
<1>5. PICK G : G = [H EXCEPT ![b] = @ \cup {s}]
  OBVIOUS
<1>6. /\ H \in [Buckets -> SUBSET Slots] /\ G \in [Buckets -> SUBSET Slots]
      /\ G[b] = H[b] \cup {s}
      /\ \A a \in Buckets : s \notin H[a] /\ (a # b => G[a] = H[a])
  BY <1>2, <1>5 DEF Chains
<1>7. /\ n # Nil => n \in H[b] /\ n \in Slots /\ n # s
      /\ Nil \notin Slots
  BY <1>2, <1>3, <1>6, ChainHeads, SlotFacts
<1>8. /\ \A t \in Slots : t # s => /\ next_index'[t] = next_index[t]
                                   /\ (t # n => prev_index'[t] = prev_index[t])
                                   /\ is_used'[t] = is_used[t]
                                   /\ slot_key'[t] = slot_key[t]
                                   /\ slot_id'[t] = slot_id[t]
      /\ next_index'[s] = n /\ prev_index'[s] = Nil /\ (n # Nil => prev_index'[n] = s)
      /\ is_used'[s] /\ slot_key'[s] = k /\ slot_id'[s] = id
      /\ bucket_key'[b] = k /\ head_slot_idx'[b] = s
      /\ \A a \in Buckets : a # b => /\ bucket_key'[a] = bucket_key[a]
                                     /\ head_slot_idx'[a] = head_slot_idx[a]
  <2>1. /\ prev_index'[s] = Nil /\ (n # Nil => prev_index'[n] = s)
        /\ \A t \in Slots : t # s /\ t # n => prev_index'[t] = prev_index[t]
    BY <1>2, <1>4, <1>7 DEF IndicesInRange
  <2>2. /\ \A t \in Slots : t # s => /\ next_index'[t] = next_index[t]
                                     /\ is_used'[t] = is_used[t]
                                     /\ slot_key'[t] = slot_key[t]
                                     /\ slot_id'[t] = slot_id[t]
        /\ next_index'[s] = n /\ is_used'[s] /\ slot_key'[s] = k /\ slot_id'[s] = id
    BY <1>2, <1>4 DEF IndicesInRange
  <2>3. /\ bucket_key'[b] = k /\ head_slot_idx'[b] = s
        /\ \A a \in Buckets : a # b => /\ bucket_key'[a] = bucket_key[a]
                                       /\ head_slot_idx'[a] = head_slot_idx[a]
    BY <1>2, <1>4 DEF IndicesInRange
  <2> QED BY <2>1, <2>2, <2>3
<1>9. IsList(next_index', free_head', Slots \ Used')
  <2>1. PICK U : U = Slots \ Used
    OBVIOUS
  <2>2. IsFiniteSet(U) /\ Nil \notin U /\ s # Nil /\ U \subseteq Slots
    BY <1>2, <1>7, <2>1, SlotSets
  <2>3. IsList(next_index, s, U) /\ \A t \in U \ {s} : next_index'[t] = next_index[t]
    BY <1>1, <1>8, <2>1 DEF Chains
  <2>4. IsList(next_index', next_index[s], U \ {s})
    BY <2>2, <2>3, FreePop
  <2>5. Slots \ Used' = U \ {s}
    BY <1>2, <1>8, <2>1 DEF Used
  <2> QED BY <1>4, <2>4, <2>5
<1>10. /\ G[b] # {} /\ IsDoubleList(next_index', prev_index', s, G[b])
       /\ \A t \in G[b] : slot_key'[t][1] = k[1]
  <2>1. PICK M : M = H[b]
    OBVIOUS
  <2>2. M \subseteq Slots /\ IsFiniteSet(M) /\ s \notin M
    BY <1>2, <1>6, <2>1, SlotSets
  <2>3. CASE bucket_key[b] = NoKey
    <3>1. M = {}
      BY <1>2, <2>1, <2>3 DEF Chains
    <3>2. IsDoubleList(next_index', prev_index', s, {s})
      BY <1>3, <1>8, <2>3, DoubleNew
    <3>3. G[b] = {s}
      BY <1>6, <2>1, <3>1
    <3> QED BY <1>8, <3>2, <3>3
  <2>4. CASE bucket_key[b] # NoKey
    <3>0. n = head_slot_idx[b] /\ n \in Slots /\ n # Nil /\ bucket_key[b] = k
      BY <1>2, <1>3, <1>7, <2>4, ChainHeads
    <3>1. /\ IsDoubleList(next_index, prev_index, n, M) /\ n # Nil
          /\ \A t \in M : slot_key[t][1] = k[1]
      BY <1>2, <2>1, <2>4, <3>0 DEF Chains
    <3>2. \A t \in M : /\ next_index'[t] = next_index[t]
                       /\ (t # n => prev_index'[t] = prev_index[t])
                       /\ slot_key'[t] = slot_key[t]
      BY <1>8, <2>2
    <3>3. next_index'[s] = n /\ prev_index'[s] = Nil /\ prev_index'[n] = s
      BY <1>8, <3>1
    <3>4. IsDoubleList(next_index', prev_index', s, M \cup {s})
      BY <2>2, <3>1, <3>2, <3>3, DoublePush
    <3> QED BY <1>6, <1>8, <2>1, <3>1, <3>2, <3>4
  <2> QED BY <2>3, <2>4
<1>11. \A a \in Buckets :
          IF bucket_key'[a] = NoKey THEN G[a] = {}
          ELSE /\ G[a] # {}
               /\ IsDoubleList(next_index', prev_index', head_slot_idx'[a], G[a])
               /\ \A t \in G[a] : slot_key'[t][1] = bucket_key'[a][1]
  <2> TAKE a \in Buckets
  <2>1. CASE a = b
    BY <1>2, <1>8, <1>10, <2>1
  <2>2. CASE a # b /\ bucket_key[a] = NoKey
    BY <1>6, <1>8, <2>2 DEF Chains
  <2>3. CASE a # b /\ bucket_key[a] # NoKey
    <3>1. \A t \in H[a] : t \in Slots /\ t # s /\ t # n
      BY <1>2, <1>6, <1>7, <2>3 DEF Chains
    <3>2. \A t \in H[a] : /\ next_index'[t] = next_index[t]
                          /\ prev_index'[t] = prev_index[t]
                          /\ slot_key'[t][1] = slot_key[t][1]
      BY <1>8, <3>1
    <3>3. bucket_key'[a] = bucket_key[a] /\ head_slot_idx'[a] = head_slot_idx[a] /\ G[a] = H[a]
      BY <1>6, <1>8, <2>3
    <3> QED BY <2>3, <3>2, <3>3, ChainStays
  <2> QED BY <2>1, <2>2, <2>3
<1>12. \A t \in Slots : is_used'[t] <=> \E a \in Buckets : t \in G[a]
  BY <1>2, <1>6, <1>8 DEF Chains
<1>13. \A a, d \in Buckets : a # d => G[a] \cap G[d] = {}
  BY <1>2, <1>6 DEF Chains
<1>14. Chains(G)'
  BY <1>6, <1>9, <1>11, <1>12, <1>13 DEF Chains
<1>15. SortedAs(H) => SortedAs(G)'
  <2> SUFFICES ASSUME SortedAs(H), NEW a \in Buckets, NEW t \in G[a]
               PROVE  slot_key'[t] = bucket_key'[a]
    BY DEF SortedAs
  <2>1. CASE t = s
    <3>1. a = b
      BY <1>6, <2>1
    <3> QED BY <1>8, <2>1, <3>1
  <2>2. CASE t # s
    <3>1. t \in H[a] /\ t \in Slots /\ slot_key'[t] = slot_key[t]
      BY <1>6, <1>8, <2>2
    <3>2. slot_key[t] = bucket_key[a] /\ bucket_key[a] # NoKey
      BY <3>1 DEF SortedAs, Chains
    <3> QED BY <1>2, <1>8, <3>1, <3>2
  <2> QED BY <2>1, <2>2
<1>16. Ids1To1'
  <2>1. PICK h : h = IdHash[id]
    OBVIOUS
  <2>2. /\ h \in IdBuckets /\ id_slot[h] = Nil /\ id_slot'[h] = s
        /\ \A a \in IdBuckets : a # h => id_slot'[a] = id_slot[a]
    BY <1>4, <2>1, EntryBucketsAssumption DEF IndicesInRange
  <2>3. ASSUME NEW t \in Used' PROVE id_slot'[IdHash[slot_id'[t]]] = t
    <3>1. CASE t = s
      BY <1>8, <2>1, <2>2, <3>1
    <3>2. CASE t # s
      <4>1. t \in Slots /\ t \in Used /\ slot_id'[t] = slot_id[t]
        BY <1>8, <2>3, <3>2 DEF Used
      <4>2. id_slot[IdHash[slot_id[t]]] = t /\ IdHash[slot_id[t]] \in IdBuckets
        BY <4>1, EntryBucketsAssumption DEF Ids1To1, IndicesInRange
      <4> QED BY <1>7, <2>2, <4>1, <4>2
    <3> QED BY <3>1, <3>2
  <2>4. ASSUME NEW a \in IdBuckets, id_slot'[a] # Nil
        PROVE  id_slot'[a] \in Used' /\ IdHash[slot_id'[id_slot'[a]]] = a
    <3>1. CASE a = h
      BY <1>2, <1>8, <2>1, <2>2, <3>1 DEF Used
    <3>2. CASE a # h
      <4>1. id_slot'[a] = id_slot[a]
        BY <2>2, <3>2
      <4>2. id_slot[a] \in Used /\ IdHash[slot_id[id_slot[a]]] = a
        BY <2>4, <4>1 DEF Ids1To1
      <4>3. id_slot[a] \in Slots /\ id_slot[a] # s
        BY <1>2, <4>2 DEF Used
      <4> QED BY <1>8, <4>1, <4>2, <4>3 DEF Used
    <3> QED BY <3>1, <3>2
  <2> QED BY <2>3, <2>4 DEF Ids1To1
<1> QED BY <1>14, <1>15, <1>16

LEMMA ExactUpdate ==
    ASSUME IndicesInRange, NEW H, Chains(H), Ids1To1,
           NEW g \in Groups, NEW c \in Countries, NEW id \in Ids, NEW v \in Values,
           UpdateRecord(g, c, id, v)
    PROVE  /\ Ids1To1' /\ Chains(H)'
           /\ SortedAs(H) /\ ~Moved => SortedAs(H)'
<1>1. PICK s : s = SlotOf(id)
  OBVIOUS
<1>2. s \in Slots /\ is_used[s]
  BY <1>1, SlotOfFacts DEF UpdateRecord
<1>3. /\ slot_key' = [slot_key EXCEPT ![s] = <<g, c>>] /\ slot_key[s][1] = g
      /\ UNCHANGED <<bucket_key, head_slot_idx, id_slot, is_used, next_index,
                     prev_index, slot_id, free_head>>
  BY <1>1 DEF UpdateRecord
<1>4. \A t \in Slots : slot_key'[t][1] = slot_key[t][1]
  <2>1. <<g, c>>[1] = g
    OBVIOUS
  <2> QED BY <1>2, <1>3, <2>1 DEF IndicesInRange
<1>5. Used' = Used
  BY <1>3 DEF Used
<1>6. \A a \in Buckets : bucket_key[a] # NoKey =>
         \A t \in H[a] : slot_key'[t][1] = bucket_key[a][1]
  BY <1>4 DEF Chains
<1>7. Chains(H)'
  BY <1>3, <1>5, <1>6 DEF Chains
<1>8. Ids1To1'
  BY <1>3, <1>5 DEF Ids1To1
<1>9. SortedAs(H) /\ ~Moved => SortedAs(H)'
  <2> SUFFICES ASSUME SortedAs(H), ~Moved, NEW a \in Buckets, NEW t \in H[a]
               PROVE  slot_key'[t] = bucket_key[a]
    BY <1>3 DEF SortedAs
  <2>1. t \in Slots /\ is_used[t]
    BY DEF Chains
  <2>2. slot_key'[t] = slot_key[t]
    BY <1>3, <2>1 DEF Moved
  <2> QED BY <2>2 DEF SortedAs
<1> QED BY <1>7, <1>8, <1>9

-----------------------------------------------------------------------------
(* delete_record_from_uuid keeps them exact if it finds the entry's bucket. *)

LEMMA ExactDelete ==
    ASSUME IndicesInRange, NEW H, Chains(H), Ids1To1,
           NEW g \in Groups, NEW id \in Ids, DeleteRecordFromUuid(g, id),
           SlotOf(id) \in H[BucketOf(SlotOf(id))]
    PROVE  /\ Ids1To1'
           /\ \E G : Chains(G)' /\ (SortedAs(H) => SortedAs(G)')
<1>1. PICK s, b, p, n : /\ s = SlotOf(id) /\ b = BucketOf(s)
                        /\ p = prev_index[s] /\ n = next_index[s]
  OBVIOUS
<1>2. /\ s \in Slots /\ is_used[s] /\ slot_id[s] = id /\ id_slot[IdHash[id]] = s
      /\ IdHash[id] \in IdBuckets /\ b \in Buckets /\ s \in H[b]
      /\ Nil \notin Slots /\ s # Nil
  <2>1. s \in Slots /\ is_used[s] /\ slot_id[s] = id /\ id_slot[IdHash[id]] = s
        /\ IdHash[id] \in IdBuckets
    BY <1>1, SlotOfFacts DEF DeleteRecordFromUuid
  <2>2. b \in Buckets
    BY <1>1, FindBucketFacts DEF DeleteRecordFromUuid, BucketOf
  <2> QED BY <1>1, <2>1, <2>2, SlotFacts
<1>3. PICK M, head, head2 :
          /\ M = H[b] /\ head = head_slot_idx[b]
          /\ head2 = IF head = s THEN n ELSE head
  OBVIOUS
<1>4. /\ M \in SUBSET Slots /\ IsFiniteSet(M) /\ Nil \notin M /\ s \in M
      /\ bucket_key[b] # NoKey
      /\ IsDoubleList(next_index, prev_index, head, M)
      /\ \A t \in M : slot_key[t][1] = bucket_key[b][1]
  <2>1. M \in SUBSET Slots /\ s \in M
    BY <1>2, <1>3 DEF Chains
  <2>2. bucket_key[b] # NoKey
    BY <1>2 DEF Chains
  <2>3. IsFiniteSet(M) /\ Nil \notin M
    BY <2>1, SlotSets
  <2> QED BY <1>2, <1>3, <2>1, <2>2, <2>3 DEF Chains
<1>5. /\ n \in (M \ {s}) \cup {Nil} /\ p \in (M \ {s}) \cup {Nil}
      /\ (p = Nil) <=> (head = s)
  BY <1>1, <1>4, DoubleNeighbours
<1>6. /\ next_index' = [IF head = s \/ p = Nil THEN next_index
                        ELSE [next_index EXCEPT ![p] = n] EXCEPT ![s] = free_head]
      /\ prev_index' = [IF n = Nil THEN prev_index
                        ELSE [prev_index EXCEPT ![n] = p] EXCEPT ![s] = Nil]
      /\ free_head' = s
      /\ is_used' = [is_used EXCEPT ![s] = FALSE]
      /\ slot_id' = [slot_id EXCEPT ![s] = NoId]
      /\ slot_key' = [slot_key EXCEPT ![s] = NoKey]
      /\ id_slot' = [id_slot EXCEPT ![IdHash[id]] = Nil]
      /\ head_slot_idx' = [head_slot_idx EXCEPT ![b] = head2]
      /\ bucket_key' = [bucket_key EXCEPT ![b] = BucketAfter(b, head2)]
  BY <1>1, <1>3 DEF DeleteRecordFromUuid
<1>7. /\ \A t \in Slots : t # s =>
             /\ next_index'[t] = IF head # s /\ t = p THEN n ELSE next_index[t]
             /\ prev_index'[t] = IF t = n THEN p ELSE prev_index[t]
             /\ is_used'[t] = is_used[t]
             /\ slot_id'[t] = slot_id[t]
             /\ slot_key'[t] = slot_key[t]
      /\ next_index'[s] = free_head /\ ~is_used'[s]
      /\ head_slot_idx'[b] = head2 /\ bucket_key'[b] = BucketAfter(b, head2)
      /\ \A a \in Buckets : a # b => /\ bucket_key'[a] = bucket_key[a]
                                     /\ head_slot_idx'[a] = head_slot_idx[a]
  <2>1. \A t \in Slots : t # s =>
            next_index'[t] = IF head # s /\ t = p THEN n ELSE next_index[t]
    BY <1>2, <1>4, <1>5, <1>6 DEF IndicesInRange
  <2>2. \A t \in Slots : t # s => prev_index'[t] = IF t = n THEN p ELSE prev_index[t]
    BY <1>2, <1>4, <1>5, <1>6 DEF IndicesInRange
  <2>3. \A t \in Slots : t # s => /\ is_used'[t] = is_used[t]
                                  /\ slot_id'[t] = slot_id[t]
                                  /\ slot_key'[t] = slot_key[t]
    BY <1>2, <1>6 DEF IndicesInRange
  <2>4. next_index'[s] = free_head /\ ~is_used'[s]
    BY <1>2, <1>4, <1>5, <1>6 DEF IndicesInRange
  <2>5. /\ head_slot_idx'[b] = head2 /\ bucket_key'[b] = BucketAfter(b, head2)
        /\ \A a \in Buckets : a # b => /\ bucket_key'[a] = bucket_key[a]
                                       /\ head_slot_idx'[a] = head_slot_idx[a]
    BY <1>2, <1>6 DEF IndicesInRange
  <2> QED BY <2>1, <2>2, <2>3, <2>4, <2>5
<1>8. PICK G : G = [H EXCEPT ![b] = @ \ {s}]
  OBVIOUS
<1>9. /\ H \in [Buckets -> SUBSET Slots] /\ G \in [Buckets -> SUBSET Slots]
      /\ G[b] = M \ {s}
      /\ \A a \in Buckets : a # b => G[a] = H[a] /\ H[a] \cap M = {}
  BY <1>2, <1>3, <1>8 DEF Chains
<1>10. IsDoubleList(next_index', prev_index', head2, M \ {s})
  <2>1. \A t \in M \ {s} :
           /\ next_index'[t] = IF head # s /\ t = prev_index[s] THEN next_index[s]
                               ELSE next_index[t]
           /\ prev_index'[t] = IF t = next_index[s] THEN prev_index[s] ELSE prev_index[t]
    BY <1>1, <1>4, <1>7
  <2>2. head2 = IF head = s THEN next_index[s] ELSE head
    BY <1>1, <1>3
  <2> QED BY ONLY <1>4, <2>1, <2>2, DoubleCut
<1>11. (head2 = Nil) <=> (M \ {s} = {})
  <2>1. IsList(next_index', head2, M \ {s})
    BY <1>10, DoubleIsList
  <2>2. IsFiniteSet(M \ {s}) /\ Nil \notin M \ {s}
    BY <1>4, FS_Subset
  <2> QED BY <2>1, <2>2, HeadOfList
<1>12. IsList(next_index', free_head', Slots \ Used')
  <2>1. PICK U : U = Slots \ Used
    OBVIOUS
  <2>2. IsFiniteSet(U) /\ s \notin U /\ IsList(next_index, free_head, U)
    BY <1>2, <2>1, SlotSets DEF Chains, Used
  <2>3. \A t \in U : t \in Slots /\ t # s /\ t # p
    <3>1. \A t \in M : t \in Used
      BY <1>2, <1>3, <1>4 DEF Chains, Used
    <3>2. U \subseteq Slots /\ Nil \notin U /\ U \cap M = {}
      BY <1>2, <2>1, <3>1
    <3> QED BY <1>4, <1>5, <3>2
  <2>4. \A t \in U : next_index'[t] = next_index[t]
    BY <1>7, <2>3
  <2>5. next_index'[s] = free_head
    BY <1>7
  <2>6. IsList(next_index', s, U \cup {s})
    BY ONLY <2>2, <2>4, <2>5, FreePush
  <2>7. Slots \ Used' = U \cup {s}
    BY <1>2, <1>7, <2>1 DEF Used
  <2> QED BY <1>6, <2>6, <2>7
<1>13. \A a \in Buckets :
          IF bucket_key'[a] = NoKey THEN G[a] = {}
          ELSE /\ G[a] # {}
               /\ IsDoubleList(next_index', prev_index', head_slot_idx'[a], G[a])
               /\ \A t \in G[a] : slot_key'[t][1] = bucket_key'[a][1]
  <2> TAKE a \in Buckets
  <2>1. CASE a = b
    <3>1. CASE head2 = Nil
      BY <1>7, <1>9, <1>11, <2>1, <3>1 DEF BucketAfter
    <3>2. CASE head2 # Nil
      <4>1. bucket_key'[b] = bucket_key[b] /\ head_slot_idx'[b] = head2
        BY <1>7, <3>2 DEF BucketAfter
      <4>2. \A t \in M \ {s} : slot_key'[t][1] = bucket_key[b][1]
        BY <1>4, <1>7
      <4> QED BY <1>4, <1>9, <1>10, <1>11, <2>1, <3>2, <4>1, <4>2
    <3> QED BY <3>1, <3>2
  <2>2. CASE a # b /\ bucket_key[a] = NoKey
    BY <1>7, <1>9, <2>2 DEF Chains
  <2>3. CASE a # b /\ bucket_key[a] # NoKey
    <3>1. \A t \in H[a] : t \in Slots /\ t # s /\ t # p /\ t # n
      BY <1>2, <1>4, <1>5, <1>9, <2>3
    <3>2. \A t \in H[a] : /\ next_index'[t] = next_index[t]
                          /\ prev_index'[t] = prev_index[t]
                          /\ slot_key'[t][1] = slot_key[t][1]
      BY <1>7, <3>1
    <3>3. bucket_key'[a] = bucket_key[a] /\ head_slot_idx'[a] = head_slot_idx[a] /\ G[a] = H[a]
      BY <1>7, <1>9, <2>3
    <3> QED BY <2>3, <3>2, <3>3, ChainStays
  <2> QED BY <2>1, <2>2, <2>3
<1>14. \A t \in Slots : is_used'[t] <=> \E a \in Buckets : t \in G[a]
  <2> TAKE t \in Slots
  <2>1. CASE t = s
    <3>1. \A a \in Buckets : s \notin G[a]
      BY <1>4, <1>9
    <3> QED BY <1>7, <2>1, <3>1
  <2>2. CASE t # s
    <3>1. \A a \in Buckets : t \in G[a] <=> t \in H[a]
      BY <1>3, <1>9, <2>2
    <3> QED BY <1>7, <2>2, <3>1 DEF Chains
  <2> QED BY <2>1, <2>2
<1>15. \A a, d \in Buckets : a # d => G[a] \cap G[d] = {}
  <2>1. \A a \in Buckets : G[a] \subseteq H[a]
    BY <1>3, <1>9
  <2> QED BY <2>1 DEF Chains
<1>16. Chains(G)'
  BY <1>9, <1>12, <1>13, <1>14, <1>15 DEF Chains
<1>17. SortedAs(H) => SortedAs(G)'
  <2> SUFFICES ASSUME SortedAs(H), NEW a \in Buckets, NEW t \in G[a]
               PROVE  slot_key'[t] = bucket_key'[a]
    BY DEF SortedAs
  <2>1. t \in H[a] /\ t \in Slots /\ t # s
    BY <1>2, <1>3, <1>4, <1>9
  <2>2. slot_key'[t] = bucket_key[a]
    BY <1>7, <2>1 DEF SortedAs
  <2>3. CASE a # b
    BY <1>7, <2>2, <2>3
  <2>4. CASE a = b
    BY <1>7, <1>9, <1>11, <2>2, <2>4 DEF BucketAfter
  <2> QED BY <2>3, <2>4
<1>18. Ids1To1'
  <2>1. PICK h : h = IdHash[id]
    OBVIOUS
  <2>2. /\ h \in IdBuckets /\ id_slot[h] = s /\ id_slot'[h] = Nil
        /\ \A a \in IdBuckets : a # h => id_slot'[a] = id_slot[a]
    BY <1>2, <1>6, <2>1 DEF IndicesInRange
  <2>3. ASSUME NEW t \in Used' PROVE id_slot'[IdHash[slot_id'[t]]] = t
    <3>1. t \in Slots /\ t # s /\ t \in Used /\ slot_id'[t] = slot_id[t]
      BY <1>7, <2>3 DEF Used
    <3>2. id_slot[IdHash[slot_id[t]]] = t /\ IdHash[slot_id[t]] \in IdBuckets
      BY <3>1, EntryBucketsAssumption DEF Ids1To1, IndicesInRange
    <3> QED BY <2>2, <3>1, <3>2
  <2>4. ASSUME NEW a \in IdBuckets, id_slot'[a] # Nil
        PROVE  id_slot'[a] \in Used' /\ IdHash[slot_id'[id_slot'[a]]] = a
    <3>1. a # h /\ id_slot'[a] = id_slot[a]
      BY <2>2, <2>4
    <3>2. id_slot[a] \in Used /\ IdHash[slot_id[id_slot[a]]] = a
      BY <2>4, <3>1 DEF Ids1To1
    <3>3. id_slot[a] \in Slots /\ id_slot[a] # s
      BY <1>2, <2>1, <3>1, <3>2 DEF Used
    <3> QED BY <1>7, <3>1, <3>2, <3>3 DEF Used
  <2> QED BY <2>3, <2>4 DEF Ids1To1
<1> QED BY <1>16, <1>17, <1>18

-----------------------------------------------------------------------------
(* delete_record *)

Pushes ==
    [slot : SlotOrNil, table : [IdBuckets -> SlotOrNil], next : [Slots -> SlotOrNil],
     free : SlotOrNil, ids : [Slots -> Ids \cup {NoId}], freed : SUBSET Slots]

Before(head) ==
    [slot |-> head, table |-> id_slot, next |-> next_index,
     free |-> free_head, ids |-> slot_id, freed |-> {}]

OnePush == [a \in Pushes |-> IF a.slot = Nil THEN a ELSE PushFreeSlot(a)]

LEMMA PushType ==
    ASSUME NEW a \in Pushes, a.slot # Nil
    PROVE  PushFreeSlot(a) \in Pushes
<1>1. PICK s, h : s = a.slot /\ h = IdHash[a.ids[s]]
  OBVIOUS
<1>2. s \in Slots
  BY <1>1, SlotFacts DEF Pushes
<1>3. h \in IdBuckets
  BY <1>1, <1>2, EntryBucketsAssumption DEF Pushes
<1>4. /\ a.table \in [IdBuckets -> SlotOrNil] /\ a.next \in [Slots -> SlotOrNil]
      /\ a.free \in SlotOrNil /\ a.ids \in [Slots -> Ids \cup {NoId}]
      /\ a.freed \in SUBSET Slots
  BY DEF Pushes
<1>5. a.next[s] \in SlotOrNil
  BY <1>2, <1>4
<1>6. [a.table EXCEPT ![h] = IF @ = s THEN Nil ELSE @] \in [IdBuckets -> SlotOrNil]
  BY <1>3, <1>4, SlotFacts
<1>7. [a.next EXCEPT ![s] = a.free] \in [Slots -> SlotOrNil]
  BY <1>2, <1>4
<1>8. [a.ids EXCEPT ![s] = NoId] \in [Slots -> Ids \cup {NoId}]
  BY <1>2, <1>4
<1>9. s \in SlotOrNil /\ a.freed \cup {s} \in SUBSET Slots
  BY <1>2, <1>4, SlotFacts
<1>10. PushFreeSlot(a) =
          [slot |-> a.next[s],
           table |-> [a.table EXCEPT ![h] = IF @ = s THEN Nil ELSE @],
           next |-> [a.next EXCEPT ![s] = a.free], free |-> s,
           ids |-> [a.ids EXCEPT ![s] = NoId], freed |-> a.freed \cup {s}]
  BY <1>1 DEF PushFreeSlot
<1> QED BY <1>5, <1>6, <1>7, <1>8, <1>9, <1>10 DEF Pushes

PushesFrom(f, head) ==
    f = [n \in 0 .. MaxRecords |->
            IF n = 0 THEN Before(head)
            ELSE IF f[n - 1].slot = Nil THEN f[n - 1] ELSE PushFreeSlot(f[n - 1])]

(* The walk of delete_record is what its loop makes of it, slot by slot. *)
LEMMA PushesIterate ==
    ASSUME IndicesInRange, NEW head \in SlotOrNil
    PROVE  \E f : /\ Iterates(f, Pushes, OnePush, Before(head), MaxRecords)
                  /\ AfterPushes(head) = f[MaxRecords]
<1>1. OnePush \in [Pushes -> Pushes]
  BY PushType DEF OnePush
<1>2. Before(head) \in Pushes
  BY DEF Before, Pushes, IndicesInRange
<1>3. MaxRecords \in Nat
  BY EntriesAssumption
<1>4. PICK w : Iterates(w, Pushes, OnePush, Before(head), MaxRecords)
  BY ONLY <1>1, <1>2, <1>3, Iteration
<1>5. PushesFrom(w, head)
  <2>1. w \in [0 .. MaxRecords -> Pushes] /\ w[0] = Before(head)
    BY <1>4 DEF Iterates
  <2>2. ASSUME NEW n \in 0 .. MaxRecords, n # 0
        PROVE  w[n] = IF w[n - 1].slot = Nil THEN w[n - 1] ELSE PushFreeSlot(w[n - 1])
    <3>1. n \in 1 .. MaxRecords /\ n - 1 \in 0 .. MaxRecords
      BY <1>3, <2>2
    <3>2. w[n] = OnePush[w[n - 1]] /\ w[n - 1] \in Pushes
      BY <1>4, <2>1, <3>1 DEF Iterates
    <3> QED BY <3>2 DEF OnePush
  <2>3. w = [n \in 0 .. MaxRecords |-> w[n]]
    BY <2>1
  <2> QED BY <2>1, <2>2, <2>3 DEF PushesFrom
<1>6. AfterPushes(head) = (CHOOSE f : PushesFrom(f, head))[MaxRecords]
  BY DEF AfterPushes, PushesFrom, Before
<1>7. PICK f : f = CHOOSE g : PushesFrom(g, head)
  OBVIOUS
<1>8. PushesFrom(f, head)
  BY <1>5, <1>7
<1>9. ASSUME NEW n \in Nat, n <= MaxRecords PROVE f[n] = w[n]
  <2>1. PICK T : T = {m \in Nat : m <= MaxRecords /\ f[m] # w[m]}
    OBVIOUS
  <2>2. ASSUME T # {} PROVE FALSE
    <3>1. PICK m \in T : \A t \in T : m <= t
      BY <2>1, <2>2, SmallestOf
    <3>2. m \in 0 .. MaxRecords /\ f[m] # w[m]
      BY <1>3, <2>1, <3>1
    <3>3. m # 0
      BY <1>5, <1>8, <3>2 DEF PushesFrom
    <3>4. m - 1 \in Nat /\ m - 1 <= MaxRecords /\ ~(m <= m - 1)
      BY <1>3, <3>2, <3>3
    <3>5. f[m - 1] = w[m - 1]
      BY <2>1, <3>1, <3>4
    <3>6. f[m] = IF f[m - 1].slot = Nil THEN f[m - 1] ELSE PushFreeSlot(f[m - 1])
      BY <1>8, <3>2, <3>3 DEF PushesFrom
    <3>7. w[m] = IF w[m - 1].slot = Nil THEN w[m - 1] ELSE PushFreeSlot(w[m - 1])
      BY <1>5, <3>2, <3>3 DEF PushesFrom
    <3> QED BY <3>2, <3>5, <3>6, <3>7
  <2> QED BY <1>9, <2>1, <2>2
<1>10. AfterPushes(head) = w[MaxRecords]
  BY <1>3, <1>6, <1>7, <1>9
<1> QED BY <1>4, <1>10

\* a is where the walk over the chain c of n slots is after k of them
Underway(a, c, n, k) ==
    /\ a.slot = IF k = n THEN Nil ELSE c[k + 1]
    /\ a.freed = {c[i] : i \in 1 .. k}
    /\ a.free = IF k = 0 THEN free_head ELSE c[k]
    /\ \A s \in Slots : s \notin a.freed => a.next[s] = next_index[s] /\ a.ids[s] = slot_id[s]
    /\ \A i \in 1 .. k : a.next[c[i]] = IF i = 1 THEN free_head ELSE c[i - 1]
    /\ \A s \in a.freed : a.ids[s] = NoId
    /\ \A h \in IdBuckets : a.table[h] = IF id_slot[h] \in a.freed THEN Nil ELSE id_slot[h]

LEMMA PushNext ==
    ASSUME IndicesInRange, Ids1To1, NEW M \in SUBSET Slots, \A s \in M : is_used[s],
           NEW head, NEW c, Order(next_index, head, M, c),
           NEW n \in Nat, n = Cardinality(M), NEW k \in 0 .. n - 1,
           NEW a \in Pushes, Underway(a, c, n, k)
    PROVE  a.slot # Nil /\ Underway(PushFreeSlot(a), c, n, k + 1)
<1>1. /\ k \in Nat /\ k + 1 \in 1 .. n /\ k # n /\ k + 1 - 1 = k /\ k + 1 # 0
      /\ \A i \in 1 .. k + 1 : i \in 1 .. n /\ (i = k + 1 \/ i \in 1 .. k)
      /\ \A i \in 1 .. k : i \in 1 .. k + 1 /\ i # k + 1
  OBVIOUS
<1>2. PICK s, h, e : s = c[k + 1] /\ h = IdHash[slot_id[s]] /\ e = PushFreeSlot(a)
  OBVIOUS
<1>3. /\ c \in [1 .. n -> M]
      /\ \A i, j \in 1 .. n : c[i] = c[j] => i = j
      /\ next_index[s] = IF k + 1 = n THEN Nil ELSE c[k + 1 + 1]
  BY <1>1, <1>2 DEF Order
<1>4. s \in M /\ s \in Slots /\ is_used[s] /\ s # Nil /\ a.slot = s
  BY <1>1, <1>2, <1>3, SlotFacts DEF Underway
<1>5. a.freed = {c[i] : i \in 1 .. k} /\ s \notin a.freed
  <2>1. \A i \in 1 .. k : c[i] # s
    BY <1>1, <1>2, <1>3
  <2> QED BY <2>1 DEF Underway
<1>6. a.next[s] = next_index[s] /\ a.ids[s] = slot_id[s]
  BY <1>4, <1>5 DEF Underway
<1>7. /\ e.slot = next_index[s]
      /\ e.table = [a.table EXCEPT ![h] = IF @ = s THEN Nil ELSE @]
      /\ e.next = [a.next EXCEPT ![s] = a.free] /\ e.free = s
      /\ e.ids = [a.ids EXCEPT ![s] = NoId] /\ e.freed = a.freed \cup {s}
  BY <1>2, <1>4, <1>6 DEF PushFreeSlot
<1>8. /\ a.table \in [IdBuckets -> SlotOrNil] /\ a.next \in [Slots -> SlotOrNil]
      /\ a.ids \in [Slots -> Ids \cup {NoId}] /\ a.freed \subseteq Slots
  BY DEF Pushes
<1>9. h \in IdBuckets /\ id_slot[h] = s
      /\ \A g \in IdBuckets : id_slot[g] = s => g = h
  <2>1. s \in Used /\ h \in IdBuckets
    BY <1>2, <1>4, EntryBucketsAssumption DEF Used, IndicesInRange
  <2> QED BY <1>2, <1>4, <2>1 DEF Ids1To1
<1>10. e.slot = IF k + 1 = n THEN Nil ELSE c[k + 1 + 1]
  BY <1>3, <1>7
<1>11. e.freed = {c[i] : i \in 1 .. k + 1}
  BY <1>1, <1>2, <1>5, <1>7
<1>12. e.free = IF k + 1 = 0 THEN free_head ELSE c[k + 1]
  BY <1>1, <1>2, <1>7
<1>13. \A t \in Slots : t \notin e.freed =>
           e.next[t] = next_index[t] /\ e.ids[t] = slot_id[t]
  <2> SUFFICES ASSUME NEW t \in Slots, t \notin e.freed
               PROVE  e.next[t] = next_index[t] /\ e.ids[t] = slot_id[t]
    OBVIOUS
  <2>1. t # s /\ t \notin a.freed
    BY <1>7
  <2>2. a.next[t] = next_index[t] /\ a.ids[t] = slot_id[t]
    BY <2>1 DEF Underway
  <2>3. e.next[t] = a.next[t] /\ e.ids[t] = a.ids[t]
    BY <1>7, <1>8, <2>1
  <2> QED BY <2>2, <2>3
<1>14. \A i \in 1 .. k + 1 : e.next[c[i]] = IF i = 1 THEN free_head ELSE c[i - 1]
  <2> TAKE i \in 1 .. k + 1
  <2>1. CASE i = k + 1
    <3>1. e.next[c[i]] = a.free
      BY <1>2, <1>4, <1>7, <1>8, <2>1
    <3>2. a.free = IF k = 0 THEN free_head ELSE c[k]
      BY DEF Underway
    <3>3. (i = 1) <=> (k = 0)
      BY <1>1, <2>1
    <3>4. i - 1 = k
      BY <1>1, <2>1
    <3> QED BY <3>1, <3>2, <3>3, <3>4
  <2>2. CASE i # k + 1
    <3>1. i \in 1 .. k
      BY <1>1, <2>2
    <3>2. c[i] \in a.freed /\ c[i] \in Slots /\ c[i] # s
      BY <1>5, <1>8, <3>1
    <3>3. e.next[c[i]] = a.next[c[i]]
      BY <1>7, <1>8, <3>2
    <3>4. a.next[c[i]] = IF i = 1 THEN free_head ELSE c[i - 1]
      BY <3>1 DEF Underway
    <3> QED BY <3>3, <3>4
  <2> QED BY <2>1, <2>2
<1>15. \A t \in e.freed : e.ids[t] = NoId
  <2> TAKE t \in e.freed
  <2>1. CASE t = s
    BY <1>4, <1>7, <1>8, <2>1
  <2>2. CASE t # s
    <3>1. t \in a.freed /\ t \in Slots
      BY <1>7, <1>8, <2>2
    <3>2. a.ids[t] = NoId
      BY <3>1 DEF Underway
    <3> QED BY <1>7, <1>8, <2>2, <3>1, <3>2
  <2> QED BY <2>1, <2>2
<1>16. \A g \in IdBuckets : e.table[g] = IF id_slot[g] \in e.freed THEN Nil ELSE id_slot[g]
  <2> TAKE g \in IdBuckets
  <2>1. a.table[g] = IF id_slot[g] \in a.freed THEN Nil ELSE id_slot[g]
    BY DEF Underway
  <2>2. CASE g = h
    BY <1>5, <1>7, <1>8, <1>9, <2>1, <2>2
  <2>3. CASE g # h
    BY <1>7, <1>8, <1>9, <2>1, <2>3
  <2> QED BY <2>2, <2>3
<1>17. Underway(e, c, n, k + 1)
  BY <1>10, <1>11, <1>12, <1>13, <1>14, <1>15, <1>16 DEF Underway
<1> QED BY <1>2, <1>4, <1>17

(* On exact lists the walk frees the whole chain once, and nothing else. *)
LEMMA PushesWholeChain ==
    ASSUME IndicesInRange, Ids1To1, NEW M \in SUBSET Slots, \A s \in M : is_used[s],
           NEW head, NEW c, Order(next_index, head, M, c),
           NEW n \in Nat, n = Cardinality(M)
    PROVE  Underway(AfterPushes(head), c, n, n)
<1>1. IsFiniteSet(M) /\ n <= MaxRecords /\ MaxRecords \in Nat /\ Nil \notin Slots
  BY SlotSets, EntriesAssumption, SlotFacts
<1>2. c \in [1 .. n -> M] /\ head = IF M = {} THEN Nil ELSE c[1]
  BY DEF Order
<1>3. (M = {}) <=> (n = 0)
  BY <1>1, FS_EmptySet
<1>4. head \in SlotOrNil
  <2>1. n # 0 => 1 \in 1 .. n
    OBVIOUS
  <2> QED BY <1>2, <1>3, <2>1 DEF SlotOrNil
<1>5. PICK f : /\ Iterates(f, Pushes, OnePush, Before(head), MaxRecords)
               /\ AfterPushes(head) = f[MaxRecords]
  BY <1>4, PushesIterate
<1> DEFINE Good(k) == Underway(f[k], c, n, IF k < n THEN k ELSE n)
<1>6. PICK T : T = {k \in Nat : k <= MaxRecords /\ ~Good(k)}
  OBVIOUS
<1>7. Good(0)
  <2>1. f[0] = Before(head)
    BY <1>5 DEF Iterates
  <2>2. /\ Before(head).slot = head /\ Before(head).freed = {}
        /\ Before(head).free = free_head /\ Before(head).next = next_index
        /\ Before(head).ids = slot_id /\ Before(head).table = id_slot
    BY DEF Before
  <2>3. (IF 0 < n THEN 0 ELSE n) = 0
    OBVIOUS
  <2>4. 0 + 1 = 1 /\ 1 .. 0 = {}
    OBVIOUS
  <2>5. Before(head).slot = IF 0 = n THEN Nil ELSE c[0 + 1]
    BY <1>2, <1>3, <2>2, <2>4
  <2>6. Underway(Before(head), c, n, 0)
    BY <2>2, <2>4, <2>5 DEF Underway
  <2> QED BY <2>1, <2>3, <2>6
<1>8. ASSUME T # {} PROVE FALSE
  <2>1. PICK k \in T : \A t \in T : k <= t
    BY <1>6, <1>8, SmallestOf
  <2>2. k \in Nat /\ k <= MaxRecords /\ ~Good(k)
    BY <1>6, <2>1
  <2>3. k # 0
    BY <1>7, <2>2
  <2>4. PICK j : j = k - 1
    OBVIOUS
  <2>5. /\ j \in Nat /\ j <= MaxRecords /\ ~(k <= j) /\ k = j + 1
        /\ k \in 1 .. MaxRecords /\ j \in 0 .. MaxRecords
    BY <1>1, <2>2, <2>3, <2>4
  <2>6. Good(j)
    BY <1>6, <2>1, <2>5
  <2>7. f[k] = OnePush[f[j]] /\ f[j] \in Pushes
    BY <1>5, <2>4, <2>5 DEF Iterates
  <2>8. f[k] = IF f[j].slot = Nil THEN f[j] ELSE PushFreeSlot(f[j])
    BY <2>7 DEF OnePush
  <2>9. CASE j < n
    <3>1. j \in 0 .. n - 1 /\ (IF j < n THEN j ELSE n) = j
          /\ (IF k < n THEN k ELSE n) = j + 1
      BY <2>5, <2>9
    <3>2. Underway(f[j], c, n, j)
      BY <2>6, <3>1
    <3>3. f[j].slot # Nil /\ Underway(PushFreeSlot(f[j]), c, n, j + 1)
      BY <2>7, <3>1, <3>2, PushNext
    <3> QED BY <2>2, <2>8, <3>1, <3>3
  <2>10. CASE ~(j < n)
    <3>1. (IF j < n THEN j ELSE n) = n /\ (IF k < n THEN k ELSE n) = n
      BY <2>5, <2>10
    <3>2. Underway(f[j], c, n, n)
      BY <2>6, <3>1
    <3>3. f[j].slot = Nil
      BY <3>2 DEF Underway
    <3> QED BY <2>2, <2>8, <3>1, <3>2, <3>3
  <2> QED BY <2>9, <2>10
<1>9. Good(MaxRecords)
  BY <1>1, <1>6, <1>8
<1>10. (IF MaxRecords < n THEN MaxRecords ELSE n) = n
  BY <1>1
<1> QED BY <1>5, <1>9, <1>10

LEMMA ExactDeleteRecord ==
    ASSUME IndicesInRange, NEW H, Chains(H), Ids1To1,
           NEW g \in Groups, NEW c \in Countries, DeleteRecord(g, c)
    PROVE  /\ Ids1To1'
           /\ \E G : Chains(G)' /\ (SortedAs(H) => SortedAs(G)')
<1>1. PICK b, M, n, a : /\ b = FindBucket(g, c) /\ M = H[b] /\ n = Cardinality(M)
                        /\ a = AfterPushes(head_slot_idx[b])
  OBVIOUS
<1>2. b \in Buckets /\ bucket_key[b] # NoKey
  BY <1>1, FindBucketFacts DEF DeleteRecord
<1>3. /\ M \in SUBSET Slots /\ M # {} /\ \A s \in M : is_used[s]
      /\ IsFiniteSet(M) /\ n \in Nat /\ n # 0 /\ Nil \notin Slots
  <2>1. M \in SUBSET Slots /\ M # {} /\ \A s \in M : is_used[s]
    BY <1>1, <1>2 DEF Chains
  <2> QED BY <1>1, <2>1, SlotSets, SlotFacts, FS_EmptySet
<1>4. PICK d : Order(next_index, head_slot_idx[b], M, d)
  BY <1>1, <1>2 DEF Chains, IsDoubleList
<1>5. Underway(a, d, n, n)
  BY <1>1, <1>3, <1>4, PushesWholeChain
<1>6. d \in [1 .. n -> M] /\ \A s \in M : \E i \in 1 .. n : d[i] = s
  BY <1>1, <1>4 DEF Order
<1>7. a.freed = M
  BY <1>5, <1>6 DEF Underway
<1>8. /\ a.free = d[n]
      /\ \A s \in Slots : s \notin M => a.next[s] = next_index[s] /\ a.ids[s] = slot_id[s]
      /\ \A i \in 1 .. n : a.next[d[i]] = IF i = 1 THEN free_head ELSE d[i - 1]
      /\ \A h \in IdBuckets : a.table[h] = IF id_slot[h] \in M THEN Nil ELSE id_slot[h]
  BY <1>3, <1>5, <1>7 DEF Underway
<1>9. /\ bucket_key' = [bucket_key EXCEPT ![b] = NoKey]
      /\ head_slot_idx' = [head_slot_idx EXCEPT ![b] = Nil]
      /\ id_slot' = a.table /\ next_index' = a.next /\ free_head' = a.free
      /\ slot_id' = a.ids
      /\ prev_index' = [s \in Slots |-> IF s \in M THEN Nil ELSE prev_index[s]]
      /\ is_used' = [s \in Slots |-> is_used[s] /\ s \notin M]
      /\ slot_key' = [s \in Slots |-> IF s \in M THEN NoKey ELSE slot_key[s]]
  BY <1>1, <1>7 DEF DeleteRecord
<1>10. PICK G : G = [H EXCEPT ![b] = {}]
  OBVIOUS
<1>11. /\ H \in [Buckets -> SUBSET Slots] /\ G \in [Buckets -> SUBSET Slots]
       /\ G[b] = {}
       /\ \A e \in Buckets : e # b => G[e] = H[e] /\ H[e] \cap M = {}
  BY <1>1, <1>2, <1>10 DEF Chains
<1>12. /\ bucket_key'[b] = NoKey
       /\ \A e \in Buckets : e # b => /\ bucket_key'[e] = bucket_key[e]
                                      /\ head_slot_idx'[e] = head_slot_idx[e]
       /\ \A t \in Slots : t \notin M => /\ next_index'[t] = next_index[t]
                                         /\ prev_index'[t] = prev_index[t]
                                         /\ slot_key'[t] = slot_key[t]
                                         /\ slot_id'[t] = slot_id[t]
       /\ \A t \in Slots : is_used'[t] <=> (is_used[t] /\ t \notin M)
  BY <1>2, <1>8, <1>9 DEF IndicesInRange
<1>13. IsList(next_index', free_head', Slots \ Used')
  <2>1. PICK U, f : U = Slots \ Used /\ Order(next_index, free_head, U, f)
    BY DEF Chains, IsList
  <2>2. IsFiniteSet(U) /\ U \cap M = {} /\ U \subseteq Slots
    BY <1>3, <2>1, SlotSets DEF Used
  <2>3. \A t \in U : next_index'[t] = next_index[t]
    BY <1>12, <2>2
  <2>4. \A i \in 1 .. Cardinality(M) :
            next_index'[d[i]] = IF i = 1 THEN free_head ELSE d[i - 1]
    BY <1>1, <1>8, <1>9
  <2>5. IsFiniteSet(M) /\ M # {}
    BY <1>3
  <2>6. IsList(next_index', d[Cardinality(M)], U \cup M)
    BY ONLY <1>4, <2>1, <2>2, <2>3, <2>4, <2>5, ListPushAll
  <2>7. Slots \ Used' = U \cup M
    BY <1>3, <1>12, <2>1 DEF Used
  <2> QED BY <1>1, <1>8, <1>9, <2>6, <2>7
<1>14. \A e \in Buckets :
          IF bucket_key'[e] = NoKey THEN G[e] = {}
          ELSE /\ G[e] # {}
               /\ IsDoubleList(next_index', prev_index', head_slot_idx'[e], G[e])
               /\ \A t \in G[e] : slot_key'[t][1] = bucket_key'[e][1]
  <2> TAKE e \in Buckets
  <2>1. CASE e = b
    BY <1>11, <1>12, <2>1
  <2>2. CASE e # b /\ bucket_key[e] = NoKey
    BY <1>11, <1>12, <2>2 DEF Chains
  <2>3. CASE e # b /\ bucket_key[e] # NoKey
    <3>1. \A t \in H[e] : t \in Slots /\ t \notin M
      BY <1>11, <2>3
    <3>2. \A t \in H[e] : /\ next_index'[t] = next_index[t]
                          /\ prev_index'[t] = prev_index[t]
                          /\ slot_key'[t][1] = slot_key[t][1]
      BY <1>12, <3>1
    <3>3. bucket_key'[e] = bucket_key[e] /\ head_slot_idx'[e] = head_slot_idx[e] /\ G[e] = H[e]
      BY <1>11, <1>12, <2>3
    <3> QED BY <2>3, <3>2, <3>3, ChainStays
  <2> QED BY <2>1, <2>2, <2>3
<1>15. \A t \in Slots : is_used'[t] <=> \E e \in Buckets : t \in G[e]
  <2> TAKE t \in Slots
  <2>1. CASE t \in M
    <3>1. \A e \in Buckets : t \notin G[e]
      BY <1>11, <2>1
    <3> QED BY <1>12, <2>1, <3>1
  <2>2. CASE t \notin M
    <3>1. \A e \in Buckets : t \in G[e] <=> t \in H[e]
      BY <1>1, <1>11, <2>2
    <3> QED BY <1>12, <2>2, <3>1 DEF Chains
  <2> QED BY <2>1, <2>2
<1>16. \A e, f \in Buckets : e # f => G[e] \cap G[f] = {}
  <2>1. \A e \in Buckets : G[e] \subseteq H[e]
    BY <1>11
  <2> QED BY <2>1 DEF Chains
<1>17. Chains(G)'
  BY <1>11, <1>13, <1>14, <1>15, <1>16 DEF Chains
<1>18. SortedAs(H) => SortedAs(G)'
  <2> SUFFICES ASSUME SortedAs(H), NEW e \in Buckets, NEW t \in G[e]
               PROVE  slot_key'[t] = bucket_key'[e]
    BY DEF SortedAs
  <2>1. e # b
    BY <1>11
  <2>2. t \in H[e] /\ t \in Slots /\ t \notin M
    BY <1>11, <2>1
  <2> QED BY <1>12, <2>1, <2>2 DEF SortedAs
<1>19. Ids1To1'
  <2>1. ASSUME NEW t \in Used' PROVE id_slot'[IdHash[slot_id'[t]]] = t
    <3>1. t \in Slots /\ t \notin M /\ t \in Used /\ slot_id'[t] = slot_id[t]
      BY <1>12, <2>1 DEF Used
    <3>2. id_slot[IdHash[slot_id[t]]] = t /\ IdHash[slot_id[t]] \in IdBuckets
      BY <3>1, EntryBucketsAssumption DEF Ids1To1, IndicesInRange
    <3> QED BY <1>8, <1>9, <3>1, <3>2
  <2>2. ASSUME NEW h \in IdBuckets, id_slot'[h] # Nil
        PROVE  id_slot'[h] \in Used' /\ IdHash[slot_id'[id_slot'[h]]] = h
    <3>1. id_slot'[h] = id_slot[h] /\ id_slot[h] \notin M
      BY <1>8, <1>9, <2>2
    <3>2. id_slot[h] \in Used /\ IdHash[slot_id[id_slot[h]]] = h
      BY <2>2, <3>1 DEF Ids1To1
    <3> QED BY <1>12, <3>1, <3>2 DEF Used
  <2> QED BY <2>1, <2>2 DEF Ids1To1
<1> QED BY <1>17, <1>18, <1>19

-----------------------------------------------------------------------------
(* init on an existing file *)

LEMMA FirstUnusedFacts ==
    ASSUME NEW p \in 0 .. MaxRecords
    PROVE  /\ p = MaxRecords => FirstUnused(p) = Nil
           /\ p \in Slots =>
                  FirstUnused(p) = IF is_used[p] THEN FirstUnused(p + 1) ELSE p
           /\ FirstUnused(p) \in SlotOrNil
<1>1. MaxRecords \in Nat /\ Slots = 0 .. MaxRecords - 1
  BY EntriesAssumption DEF Slots
<1>2. /\ p = MaxRecords => FirstFree(is_used, MaxRecords, p) = Nil
      /\ p \in 0 .. MaxRecords - 1 =>
             FirstFree(is_used, MaxRecords, p) =
                 IF is_used[p] THEN FirstFree(is_used, MaxRecords, p + 1) ELSE p
      /\ FirstFree(is_used, MaxRecords, p) \in (0 .. MaxRecords - 1) \cup {Nil}
  BY <1>1, FirstFreeFacts
<1>3. \A q : FirstUnused(q) = FirstFree(is_used, MaxRecords, q)
  BY DEF FirstUnused, FirstFree, Slots
<1> QED BY <1>1, <1>2, <1>3 DEF SlotOrNil

(* The entry of the id table it writes for a hash: the last used slot whose *)
(* id has that hash.                                                        *)
LEMMA ReopenedEntry ==
    ASSUME Reopen, NEW h \in IdBuckets
    PROVE  /\ id_slot'[h] \in SlotOrNil
           /\ id_slot'[h] # Nil =>
                  is_used[id_slot'[h]] /\ IdHash[slot_id[id_slot'[h]]] = h
           /\ \A s \in Slots : is_used[s] /\ IdHash[slot_id[s]] = h => id_slot'[h] # Nil
<1>1. PICK S : S = {s \in Slots : is_used[s] /\ IdHash[slot_id[s]] = h}
  OBVIOUS
<1>2. id_slot'[h] = IF S = {} THEN Nil ELSE CHOOSE s \in S : \A t \in S : t <= s
  BY <1>1 DEF Reopen
<1>3. S # {} => id_slot'[h] \in S
  <2> SUFFICES ASSUME S # {} PROVE id_slot'[h] \in S
    OBVIOUS
  <2>1. MaxRecords \in Nat /\ S \in SUBSET (0 .. MaxRecords - 1)
    BY <1>1, EntriesAssumption DEF Slots
  <2>2. \E s \in S : \A t \in S : t <= s
    BY <2>1, LargestOf
  <2> QED BY <1>2, <2>2
<1> QED BY <1>1, <1>2, <1>3, SlotFacts

LEMMA ExactReopen ==
    ASSUME IndicesInRange, NEW H, Chains(H), Ids1To1, Reopen
    PROVE  /\ Ids1To1' /\ Chains(H)'
           /\ SortedAs(H) => SortedAs(H)'
<1>1. /\ next_index' = [s \in Slots |->
             IF is_used[s] THEN next_index[s] ELSE FirstUnused(s + 1)]
      /\ free_head' = FirstUnused(0)
      /\ UNCHANGED <<bucket_key, head_slot_idx, is_used, prev_index, slot_id,
                     slot_key, slot_value>>
  BY DEF Reopen
<1>2. MaxRecords \in Nat /\ Slots = 0 .. MaxRecords - 1
  BY EntriesAssumption DEF Slots
<1>3. \A s \in Slots : s + 1 \in 0 .. MaxRecords /\ s \in 0 .. MaxRecords
  BY <1>2
<1>4. 0 \in 0 .. MaxRecords /\ MaxRecords \in 0 .. MaxRecords
  BY <1>2
<1>5. Used' = Used
  BY <1>1 DEF Used
<1>6. IsList(next_index', free_head', Slots \ Used)
  <2>1. PICK first, U, N : /\ first = [p \in 0 .. MaxRecords |-> FirstUnused(p)]
                           /\ U = Slots \ Used /\ N = MaxRecords
    OBVIOUS
  <2>2. first[N] = Nil /\ first[0] = FirstUnused(0)
    BY <1>4, <2>1, FirstUnusedFacts
  <2>3. \A p \in 0 .. N - 1 : first[p] = IF p \in U THEN p ELSE first[p + 1]
    BY <1>2, <1>3, <2>1, FirstUnusedFacts DEF Used
  <2>4. \A s \in U : next_index'[s] = first[s + 1]
    BY <1>1, <1>3, <2>1 DEF Used
  <2>5. N \in Nat /\ U \in SUBSET (0 .. N - 1)
    BY <1>2, <2>1
  <2>6. IsList(next_index', first[0], U)
    BY ONLY <2>2, <2>3, <2>4, <2>5, ListAscending
  <2> QED BY <1>1, <2>1, <2>2, <2>6
<1>7. \A a \in Buckets :
         IF bucket_key'[a] = NoKey THEN H[a] = {}
         ELSE /\ H[a] # {}
              /\ IsDoubleList(next_index', prev_index', head_slot_idx'[a], H[a])
              /\ \A t \in H[a] : slot_key'[t][1] = bucket_key'[a][1]
  <2> TAKE a \in Buckets
  <2>1. CASE bucket_key[a] = NoKey
    BY <1>1, <2>1 DEF Chains
  <2>2. CASE bucket_key[a] # NoKey
    <3>1. \A t \in H[a] : t \in Slots /\ is_used[t]
      BY DEF Chains
    <3>2. \A t \in H[a] : /\ next_index'[t] = next_index[t]
                          /\ prev_index'[t] = prev_index[t]
                          /\ slot_key'[t][1] = slot_key[t][1]
      BY <1>1, <3>1
    <3>3. bucket_key'[a] = bucket_key[a] /\ head_slot_idx'[a] = head_slot_idx[a]
      BY <1>1
    <3> QED BY <2>2, <3>2, <3>3, ChainStays
  <2> QED BY <2>1, <2>2
<1>8. Chains(H)'
  BY <1>1, <1>5, <1>6, <1>7 DEF Chains
<1>9. Ids1To1'
  <2>1. ASSUME NEW t \in Used PROVE id_slot'[IdHash[slot_id[t]]] = t
    <3>1. PICK h : h = IdHash[slot_id[t]]
      OBVIOUS
    <3>2. t \in Slots /\ is_used[t] /\ h \in IdBuckets /\ id_slot[h] = t
      BY <3>1, EntryBucketsAssumption DEF Used, IndicesInRange, Ids1To1
    <3>3. /\ id_slot'[h] \in Slots /\ is_used[id_slot'[h]]
          /\ IdHash[slot_id[id_slot'[h]]] = h
      BY <3>1, <3>2, ReopenedEntry, SlotFacts
    <3>4. id_slot[h] = id_slot'[h]
      BY <3>3 DEF Ids1To1, Used
    <3> QED BY <3>1, <3>2, <3>4
  <2>2. ASSUME NEW h \in IdBuckets, id_slot'[h] # Nil
        PROVE  id_slot'[h] \in Used /\ IdHash[slot_id[id_slot'[h]]] = h
    BY <2>2, ReopenedEntry, SlotFacts DEF Used
  <2> QED BY <1>1, <1>5, <2>1, <2>2 DEF Ids1To1
<1>10. SortedAs(H) => SortedAs(H)'
  BY <1>1 DEF SortedAs
<1> QED BY <1>8, <1>9, <1>10

LEMMA RangeDeleteRecord ==
    ASSUME IndicesInRange, NEW g \in Groups, NEW c \in Countries, DeleteRecord(g, c)
    PROVE  IndicesInRange'
<1>1. PICK b, a : b = FindBucket(g, c) /\ a = AfterPushes(head_slot_idx[b])
  OBVIOUS
<1>2. b \in Buckets /\ head_slot_idx[b] \in SlotOrNil
  BY <1>1, FindBucketFacts DEF DeleteRecord, IndicesInRange
<1>3. a \in Pushes
  <2>1. PICK f : /\ Iterates(f, Pushes, OnePush, Before(head_slot_idx[b]), MaxRecords)
                 /\ a = f[MaxRecords]
    BY <1>1, <1>2, PushesIterate
  <2>2. MaxRecords \in 0 .. MaxRecords
    BY EntriesAssumption
  <2> QED BY <2>1, <2>2 DEF Iterates
<1>4. /\ a.table \in [IdBuckets -> SlotOrNil] /\ a.next \in [Slots -> SlotOrNil]
      /\ a.free \in SlotOrNil /\ a.ids \in [Slots -> Ids \cup {NoId}]
  BY <1>3 DEF Pushes
<1>5. /\ bucket_key' = [bucket_key EXCEPT ![b] = NoKey]
      /\ head_slot_idx' = [head_slot_idx EXCEPT ![b] = Nil]
      /\ id_slot' = a.table /\ next_index' = a.next /\ free_head' = a.free
      /\ slot_id' = a.ids
      /\ prev_index' = [s \in Slots |-> IF s \in a.freed THEN Nil ELSE prev_index[s]]
      /\ is_used' = [s \in Slots |-> is_used[s] /\ s \notin a.freed]
      /\ slot_key' = [s \in Slots |-> IF s \in a.freed THEN NoKey ELSE slot_key[s]]
      /\ slot_value' = [s \in Slots |-> IF s \in a.freed THEN NoValue ELSE slot_value[s]]
  BY <1>1 DEF DeleteRecord
<1>6. /\ bucket_key' \in [Buckets -> Keys \cup {NoKey}]
      /\ head_slot_idx' \in [Buckets -> SlotOrNil]
      /\ \A e \in Buckets : bucket_key'[e] # NoKey => head_slot_idx'[e] # Nil
  BY <1>2, <1>5, SlotFacts DEF IndicesInRange
<1>7. /\ prev_index' \in [Slots -> SlotOrNil]
      /\ is_used' \in [Slots -> BOOLEAN]
      /\ slot_key' \in [Slots -> Keys \cup {NoKey}]
      /\ slot_value' \in [Slots -> Values \cup {NoValue}]
  BY <1>5, SlotFacts DEF IndicesInRange
<1> QED BY <1>4, <1>5, <1>6, <1>7 DEF IndicesInRange

LEMMA RangeReopen ==
    ASSUME IndicesInRange, Reopen
    PROVE  IndicesInRange'
<1>1. id_slot' \in [IdBuckets -> SlotOrNil]
  <2>1. \A h \in IdBuckets : id_slot'[h] \in SlotOrNil
    BY ReopenedEntry
  <2> QED BY <2>1 DEF Reopen
<1>2. next_index' \in [Slots -> SlotOrNil] /\ free_head' \in SlotOrNil
  <2>1. \A s \in Slots : s + 1 \in 0 .. MaxRecords
    BY EntriesAssumption DEF Slots
  <2>2. 0 \in 0 .. MaxRecords
    BY EntriesAssumption
  <2>3. \A p \in 0 .. MaxRecords : FirstUnused(p) \in SlotOrNil
    BY FirstUnusedFacts
  <2> QED BY <2>1, <2>2, <2>3 DEF Reopen, IndicesInRange
<1> QED BY <1>1, <1>2 DEF IndicesInRange, Reopen

-----------------------------------------------------------------------------

LEMMA RangeNext == IndicesInRange /\ [FullNext]_vars => IndicesInRange'
<1> SUFFICES ASSUME IndicesInRange, [FullNext]_vars PROVE IndicesInRange'
  OBVIOUS
<1>1. CASE \E g \in Groups, c \in Countries, id \in Ids, v \in Values :
               AppendRecord(g, c, id, v)
  BY <1>1, RangeAppend
<1>2. CASE \E g \in Groups, c \in Countries, id \in Ids, v \in Values :
               UpdateRecord(g, c, id, v)
  BY <1>2, RangeUpdate
<1>3. CASE \E g \in Groups, id \in Ids : DeleteRecordFromUuid(g, id)
  BY <1>3, RangeDelete
<1>4. CASE \E g \in Groups, c \in Countries : DeleteRecord(g, c)
  BY <1>4, RangeDeleteRecord
<1>5. CASE Reopen
  BY <1>5, RangeReopen
<1>6. CASE UNCHANGED vars
  BY <1>6 DEF vars, IndicesInRange
<1> QED BY <1>1, <1>2, <1>3, <1>4, <1>5, <1>6 DEF FullNext, Next

LEMMA AlwaysInRange == FullSpec => []IndicesInRange
<1> QED
  BY RangeInit, RangeNext, PTL DEF FullSpec

(* No call leaves the arrays, and append_record never reads the head -1 of *)
(* an occupied bucket (MmapIpGroup.cpp:172), damaged lists included.       *)
THEOREM IpGroupIndices == FullSpec => []IndicesInRange
<1> QED
  BY AlwaysInRange, PTL

(* From exact lists to exact lists, by every step but an astray delete *)
LEMMA ExactStep ==
    ASSUME IndicesInRange, [FullNext]_vars, ~AstrayDelete, NEW H, Chains(H), Ids1To1,
           \A b \in Buckets : Hung(b) = H[b]
    PROVE  /\ Ids1To1'
           /\ \E G : Chains(G)' /\ (SortedAs(H) /\ ~Moved => SortedAs(G)')
<1>1. ASSUME NEW g \in Groups, NEW c \in Countries, NEW id \in Ids, NEW v \in Values,
             AppendRecord(g, c, id, v)
      PROVE  /\ Ids1To1'
             /\ \E G : Chains(G)' /\ (SortedAs(H) /\ ~Moved => SortedAs(G)')
  BY <1>1, ExactAppend
<1>2. ASSUME NEW g \in Groups, NEW c \in Countries, NEW id \in Ids, NEW v \in Values,
             UpdateRecord(g, c, id, v)
      PROVE  /\ Ids1To1'
             /\ \E G : Chains(G)' /\ (SortedAs(H) /\ ~Moved => SortedAs(G)')
  BY <1>2, ExactUpdate
<1>3. ASSUME NEW g \in Groups, NEW id \in Ids, DeleteRecordFromUuid(g, id)
      PROVE  /\ Ids1To1'
             /\ \E G : Chains(G)' /\ (SortedAs(H) /\ ~Moved => SortedAs(G)')
  <2>1. SlotOf(id) \in Hung(BucketOf(SlotOf(id)))
    BY <1>3 DEF AstrayDelete
  <2>2. BucketOf(SlotOf(id)) \in Buckets
    BY <1>3, FindBucketFacts DEF DeleteRecordFromUuid, BucketOf
  <2>3. SlotOf(id) \in H[BucketOf(SlotOf(id))]
    BY <2>1, <2>2
  <2> QED BY <1>3, <2>3, ExactDelete
<1>4. ASSUME NEW g \in Groups, NEW c \in Countries, DeleteRecord(g, c)
      PROVE  /\ Ids1To1'
             /\ \E G : Chains(G)' /\ (SortedAs(H) /\ ~Moved => SortedAs(G)')
  BY <1>4, ExactDeleteRecord
<1>5. CASE Reopen
  BY <1>5, ExactReopen
<1>6. CASE UNCHANGED vars
  <2>1. Used' = Used
    BY <1>6 DEF vars, Used
  <2>2. Chains(H)' /\ Ids1To1'
    BY <1>6, <2>1 DEF vars, Chains, Ids1To1
  <2>3. SortedAs(H) => SortedAs(H)'
    BY <1>6 DEF vars, SortedAs
  <2> QED BY <2>2, <2>3
<1> QED BY <1>1, <1>2, <1>3, <1>4, <1>5, <1>6 DEF FullNext, Next

LEMMA StaysExact ==
    ASSUME IndicesInRange, IndicesInRange', [FullNext]_vars, ListsExact, ~AstrayDelete
    PROVE  ListsExact' /\ (Sorted /\ ~Moved => Sorted')
<1>1. PICK H : H = [b \in Buckets |-> Hung(b)]
  OBVIOUS
<1>2. Chains(H) /\ Ids1To1 /\ \A b \in Buckets : Hung(b) = H[b]
  BY <1>1, ExactChains
<1>3. Ids1To1'
  BY <1>2, ExactStep
<1>4. PICK G : Chains(G)' /\ (SortedAs(H) /\ ~Moved => SortedAs(G)')
  BY <1>2, ExactStep
<1>5. ListsExact'
  <2>1. (\A F : Chains(F) /\ Ids1To1 => ListsExact)'
    BY ChainsExactNext
  <2> QED BY <1>3, <1>4, <2>1
<1>6. \A b \in Buckets : Hung(b)' = G[b]
  <2>1. (\A F : Chains(F) => \A b \in Buckets : Hung(b) = F[b])'
    BY HungNext
  <2> QED BY <1>4, <2>1
<1>7. Sorted => SortedAs(H)
  BY <1>2 DEF Sorted, SortedAs
<1>8. SortedAs(G)' => Sorted'
  BY <1>6 DEF Sorted, SortedAs
<1> QED BY <1>4, <1>5, <1>7, <1>8

LEMMA SortedLookups == Sorted => LookupsExact
<1> SUFFICES ASSUME Sorted, NEW g \in Groups, NEW c \in Countries,
                    NEW i \in DOMAIN GetRecord(g, c)
             PROVE  slot_key[GetRecord(g, c)[i]] = <<g, c>>
  BY DEF LookupsExact
<1>1. PICK b : b = FindBucket(g, c)
  OBVIOUS
<1>2. b # NoBucket /\ bucket_key[b] # NoKey
  <2>1. DOMAIN <<>> = {}
    OBVIOUS
  <2> QED BY <1>1, <2>1 DEF GetRecord
<1>3. b \in Buckets /\ bucket_key[b] = <<g, c>>
  BY <1>1, <1>2, FindBucketFacts
<1>4. GetRecord(g, c)[i] \in Hung(b)
  BY <1>1, <1>2 DEF GetRecord, Hung
<1> QED BY <1>3, <1>4 DEF Sorted

LEMMA SortedLookupsNext == Sorted' => LookupsExact'
  BY SortedLookups, PTL

(* The lists of IpGroupEntry::Mmap - free list, chains and id table - are    *)
(* damaged by nothing but a delete_record_from_uuid whose second find_bucket *)
(* misses the entry's chain: for every capacity and every probe order, every *)
(* other call of the class, a reopened file included, keeps exact lists      *)
(* exact.                                                                    *)
THEOREM IpGroupDamage == FullSpec => DamagedOnlyByAstrayDelete
<1>1. ASSUME IndicesInRange, IndicesInRange', [FullNext]_vars
      PROVE  [ListsExact /\ ~AstrayDelete => ListsExact']_vars
  BY <1>1, StaysExact
<1> QED
  BY <1>1, AlwaysInRange, PTL DEF FullSpec, DamagedOnlyByAstrayDelete

(* As long as no update moves an entry to another country and no delete     *)
(* goes astray, get_record answers a group and a country with entries of    *)
(* that group and country only, for every capacity and every probe order.   *)
THEOREM IpGroupLookups == FullSpec => LookupsOfOneCountry
<1>1. ASSUME IndicesInRange, IndicesInRange', [FullNext]_vars
      PROVE  [ListsExact /\ Sorted /\ ~Moved /\ ~AstrayDelete
                  => Sorted' /\ LookupsExact']_vars
  BY <1>1, StaysExact, SortedLookupsNext
<1> QED
  BY <1>1, AlwaysInRange, PTL DEF FullSpec, LookupsOfOneCountry
=============================================================================
