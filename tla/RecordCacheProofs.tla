------------------------- MODULE RecordCacheProofs -------------------------
(***************************************************************************)
(* Theorems about Records::Mmap for every table size, every probe order    *)
(* and every id hash.  IInv is the inductive invariant: the local links of *)
(* a slot say nothing of a detached ring of slots, so the invariant names  *)
(* the whole sequence of each list.                                        *)
(***************************************************************************)
EXTENDS RecordCacheProperties, LinkedListProofs

IInv == TypeOK /\ IdIndexExact /\ EverySlotOnItsList

LEMMA SlotsFacts ==
    /\ Slots \subseteq Int /\ Nil \notin Slots /\ 0 \in Slots
    /\ IsFiniteSet(Slots)
    /\ \A S \in SUBSET Slots : IsFiniteSet(S)
<1>1. IsFiniteSet(Slots)
  BY RecordsAssumption, FS_Interval DEF Slots
<1>2. \A S \in SUBSET Slots : IsFiniteSet(S)
  BY <1>1, FS_Subset
<1> QED
  BY <1>1, <1>2, RecordsAssumption DEF Slots, Nil

(* find_bucket answers an empty bucket or the key's own. *)
LEMMA FindBucketFacts ==
    ASSUME NEW k \in Keys, FindBucket(k) # NoBucket
    PROVE  FindBucket(k) \in Buckets /\ name_key[FindBucket(k)] \in {NoKey, k}
<1> DEFINE n == CHOOSE n \in 1 .. Len(Probe[k]) : FirstStop(k, n)
<1>1. \E m \in 1 .. Len(Probe[k]) : FirstStop(k, m)
  BY DEF FindBucket
<1>2. n \in 1 .. Len(Probe[k]) /\ FirstStop(k, n)
  BY <1>1
<1>3. FindBucket(k) = Probe[k][n]
  BY <1>1 DEF FindBucket
<1> HIDE DEF n
<1>4. Probe[k] \in Seq(Buckets)
  BY BucketsAssumption
<1>5. Probe[k][n] \in Buckets
  BY <1>2, <1>4
<1> QED
  BY <1>2, <1>3, <1>5 DEF FirstStop, Stops

(* What update_record and delete_record_from_uuid find is the id's slot. *)
LEMMA SlotOfFacts ==
    ASSUME TypeOK, NEW id \in Ids, SlotOf(id) # Nil
    PROVE  /\ SlotOf(id) \in Slots
           /\ is_used[SlotOf(id)] /\ slot_id[SlotOf(id)] = id
           /\ id_slot[IdHash[id]] = SlotOf(id)
<1>1. IdHash[id] \in IdBuckets
  BY BucketsAssumption
<1> QED
  BY <1>1 DEF TypeOK, SlotOf, SlotOrNil

(* The head of an occupied bucket is one of its live slots, so append_record *)
(* never needs the branch that salvages a chain behind a dead head.          *)
LEMMA HeadLive ==
    ASSUME IInv, NEW b \in Buckets, name_key[b] # NoKey
    PROVE  /\ head_slot_idx[b] \in Slots
           /\ is_used[head_slot_idx[b]]
           /\ slot_bucket[head_slot_idx[b]] = b
<1>1. PICK c : Order(next_index, head_slot_idx[b], Members(b), c) /\ Members(b) # {}
  BY DEF IInv, EverySlotOnItsList, ChainsExact, IsDoubleList
<1>2. IsFiniteSet(Members(b))
  BY SlotsFacts DEF Members
<1>3. 1 \in 1 .. Cardinality(Members(b))
  BY <1>1, <1>2, FS_CardinalityType, FS_EmptySet
<1>4. head_slot_idx[b] \in Members(b)
  BY <1>1, <1>3 DEF Order
<1> QED
  BY <1>4 DEF Members

LEMMA FreeHeadUnused ==
    ASSUME IInv, free_head # Nil
    PROVE  /\ free_head \in Slots /\ ~is_used[free_head]
           /\ next_index[free_head] \in SlotOrNil
<1>1. free_head \in Slots
  BY DEF IInv, TypeOK, SlotOrNil
<1>2. PICK c : Order(next_index, free_head, Unused, c)
  BY DEF IInv, EverySlotOnItsList, FreeListExact, IsList
<1>3. Unused # {}
  BY <1>2 DEF Order
<1>4. IsFiniteSet(Unused)
  BY SlotsFacts DEF Unused
<1>5. 1 \in 1 .. Cardinality(Unused)
  BY <1>3, <1>4, FS_CardinalityType, FS_EmptySet
<1>6. free_head \in Unused
  BY <1>2, <1>3, <1>5 DEF Order
<1> QED
  BY <1>1, <1>6 DEF Unused, IInv, TypeOK

LEMMA SuccessorFacts ==
    ASSUME IInv, NEW b \in Buckets, free_head # Nil
    PROVE  Successor(b, free_head) =
               IF name_key[b] = NoKey THEN Nil ELSE head_slot_idx[b]
<1>1. CASE name_key[b] = NoKey
  BY <1>1 DEF Successor
<1>2. CASE name_key[b] # NoKey
  <2>1. /\ head_slot_idx[b] \in Slots /\ is_used[head_slot_idx[b]]
        /\ free_head \in Slots /\ ~is_used[free_head]
    BY <1>2, HeadLive, FreeHeadUnused
  <2>2. [is_used EXCEPT ![free_head] = TRUE][head_slot_idx[b]]
    BY <2>1 DEF IInv, TypeOK
  <2> QED BY <1>2, <2>1, <2>2 DEF Successor
<1> QED BY <1>1, <1>2

-----------------------------------------------------------------------------
(* Type correctness *)

LEMMA TypeInit == Init => TypeOK
<1> SUFFICES ASSUME Init PROVE TypeOK
  OBVIOUS
<1>1. 0 \in Slots
  BY SlotsFacts
<1> QED
  BY <1>1 DEF Init, TypeOK, SlotOrNil

LEMMA TypeAppend ==
    ASSUME IInv, NEW k \in Keys, NEW id \in Ids, NEW v \in Values,
           AppendRecord(k, id, v)
    PROVE  TypeOK'
<1> DEFINE b == FindBucket(k)
           s == free_head
           n == Successor(b, s)
<1>1. b \in Buckets /\ s \in Slots /\ next_index[s] \in SlotOrNil
      /\ IdHash[id] \in IdBuckets /\ v \in Storable
  BY FindBucketFacts, FreeHeadUnused, BucketsAssumption DEF AppendRecord, CanAppend
<1>2. n \in SlotOrNil
  BY <1>1, SuccessorFacts, HeadLive DEF AppendRecord, CanAppend, SlotOrNil
<1>3. Nil \in SlotOrNil
  BY DEF SlotOrNil
<1> HIDE DEF b, s, n
<1> USE <1>1, <1>2, <1>3 DEF IInv
<1>4. name_key' \in [Buckets -> Keys \cup {NoKey}]
  BY DEF TypeOK, AppendRecord, b
<1>5. head_slot_idx' \in [Buckets -> SlotOrNil]
  BY DEF TypeOK, AppendRecord, b, s, SlotOrNil
<1>6. id_slot' \in [IdBuckets -> SlotOrNil]
  BY DEF TypeOK, AppendRecord, s, SlotOrNil
<1>7. is_used' \in [Slots -> BOOLEAN]
  BY DEF TypeOK, AppendRecord
<1>8. next_index' \in [Slots -> SlotOrNil] /\ prev_index' \in [Slots -> SlotOrNil]
  BY DEF TypeOK, AppendRecord, b, s, n, SlotOrNil
<1>9. slot_id' \in [Slots -> Ids \cup {NoId}]
  BY DEF TypeOK, AppendRecord
<1>10. slot_bucket' \in [Slots -> Buckets \cup {NoBucket}]
  BY DEF TypeOK, AppendRecord, b
<1>11. slot_value' \in [Slots -> Storable \cup {NoValue}]
  BY DEF TypeOK, AppendRecord
<1>12. free_head' \in SlotOrNil
  BY DEF TypeOK, AppendRecord, s
<1> QED
  BY <1>4, <1>5, <1>6, <1>7, <1>8, <1>9, <1>10, <1>11, <1>12 DEF TypeOK

LEMMA TypeUpdate ==
    ASSUME IInv, NEW id \in Ids, NEW v \in Values, UpdateRecord(id, v)
    PROVE  TypeOK'
  BY DEF IInv, TypeOK, UpdateRecord, tables, links

LEMMA TypeDelete ==
    ASSUME IInv, NEW id \in Ids, DeleteRecordFromUuid(id)
    PROVE  TypeOK'
<1> DEFINE s == SlotOf(id)
           b == slot_bucket[s]
<1>1. s \in Slots /\ IdHash[id] \in IdBuckets /\ b \in Buckets
  BY SlotOfFacts, BucketsAssumption
     DEF DeleteRecordFromUuid, IInv, EverySlotOnItsList
<1>2. Nil \in SlotOrNil /\ prev_index[s] \in SlotOrNil /\ next_index[s] \in SlotOrNil
  BY <1>1 DEF IInv, TypeOK, SlotOrNil
<1> HIDE DEF s, b
<1> USE <1>1, <1>2 DEF IInv
<1>3. name_key' \in [Buckets -> Keys \cup {NoKey}]
  BY DEF TypeOK, DeleteRecordFromUuid, b, s
<1>4. head_slot_idx' \in [Buckets -> SlotOrNil]
  BY DEF TypeOK, DeleteRecordFromUuid, b, s
<1>5. id_slot' \in [IdBuckets -> SlotOrNil]
  BY DEF TypeOK, DeleteRecordFromUuid
<1>6. is_used' \in [Slots -> BOOLEAN]
  BY DEF TypeOK, DeleteRecordFromUuid
<1>7. next_index' \in [Slots -> SlotOrNil]
  BY DEF TypeOK, DeleteRecordFromUuid, b, s
<1>8. prev_index' \in [Slots -> SlotOrNil]
  BY DEF TypeOK, DeleteRecordFromUuid, b, s
<1>9. slot_id' \in [Slots -> Ids \cup {NoId}]
  BY DEF TypeOK, DeleteRecordFromUuid
<1>10. slot_bucket' \in [Slots -> Buckets \cup {NoBucket}]
  BY DEF TypeOK, DeleteRecordFromUuid
<1>11. slot_value' \in [Slots -> Storable \cup {NoValue}]
  BY DEF TypeOK, DeleteRecordFromUuid
<1>12. free_head' \in SlotOrNil
  BY DEF TypeOK, DeleteRecordFromUuid, s, SlotOrNil
<1> QED
  BY <1>3, <1>4, <1>5, <1>6, <1>7, <1>8, <1>9, <1>10, <1>11, <1>12 DEF TypeOK

-----------------------------------------------------------------------------
(* The id table *)

LEMMA IdAppend ==
    ASSUME IInv, NEW k \in Keys, NEW id \in Ids, NEW v \in Values,
           AppendRecord(k, id, v)
    PROVE  IdIndexExact'
<1> DEFINE s == free_head
           h == IdHash[id]
<1>1. /\ s \in Slots /\ ~is_used[s] /\ h \in IdBuckets /\ id_slot[h] = Nil
  BY FreeHeadUnused, BucketsAssumption DEF AppendRecord, CanAppend
<1>2. /\ id_slot' = [id_slot EXCEPT ![h] = s]
      /\ is_used' = [is_used EXCEPT ![s] = TRUE]
      /\ slot_id' = [slot_id EXCEPT ![s] = id]
  BY DEF AppendRecord
<1>3. s # Nil /\ Nil \notin Slots
  BY <1>1, SlotsFacts
<1> HIDE DEF s, h
<1>4. \A t \in Slots : is_used'[t] =>
        slot_id'[t] \in Ids /\ id_slot'[IdHash[slot_id'[t]]] = t
  <2> TAKE t \in Slots
  <2> HAVE is_used'[t]
  <2>1. CASE t = s
    BY <2>1, <1>1, <1>2 DEF IInv, TypeOK, h
  <2>2. CASE t # s
    <3>1. is_used[t] /\ slot_id'[t] = slot_id[t]
      BY <2>2, <1>2 DEF IInv, TypeOK
    <3>2. slot_id[t] \in Ids /\ id_slot[IdHash[slot_id[t]]] = t
      BY <3>1 DEF IInv, IdIndexExact
    <3>3. IdHash[slot_id[t]] # h
      BY <3>2, <1>1, <1>3
    <3>4. IdHash[slot_id[t]] \in IdBuckets
      BY <3>2, BucketsAssumption
    <3> QED BY <3>1, <3>2, <3>3, <3>4, <1>2 DEF IInv, TypeOK
  <2> QED BY <2>1, <2>2
<1>5. \A g \in IdBuckets : id_slot'[g] # Nil =>
        is_used'[id_slot'[g]] /\ IdHash[slot_id'[id_slot'[g]]] = g
  <2> TAKE g \in IdBuckets
  <2> HAVE id_slot'[g] # Nil
  <2>1. CASE g = h
    BY <2>1, <1>1, <1>2 DEF IInv, TypeOK, h
  <2>2. CASE g # h
    <3>1. id_slot'[g] = id_slot[g] /\ id_slot[g] \in Slots
      BY <2>2, <1>2 DEF IInv, TypeOK, SlotOrNil
    <3>2. is_used[id_slot[g]] /\ IdHash[slot_id[id_slot[g]]] = g
      BY <3>1 DEF IInv, IdIndexExact
    <3>3. id_slot[g] # s
      BY <3>2, <1>1
    <3> QED BY <3>1, <3>2, <3>3, <1>2 DEF IInv, TypeOK
  <2> QED BY <2>1, <2>2
<1> QED
  BY <1>4, <1>5 DEF IdIndexExact

LEMMA IdDelete ==
    ASSUME IInv, NEW id \in Ids, DeleteRecordFromUuid(id)
    PROVE  IdIndexExact'
<1> DEFINE s == SlotOf(id)
           h == IdHash[id]
<1>1. /\ s \in Slots /\ is_used[s] /\ slot_id[s] = id /\ h \in IdBuckets
      /\ id_slot[h] = s
  BY SlotOfFacts, BucketsAssumption DEF DeleteRecordFromUuid, IInv
<1>2. /\ id_slot' = [id_slot EXCEPT ![h] = Nil]
      /\ is_used' = [is_used EXCEPT ![s] = FALSE]
      /\ slot_id' = [slot_id EXCEPT ![s] = NoId]
  BY DEF DeleteRecordFromUuid
<1> HIDE DEF s, h
<1>4. \A t \in Slots : is_used'[t] =>
        slot_id'[t] \in Ids /\ id_slot'[IdHash[slot_id'[t]]] = t
  <2> TAKE t \in Slots
  <2> HAVE is_used'[t]
  <2>1. is_used[t] /\ t # s /\ slot_id'[t] = slot_id[t]
    BY <1>1, <1>2 DEF IInv, TypeOK
  <2>2. slot_id[t] \in Ids /\ id_slot[IdHash[slot_id[t]]] = t
    BY <2>1 DEF IInv, IdIndexExact
  <2>3. IdHash[slot_id[t]] # h /\ IdHash[slot_id[t]] \in IdBuckets
    BY <2>1, <2>2, <1>1, BucketsAssumption
  <2> QED BY <2>1, <2>2, <2>3, <1>2 DEF IInv, TypeOK
<1>5. \A g \in IdBuckets : id_slot'[g] # Nil =>
        is_used'[id_slot'[g]] /\ IdHash[slot_id'[id_slot'[g]]] = g
  <2> TAKE g \in IdBuckets
  <2> HAVE id_slot'[g] # Nil
  <2>1. g # h /\ id_slot'[g] = id_slot[g] /\ id_slot[g] \in Slots
    BY <1>2 DEF IInv, TypeOK, SlotOrNil
  <2>2. is_used[id_slot[g]] /\ IdHash[slot_id[id_slot[g]]] = g
    BY <2>1 DEF IInv, IdIndexExact
  <2>3. id_slot[g] # s
    BY <2>1, <2>2, <1>1 DEF h
  <2> QED BY <2>1, <2>2, <2>3, <1>2 DEF IInv, TypeOK
<1> QED
  BY <1>4, <1>5 DEF IdIndexExact

-----------------------------------------------------------------------------
(* The lists *)

LEMMA FreeListAppend ==
    ASSUME IInv, NEW k \in Keys, NEW id \in Ids, NEW v \in Values,
           AppendRecord(k, id, v)
    PROVE  FreeListExact'
<1> DEFINE s == free_head
<1>1. s \in Slots /\ ~is_used[s]
  BY FreeHeadUnused DEF AppendRecord, CanAppend
<1>2. PICK c : Order(next_index, s, Unused, c)
  BY DEF IInv, EverySlotOnItsList, FreeListExact, IsList
<1>3. s \in Unused /\ IsFiniteSet(Unused)
  BY <1>1, SlotsFacts DEF Unused
<1>4. 1 \in 1 .. Cardinality(Unused) /\ c[1] = s
  BY <1>2, <1>3, FS_CardinalityType, FS_EmptySet DEF Order
<1>5. Unused' = Unused \ {s}
  BY <1>1 DEF Unused, AppendRecord, IInv, TypeOK
<1>6. \A t \in Unused \ {s} : next_index'[t] = next_index[t]
  BY DEF Unused, AppendRecord, IInv, TypeOK
<1>7. free_head' = next_index[s]
  BY DEF AppendRecord
<1> HIDE DEF s
<1>8. Order(next_index', free_head', Unused \ {c[1]}, Cut(c, Cardinality(Unused), 1))
  <2>1. \A t \in Unused \ {c[1]} :
          next_index'[t] = IF 1 > 1 /\ t = c[1 - 1] THEN next_index[c[1]] ELSE next_index[t]
    BY <1>4, <1>6
  <2> QED BY <2>1, <1>2, <1>3, <1>4, <1>7, ListCut
<1>9. Order(next_index', free_head', Unused', Cut(c, Cardinality(Unused), 1))
  BY <1>4, <1>5, <1>8
<1> QED
  BY <1>9 DEF FreeListExact, IsList, Order

LEMMA ChainsAppend ==
    ASSUME IInv, NEW k \in Keys, NEW id \in Ids, NEW v \in Values,
           AppendRecord(k, id, v)
    PROVE  ChainsExact'
<1>0. PICK s, b, n : s = free_head /\ b = FindBucket(k) /\ n = Successor(b, s)
  OBVIOUS
<1>1. /\ s \in Slots /\ ~is_used[s] /\ b \in Buckets
      /\ n = IF name_key[b] = NoKey THEN Nil ELSE head_slot_idx[b]
  BY <1>0, FreeHeadUnused, FindBucketFacts, SuccessorFacts DEF AppendRecord, CanAppend
<1>2. /\ name_key' = [name_key EXCEPT ![b] = k]
      /\ head_slot_idx' = [head_slot_idx EXCEPT ![b] = s]
      /\ is_used' = [is_used EXCEPT ![s] = TRUE]
      /\ slot_bucket' = [slot_bucket EXCEPT ![s] = b]
      /\ next_index' = [next_index EXCEPT ![s] = n]
      /\ prev_index' = IF n = Nil THEN [prev_index EXCEPT ![s] = Nil]
                       ELSE [prev_index EXCEPT ![s] = Nil, ![n] = s]
  BY <1>0 DEF AppendRecord
<1>3. Nil \notin Slots
  BY SlotsFacts
<1>4. n # Nil => n \in Members(b)
  BY <1>1, HeadLive DEF Members
<1>5. Members(b)' = Members(b) \cup {s} /\ s \notin Members(b)
  BY <1>1, <1>2 DEF Members, IInv, TypeOK
<1>6. \A a \in Buckets \ {b} : Members(a)' = Members(a) /\ s \notin Members(a)
                               /\ n \notin Members(a)
  <2> TAKE a \in Buckets \ {b}
  <2>1. Members(a)' = Members(a) /\ s \notin Members(a)
    BY <1>1, <1>2 DEF Members, IInv, TypeOK
  <2>2. n \notin Members(a)
    BY <1>3, <1>4 DEF Members
  <2> QED BY <2>1, <2>2
<1>7. \A t \in Slots : t # s => next_index'[t] = next_index[t]
  BY <1>1, <1>2 DEF IInv, TypeOK
<1>8. \A t \in Slots : t # s /\ t # n => prev_index'[t] = prev_index[t]
  BY <1>1, <1>2, <1>4 DEF IInv, TypeOK, Members
<1>9. next_index'[s] = n /\ prev_index'[s] = Nil /\ (n # Nil => prev_index'[n] = s)
  BY <1>1, <1>2, <1>4 DEF IInv, TypeOK, Members
<1>10. name_key'[b] # NoKey /\ head_slot_idx'[b] = s
  BY <1>1, <1>2, RecordsAssumption DEF IInv, TypeOK
<1>11. IsDoubleList(next_index', prev_index', s, Members(b)')
  <2>1. PICK c : Order(next_index, n, Members(b), c) /\ BackLinks(prev_index, Members(b), c)
    <3>1. CASE name_key[b] = NoKey
      <4>1. Members(b) = {}
        BY <1>1, <3>1 DEF IInv, EverySlotOnItsList, ChainsExact
      <4> QED BY <4>1, <3>1, <1>1, EmptyList
    <3>2. CASE name_key[b] # NoKey
      BY <1>1, <3>2 DEF IInv, EverySlotOnItsList, ChainsExact, IsDoubleList
    <3> QED BY <3>1, <3>2
  <2>2. IsFiniteSet(Members(b)) /\ Members(b) \subseteq Slots
    BY SlotsFacts DEF Members
  <2> DEFINE d == Pushed(c, Cardinality(Members(b)), s)
  <2>3. Order(next_index', s, Members(b) \cup {s}, d)
    <3>1. \A t \in Members(b) : next_index'[t] = next_index[t]
      BY <2>2, <1>5, <1>7
    <3> QED BY <3>1, <2>1, <2>2, <1>5, <1>9, ListPush
  <2>4. BackLinks(prev_index', Members(b) \cup {s}, d)
    <3>1. \A t \in Members(b) : t # n => prev_index'[t] = prev_index[t]
      BY <2>2, <1>5, <1>8
    <3>2. Members(b) # {} => prev_index'[n] = s
      <4>1. Members(b) # {} => n # Nil
        BY <2>1, <2>2, <1>3, FS_CardinalityType, FS_EmptySet DEF Order
      <4> QED BY <4>1, <1>9
    <3> QED BY <3>1, <3>2, <2>1, <2>2, <1>5, <1>9, BackPush
  <2>5. IsDoubleList(next_index', prev_index', s, Members(b) \cup {s})
    <3> HIDE DEF d
    <3> QED BY <2>3, <2>4 DEF IsDoubleList, Order
  <2> QED BY <2>5, <1>5
<1>12. ASSUME NEW a \in Buckets \ {b}, name_key[a] # NoKey
       PROVE  IsDoubleList(next_index', prev_index', head_slot_idx[a], Members(a))
  <2>1. PICK c : /\ Order(next_index, head_slot_idx[a], Members(a), c)
                 /\ BackLinks(prev_index, Members(a), c)
    BY <1>12 DEF IInv, EverySlotOnItsList, ChainsExact, IsDoubleList
  <2>2. \A t \in Members(a) : /\ next_index'[t] = next_index[t]
                              /\ prev_index'[t] = prev_index[t]
    BY <1>6, <1>7, <1>8 DEF Members
  <2>3. Order(next_index', head_slot_idx[a], Members(a), c)
    BY <2>1, <2>2, ListFrame
  <2>4. BackLinks(prev_index', Members(a), c)
    BY <2>1, <2>2, BackFrame
  <2> QED BY <2>3, <2>4 DEF IsDoubleList, Order
<1>13. \A a \in Buckets \ {b} : name_key'[a] = name_key[a] /\ head_slot_idx'[a] = head_slot_idx[a]
  BY <1>2 DEF IInv, TypeOK
<1>14. \A a \in Buckets \ {b} :
          IF name_key'[a] = NoKey THEN Members(a)' = {}
          ELSE /\ Members(a)' # {}
               /\ IsDoubleList(next_index', prev_index', head_slot_idx'[a], Members(a)')
  <2> TAKE a \in Buckets \ {b}
  <2>1. CASE name_key[a] = NoKey
    BY <2>1, <1>6, <1>13 DEF IInv, EverySlotOnItsList, ChainsExact
  <2>2. CASE name_key[a] # NoKey
    <3>1. Members(a) # {}
      BY <2>2 DEF IInv, EverySlotOnItsList, ChainsExact
    <3>2. IsDoubleList(next_index', prev_index', head_slot_idx[a], Members(a))
      BY <2>2, <1>12
    <3> QED BY <2>2, <3>1, <3>2, <1>6, <1>13
  <2> QED BY <2>1, <2>2
<1> QED
  <2>1. Members(b)' # {} /\ name_key'[b] # NoKey
        /\ IsDoubleList(next_index', prev_index', head_slot_idx'[b], Members(b)')
    BY <1>5, <1>10, <1>11
  <2>2. \A a \in Buckets :
          IF name_key'[a] = NoKey THEN Members(a)' = {}
          ELSE /\ Members(a)' # {}
               /\ IsDoubleList(next_index', prev_index', head_slot_idx'[a], Members(a)')
    BY <2>1, <1>14
  <2> QED BY <2>2 DEF ChainsExact

LEMMA FreeListDelete ==
    ASSUME IInv, NEW id \in Ids, DeleteRecordFromUuid(id)
    PROVE  FreeListExact'
<1>0. PICK s : s = SlotOf(id)
  OBVIOUS
<1>1. s \in Slots /\ is_used[s]
  BY <1>0, SlotOfFacts DEF DeleteRecordFromUuid, IInv
<1>2. PICK c : Order(next_index, free_head, Unused, c)
  BY DEF IInv, EverySlotOnItsList, FreeListExact, IsList
<1>3. IsFiniteSet(Unused) /\ s \notin Unused
  BY <1>1, SlotsFacts DEF Unused
<1>4. Unused' = Unused \cup {s} /\ free_head' = s
  BY <1>0, <1>1 DEF Unused, DeleteRecordFromUuid, IInv, TypeOK
<1>5. next_index'[s] = free_head
  BY <1>0, <1>1 DEF DeleteRecordFromUuid, IInv, TypeOK
<1>6. PICK d : Order(next_index, head_slot_idx[slot_bucket[s]], Members(slot_bucket[s]), d)
               /\ BackLinks(prev_index, Members(slot_bucket[s]), d)
  BY <1>1 DEF IInv, EverySlotOnItsList, ChainsExact, IsDoubleList, Members
<1>7. prev_index[s] # Nil => is_used[prev_index[s]]
  <2> DEFINE M == Members(slot_bucket[s])
  <2>1. IsFiniteSet(M) /\ s \in M
    BY <1>1, SlotsFacts DEF Members
  <2>2. Cardinality(M) \in Nat
    BY <2>1, FS_CardinalityType
  <2>3. PICK i \in 1 .. Cardinality(M) : d[i] = s
    BY <1>6, <2>1 DEF Order
  <2>4. prev_index[s] = IF i = 1 THEN Nil ELSE d[i - 1]
    BY <1>6, <2>3 DEF BackLinks
  <2>5. i # 1 => d[i - 1] \in M
    <3>1. i # 1 => i - 1 \in 1 .. Cardinality(M)
      BY <2>2
    <3> QED BY <3>1, <1>6 DEF Order
  <2> QED BY <2>4, <2>5 DEF Members
<1>8. \A t \in Unused : next_index'[t] = next_index[t]
  <2>1. \A t \in Slots : t # s /\ t # prev_index[s] => next_index'[t] = next_index[t]
    BY <1>0, <1>1 DEF DeleteRecordFromUuid, IInv, TypeOK
  <2>2. \A t \in Unused : t \in Slots /\ t # s /\ t # prev_index[s]
    BY <1>1, <1>7, SlotsFacts DEF Unused
  <2> QED BY <2>1, <2>2
<1>9. Order(next_index', s, Unused \cup {s}, Pushed(c, Cardinality(Unused), s))
  BY <1>2, <1>3, <1>5, <1>8, ListPush
<1> HIDE DEF Unused
<1>10. Order(next_index', free_head', Unused', Pushed(c, Cardinality(Unused), s))
  BY <1>4, <1>9
<1> QED
  BY <1>10 DEF FreeListExact, IsList, Order

LEMMA ChainsDelete ==
    ASSUME IInv, NEW id \in Ids, DeleteRecordFromUuid(id)
    PROVE  ChainsExact'
<1>0. PICK s, b, p, n : /\ s = SlotOf(id) /\ b = slot_bucket[s]
                        /\ p = prev_index[s] /\ n = next_index[s]
  OBVIOUS
<1>1. s \in Slots /\ is_used[s] /\ b \in Buckets /\ s \in Members(b)
  BY <1>0, SlotOfFacts DEF DeleteRecordFromUuid, IInv, EverySlotOnItsList, Members
<1>2. IsFiniteSet(Members(b)) /\ Members(b) \subseteq Slots /\ Nil \notin Slots
  BY SlotsFacts DEF Members
<1>3. name_key[b] # NoKey
  BY <1>1 DEF IInv, EverySlotOnItsList, ChainsExact
<1>4. PICK c : /\ Order(next_index, head_slot_idx[b], Members(b), c)
               /\ BackLinks(prev_index, Members(b), c)
  BY <1>1, <1>3 DEF IInv, EverySlotOnItsList, ChainsExact, IsDoubleList
<1>5. Cardinality(Members(b)) \in Nat
  BY <1>2, FS_CardinalityType
<1>6. PICK k \in 1 .. Cardinality(Members(b)) : c[k] = s
  BY <1>1, <1>4 DEF Order
<1>7. /\ n = IF k = Cardinality(Members(b)) THEN Nil ELSE c[k + 1]
      /\ p = IF k = 1 THEN Nil ELSE c[k - 1]
      /\ (head_slot_idx[b] = s) <=> (k = 1)
  <2>1. next_index[c[k]] = IF k = Cardinality(Members(b)) THEN Nil ELSE c[k + 1]
    BY <1>4, <1>6 DEF Order
  <2>2. prev_index[c[k]] = IF k = 1 THEN Nil ELSE c[k - 1]
    BY <1>4, <1>6 DEF BackLinks
  <2>3. head_slot_idx[b] = c[1]
    BY <1>1, <1>4 DEF Order
  <2>4. 1 \in 1 .. Cardinality(Members(b))
    BY <1>5, <1>6
  <2>5. (c[1] = c[k]) <=> (k = 1)
    BY <1>4, <1>6, <2>4 DEF Order
  <2> QED BY <1>0, <1>6, <2>1, <2>2, <2>3, <2>5
<1>8. /\ n # Nil => n \in Members(b) /\ n # s
      /\ p # Nil => p \in Members(b) /\ p # s
  <2>1. n # Nil => k + 1 \in 1 .. Cardinality(Members(b)) /\ k + 1 # k
    BY <1>5, <1>7
  <2>2. p # Nil => k - 1 \in 1 .. Cardinality(Members(b)) /\ k - 1 # k
    BY <1>5, <1>7
  <2>3. \A i \in 1 .. Cardinality(Members(b)) : c[i] \in Members(b) /\ (c[i] = s => i = k)
    BY <1>4, <1>6 DEF Order
  <2>4. n # Nil => n = c[k + 1]
    BY <1>7
  <2>5. p # Nil => p = c[k - 1]
    BY <1>7
  <2> QED BY <2>1, <2>2, <2>3, <2>4, <2>5
<1>9. /\ head_slot_idx' = [head_slot_idx EXCEPT ![b] = IF k = 1 THEN n ELSE @]
      /\ name_key' = [name_key EXCEPT ![b] = IF head_slot_idx'[b] = Nil THEN NoKey ELSE @]
      /\ is_used' = [is_used EXCEPT ![s] = FALSE]
      /\ slot_bucket' = slot_bucket
  BY <1>0, <1>1, <1>7 DEF DeleteRecordFromUuid, IInv, TypeOK
<1>10. \A t \in Slots \ {s} :
         /\ next_index'[t] = IF k > 1 /\ t = p THEN n ELSE next_index[t]
         /\ prev_index'[t] = IF t = n THEN p ELSE prev_index[t]
  <2>1. \A t \in Slots \ {s} : prev_index'[t] = IF t = n THEN p ELSE prev_index[t]
    BY <1>0, <1>2 DEF DeleteRecordFromUuid, IInv, TypeOK
  <2>2. (k > 1) <=> (p # Nil /\ head_slot_idx[b] # s)
    <3>1. k # 1 => c[k - 1] \in Slots
      <4>1. k # 1 => k - 1 \in 1 .. Cardinality(Members(b))
        BY <1>5
      <4> QED BY <4>1, <1>2, <1>4 DEF Order
    <3> QED BY <3>1, <1>2, <1>5, <1>7
  <2>3. \A t \in Slots \ {s} :
          next_index'[t] = IF p # Nil /\ head_slot_idx[b] # s /\ t = p THEN n ELSE next_index[t]
    BY <1>0, <1>2 DEF DeleteRecordFromUuid, IInv, TypeOK
  <2> QED BY <2>1, <2>2, <2>3
<1>11. Members(b)' = Members(b) \ {s}
  BY <1>1, <1>9 DEF Members, IInv, TypeOK
<1>12. \A a \in Buckets \ {b} : Members(a)' = Members(a) /\ s \notin Members(a)
                                /\ n \notin Members(a) /\ p \notin Members(a)
  BY <1>0, <1>1, <1>2, <1>8, <1>9 DEF Members, IInv, TypeOK
<1> DEFINE d == Cut(c, Cardinality(Members(b)), k)
<1>13. Order(next_index', head_slot_idx'[b], Members(b) \ {s}, d)
  <2>1. \A t \in Members(b) \ {c[k]} :
          next_index'[t] = IF k > 1 /\ t = c[k - 1] THEN next_index[c[k]] ELSE next_index[t]
    BY <1>0, <1>2, <1>6, <1>7, <1>10
  <2>2. head_slot_idx'[b] = IF k = 1 THEN next_index[c[k]] ELSE head_slot_idx[b]
    BY <1>0, <1>1, <1>6, <1>9 DEF IInv, TypeOK
  <2>3. Order(next_index', head_slot_idx'[b], Members(b) \ {c[k]}, d)
    BY <2>1, <2>2, <1>2, <1>4, ListCut
  <2> QED BY <2>3, <1>6
<1>14. BackLinks(prev_index', Members(b) \ {s}, d)
  <2>1. \A t \in Members(b) \ {c[k]} :
          prev_index'[t] = IF t = next_index[c[k]] THEN prev_index[c[k]] ELSE prev_index[t]
    BY <1>0, <1>2, <1>6, <1>10
  <2>2. BackLinks(prev_index', Members(b) \ {c[k]}, d)
    BY <2>1, <1>2, <1>4, BackCut
  <2> QED BY <2>2, <1>6
<1> HIDE DEF d
<1>15. (head_slot_idx'[b] = Nil) <=> (Members(b) \ {s} = {})
  <2>1. Members(b) \ {s} # {} => d[1] \in Members(b)
    <3>1. IsFiniteSet(Members(b) \ {s})
      BY <1>2, FS_RemoveElement
    <3>2. Members(b) \ {s} # {} => 1 \in 1 .. Cardinality(Members(b) \ {s})
      BY <3>1, FS_CardinalityType, FS_EmptySet
    <3> QED BY <3>2, <1>13 DEF Order
  <2> QED BY <2>1, <1>2, <1>13 DEF Order
<1>16. name_key'[b] = IF Members(b) \ {s} = {} THEN NoKey ELSE name_key[b]
  BY <1>1, <1>9, <1>15 DEF IInv, TypeOK
<1>17. IsDoubleList(next_index', prev_index', head_slot_idx'[b], Members(b) \ {s})
  BY <1>13, <1>14 DEF IsDoubleList, Order
<1>18. ASSUME NEW a \in Buckets \ {b}, name_key[a] # NoKey
       PROVE  IsDoubleList(next_index', prev_index', head_slot_idx[a], Members(a))
  <2>1. PICK e : /\ Order(next_index, head_slot_idx[a], Members(a), e)
                 /\ BackLinks(prev_index, Members(a), e)
    BY <1>18 DEF IInv, EverySlotOnItsList, ChainsExact, IsDoubleList
  <2>2. \A t \in Members(a) : /\ next_index'[t] = next_index[t]
                              /\ prev_index'[t] = prev_index[t]
    <3>1. \A t \in Members(a) : t \in Slots \ {s} /\ t # n /\ t # p
      BY <1>12 DEF Members
    <3> QED BY <3>1, <1>10
  <2>3. Order(next_index', head_slot_idx[a], Members(a), e)
    BY <2>1, <2>2, ListFrame
  <2>4. BackLinks(prev_index', Members(a), e)
    BY <2>1, <2>2, BackFrame
  <2> QED BY <2>3, <2>4 DEF IsDoubleList, Order
<1>19. \A a \in Buckets \ {b} : name_key'[a] = name_key[a] /\ head_slot_idx'[a] = head_slot_idx[a]
  BY <1>9 DEF IInv, TypeOK
<1>20. \A a \in Buckets :
          IF name_key'[a] = NoKey THEN Members(a)' = {}
          ELSE /\ Members(a)' # {}
               /\ IsDoubleList(next_index', prev_index', head_slot_idx'[a], Members(a)')
  <2> TAKE a \in Buckets
  <2>1. CASE a = b
    BY <2>1, <1>3, <1>11, <1>16, <1>17
  <2>2. CASE a # b
    <3>1. name_key[a] = NoKey => Members(a) = {}
      BY DEF IInv, EverySlotOnItsList, ChainsExact
    <3>2. name_key[a] # NoKey => Members(a) # {}
      BY DEF IInv, EverySlotOnItsList, ChainsExact
    <3>3. name_key[a] # NoKey =>
            IsDoubleList(next_index', prev_index', head_slot_idx[a], Members(a))
      BY <2>2, <1>18
    <3> QED BY <2>2, <3>1, <3>2, <3>3, <1>12, <1>19
  <2> QED BY <2>1, <2>2
<1> QED
  BY <1>20 DEF ChainsExact

-----------------------------------------------------------------------------
(* delete_record and a reopened file *)

LEMMA ChainIsChase ==
    ASSUME TypeOK
    PROVE  IsChase(Chain, next_index, Slots, MaxRecords)
<1>1. /\ next_index \in [Slots -> Slots \cup {Nil}]
      /\ Nil \notin Slots /\ MaxRecords \in Nat
  BY SlotsFacts, RecordsAssumption DEF TypeOK, SlotOrNil
<1>2. \E w : IsChase(w, next_index, Slots, MaxRecords)
  BY <1>1, ChaseExists
<1> QED
  BY <1>2 DEF IsChase, Chain, SlotOrNil

LEMMA MembersFit ==
    ASSUME NEW b
    PROVE  /\ Members(b) \subseteq Slots /\ IsFiniteSet(Members(b))
           /\ Cardinality(Members(b)) <= MaxRecords
<1>1. Members(b) \subseteq Slots
  BY DEF Members
<1>2. IsFiniteSet(Slots) /\ Cardinality(Slots) = MaxRecords
  BY RecordsAssumption, FS_Interval DEF Slots
<1> QED
  BY <1>1, <1>2, FS_Subset

(* What delete_record does to the bucket b whose chain is listed by c. *)
Emptied(b, c) ==
    LET M == Members(b)
        n == Cardinality(M) IN
    /\ b \in Buckets /\ name_key[b] # NoKey
    /\ n \in Nat \ {0} /\ M \subseteq Slots /\ IsFiniteSet(M)
    /\ Order(next_index, head_slot_idx[b], M, c)
    /\ name_key' = [name_key EXCEPT ![b] = NoKey]
    /\ head_slot_idx' = [head_slot_idx EXCEPT ![b] = Nil]
    /\ id_slot' = [h \in IdBuckets |->
           IF id_slot[h] \in M /\ h = IdHash[slot_id[id_slot[h]]]
           THEN Nil ELSE id_slot[h]]
    /\ is_used' = [s \in Slots |-> is_used[s] /\ s \notin M]
    /\ next_index' \in [Slots -> SlotOrNil]
    /\ \A s \in Slots \ M : next_index'[s] = next_index[s]
    /\ \A i \in 1 .. n : next_index'[c[i]] = IF i = 1 THEN free_head ELSE c[i - 1]
    /\ prev_index' = [s \in Slots |-> IF s \in M THEN Nil ELSE prev_index[s]]
    /\ free_head' = c[n]
    /\ slot_id' = [s \in Slots |-> IF s \in M THEN NoId ELSE slot_id[s]]
    /\ slot_value' = [s \in Slots |-> IF s \in M THEN NoValue ELSE slot_value[s]]
    /\ slot_bucket' = slot_bucket

(* delete_record's walk visits exactly the slots of the bucket's chain, so  *)
(* that is what it frees.                                                   *)
LEMMA DeleteRecordEmpties ==
    ASSUME IInv, NEW k \in Keys, DeleteRecord(k)
    PROVE  \E c : Emptied(FindBucket(k), c)
<1>1. PICK b, M, n : b = FindBucket(k) /\ M = Members(b) /\ n = Cardinality(M)
  OBVIOUS
<1>2. b \in Buckets /\ name_key[b] # NoKey
  BY <1>1, FindBucketFacts DEF DeleteRecord
<1>3. PICK c : Order(next_index, head_slot_idx[b], M, c) /\ M # {}
  BY <1>1, <1>2 DEF IInv, EverySlotOnItsList, ChainsExact, IsDoubleList
<1>4. /\ M \subseteq Slots /\ IsFiniteSet(M) /\ n <= MaxRecords /\ Nil \notin Slots
      /\ MaxRecords \in Nat
  BY <1>1, MembersFit, SlotsFacts, RecordsAssumption
<1>5. n \in Nat \ {0}
  BY <1>1, <1>3, <1>4, FS_CardinalityType, FS_EmptySet
<1>6. PICK chain : chain = Chain[MaxRecords][head_slot_idx[b]]
  OBVIOUS
<1>7. chain = c
  <2>1. IsChase(Chain, next_index, Slots, MaxRecords)
    BY ChainIsChase DEF IInv
  <2> QED BY <1>1, <1>3, <1>4, <1>6, <2>1, ChaseOfList
<1>8. /\ c \in [1 .. n -> M] /\ DOMAIN c = 1 .. n
      /\ \A s \in M : \E i \in 1 .. n : c[i] = s
      /\ \A i, j \in 1 .. n : c[i] = c[j] => i = j
  BY <1>1, <1>3 DEF Order
<1>9. {chain[i] : i \in DOMAIN chain} = M
  BY <1>7, <1>8
<1>10. Len(chain) = n
  <2>1. c \in Seq(M)
    BY <1>5, <1>8
  <2>2. DOMAIN c = 1 .. Len(c) /\ Len(c) \in Nat
    BY <2>1, LenProperties
  <2> QED BY <1>5, <1>7, <1>8, <2>2
<1>11. \A i \in 1 .. n : (CHOOSE j \in DOMAIN chain : chain[j] = c[i]) = i
  BY <1>7, <1>8
<1>12. next_index' = [s \in Slots |->
          IF s \notin {chain[i] : i \in DOMAIN chain} THEN next_index[s]
          ELSE IF (CHOOSE i \in DOMAIN chain : chain[i] = s) = 1 THEN free_head
               ELSE chain[(CHOOSE i \in DOMAIN chain : chain[i] = s) - 1]]
  BY <1>1, <1>6 DEF DeleteRecord
<1>13. \A s \in Slots \ M : next_index'[s] = next_index[s]
  BY <1>9, <1>12
<1>14. \A i \in 1 .. n : next_index'[c[i]] = IF i = 1 THEN free_head ELSE c[i - 1]
  <2> TAKE i \in 1 .. n
  <2>1. PICK s, at : s = c[i] /\ at = CHOOSE j \in DOMAIN chain : chain[j] = s
    OBVIOUS
  <2>2. s \in Slots /\ s \in {chain[j] : j \in DOMAIN chain}
    BY <1>4, <1>8, <1>9, <2>1
  <2>3. next_index'[s] = IF at = 1 THEN free_head ELSE chain[at - 1]
    BY <1>12, <2>1, <2>2
  <2>4. at = i
    BY <1>11, <2>1
  <2> QED BY <1>7, <2>1, <2>3, <2>4
<1>15. next_index' \in [Slots -> SlotOrNil]
  <2>1. \A s \in Slots : next_index'[s] \in SlotOrNil
    <3> TAKE s \in Slots
    <3>1. CASE s \notin M
      BY <1>13, <3>1 DEF IInv, TypeOK
    <3>2. CASE s \in M
      <4>1. PICK i \in 1 .. n : c[i] = s
        BY <1>8, <3>2
      <4>2. i # 1 => i - 1 \in 1 .. n
        BY <1>5
      <4>3. i # 1 => c[i - 1] \in Slots
        BY <1>4, <1>8, <4>2
      <4> QED BY <1>14, <4>1, <4>3 DEF IInv, TypeOK, SlotOrNil
    <3> QED BY <3>1, <3>2
  <2> QED BY <1>12, <2>1
<1>16. /\ name_key' = [name_key EXCEPT ![b] = NoKey]
       /\ head_slot_idx' = [head_slot_idx EXCEPT ![b] = Nil]
       /\ slot_bucket' = slot_bucket
  BY <1>1 DEF DeleteRecord
<1>17. /\ is_used' = [s \in Slots |->
              is_used[s] /\ s \notin {chain[i] : i \in DOMAIN chain}]
       /\ id_slot' = [h \in IdBuckets |->
              IF /\ id_slot[h] \in {chain[i] : i \in DOMAIN chain}
                 /\ h = IdHash[slot_id[id_slot[h]]]
              THEN Nil ELSE id_slot[h]]
       /\ prev_index' = [s \in Slots |->
              IF s \in {chain[i] : i \in DOMAIN chain} THEN Nil ELSE prev_index[s]]
       /\ slot_id' = [s \in Slots |->
              IF s \in {chain[i] : i \in DOMAIN chain} THEN NoId ELSE slot_id[s]]
       /\ slot_value' = [s \in Slots |->
              IF s \in {chain[i] : i \in DOMAIN chain} THEN NoValue ELSE slot_value[s]]
       /\ free_head' = chain[Len(chain)]
  BY <1>1, <1>6 DEF DeleteRecord
<1>18. /\ is_used' = [s \in Slots |-> is_used[s] /\ s \notin M]
       /\ id_slot' = [h \in IdBuckets |->
              IF id_slot[h] \in M /\ h = IdHash[slot_id[id_slot[h]]]
              THEN Nil ELSE id_slot[h]]
       /\ prev_index' = [s \in Slots |-> IF s \in M THEN Nil ELSE prev_index[s]]
       /\ slot_id' = [s \in Slots |-> IF s \in M THEN NoId ELSE slot_id[s]]
       /\ slot_value' = [s \in Slots |-> IF s \in M THEN NoValue ELSE slot_value[s]]
       /\ free_head' = c[n]
  BY <1>7, <1>9, <1>10, <1>17
<1>19. Emptied(b, c)
  BY ONLY <1>1, <1>2, <1>3, <1>4, <1>5, <1>13, <1>14, <1>15, <1>16, <1>18 DEF Emptied
<1> QED BY <1>1, <1>19

LEMMA TypeEmptied ==
    ASSUME IInv, NEW b, NEW c, Emptied(b, c)
    PROVE  TypeOK'
<1>1. c[Cardinality(Members(b))] \in Slots
  <2>1. /\ c \in [1 .. Cardinality(Members(b)) -> Members(b)]
        /\ Cardinality(Members(b)) \in Nat \ {0} /\ Members(b) \subseteq Slots
    BY DEF Emptied, Order
  <2> QED BY <2>1
<1>2. free_head' \in SlotOrNil
  BY <1>1 DEF Emptied, SlotOrNil
<1>3. next_index' \in [Slots -> SlotOrNil]
  BY DEF Emptied
<1>4. Nil \in SlotOrNil
  BY DEF SlotOrNil
<1>5. /\ name_key' \in [Buckets -> Keys \cup {NoKey}]
      /\ head_slot_idx' \in [Buckets -> SlotOrNil]
  BY <1>4 DEF Emptied, IInv, TypeOK
<1>6. id_slot' \in [IdBuckets -> SlotOrNil]
  BY <1>4 DEF Emptied, IInv, TypeOK
<1>7. /\ is_used' \in [Slots -> BOOLEAN]
      /\ prev_index' \in [Slots -> SlotOrNil]
      /\ slot_id' \in [Slots -> Ids \cup {NoId}]
      /\ slot_bucket' \in [Slots -> Buckets \cup {NoBucket}]
      /\ slot_value' \in [Slots -> Storable \cup {NoValue}]
  BY <1>4 DEF Emptied, IInv, TypeOK
<1> QED BY <1>2, <1>3, <1>5, <1>6, <1>7 DEF TypeOK

(* the id entries of the slots it frees are cleared, and no others *)
LEMMA IdEmptied ==
    ASSUME IInv, NEW b, NEW c, Emptied(b, c)
    PROVE  IdIndexExact'
<1>1. PICK M : M = Members(b)
  OBVIOUS
<1>2. /\ is_used' = [s \in Slots |-> is_used[s] /\ s \notin M]
      /\ id_slot' = [h \in IdBuckets |->
             IF id_slot[h] \in M /\ h = IdHash[slot_id[id_slot[h]]]
             THEN Nil ELSE id_slot[h]]
      /\ slot_id' = [s \in Slots |-> IF s \in M THEN NoId ELSE slot_id[s]]
  BY <1>1 DEF Emptied
<1>3. ASSUME NEW t \in Slots, is_used'[t]
      PROVE  slot_id'[t] \in Ids /\ id_slot'[IdHash[slot_id'[t]]] = t
  <2>1. is_used[t] /\ t \notin M /\ slot_id'[t] = slot_id[t]
    BY <1>2, <1>3
  <2>2. slot_id[t] \in Ids /\ id_slot[IdHash[slot_id[t]]] = t
    BY <2>1 DEF IInv, IdIndexExact
  <2>3. IdHash[slot_id[t]] \in IdBuckets
    BY <2>2, BucketsAssumption
  <2> QED BY <1>2, <2>1, <2>2, <2>3
<1>4. ASSUME NEW g \in IdBuckets, id_slot'[g] # Nil
      PROVE  is_used'[id_slot'[g]] /\ IdHash[slot_id'[id_slot'[g]]] = g
  <2>1. /\ id_slot'[g] = id_slot[g] /\ id_slot[g] # Nil
        /\ ~(id_slot[g] \in M /\ g = IdHash[slot_id[id_slot[g]]])
    BY <1>2, <1>4
  <2>2. is_used[id_slot[g]] /\ IdHash[slot_id[id_slot[g]]] = g
    BY <2>1 DEF IInv, IdIndexExact
  <2>3. id_slot[g] \in Slots /\ id_slot[g] \notin M
    BY <2>1, <2>2 DEF IInv, TypeOK, SlotOrNil
  <2> QED BY <1>2, <2>1, <2>2, <2>3
<1> QED
  BY <1>3, <1>4 DEF IdIndexExact

LEMMA FreeListEmptied ==
    ASSUME IInv, NEW b, NEW c, Emptied(b, c)
    PROVE  FreeListExact'
<1>1. PICK M, U : M = Members(b) /\ U = Unused
  OBVIOUS
<1>2. PICK f : Order(next_index, free_head, U, f)
  BY <1>1 DEF IInv, EverySlotOnItsList, FreeListExact, IsList
<1>3. /\ IsFiniteSet(U) /\ U \cap M = {} /\ U \subseteq Slots
  BY <1>1, SlotsFacts DEF Unused, Members
<1>4. /\ IsFiniteSet(M) /\ M # {} /\ M \subseteq Slots
      /\ Order(next_index, head_slot_idx[b], M, c)
      /\ free_head' = c[Cardinality(M)]
      /\ \A i \in 1 .. Cardinality(M) :
             next_index'[c[i]] = IF i = 1 THEN free_head ELSE c[i - 1]
  <2>1. IsFiniteSet(M) /\ M \subseteq Slots /\ Cardinality(M) # 0
    BY <1>1 DEF Emptied
  <2>2. M # {}
    BY <2>1, FS_EmptySet
  <2> QED BY <1>1, <2>1, <2>2 DEF Emptied
<1>5. \A t \in U : next_index'[t] = next_index[t]
  <2>1. \A s \in Slots \ M : next_index'[s] = next_index[s]
    BY <1>1 DEF Emptied
  <2> QED BY <1>3, <2>1
<1>6. Unused' = U \cup M
  BY <1>1, <1>3, <1>4 DEF Unused, Emptied
<1>7. IsList(next_index', c[Cardinality(M)], U \cup M)
  BY ONLY <1>2, <1>3, <1>4, <1>5, ListPushAll
<1> QED
  BY <1>4, <1>6, <1>7 DEF FreeListExact

LEMMA ChainsEmptied ==
    ASSUME IInv, NEW b, NEW c, Emptied(b, c)
    PROVE  ChainsExact'
<1>1. PICK M : M = Members(b)
  OBVIOUS
<1>2. /\ b \in Buckets
      /\ name_key' = [name_key EXCEPT ![b] = NoKey]
      /\ head_slot_idx' = [head_slot_idx EXCEPT ![b] = Nil]
      /\ is_used' = [s \in Slots |-> is_used[s] /\ s \notin M]
      /\ \A s \in Slots \ M : next_index'[s] = next_index[s]
      /\ prev_index' = [s \in Slots |-> IF s \in M THEN Nil ELSE prev_index[s]]
      /\ slot_bucket' = slot_bucket
  BY <1>1 DEF Emptied
<1>3. name_key'[b] = NoKey /\ Members(b)' = {}
  BY <1>1, <1>2 DEF IInv, TypeOK, Members
<1>4. ASSUME NEW a \in Buckets, a # b
      PROVE  IF name_key'[a] = NoKey THEN Members(a)' = {}
             ELSE /\ Members(a)' # {}
                  /\ IsDoubleList(next_index', prev_index', head_slot_idx'[a], Members(a)')
  <2>1. /\ name_key'[a] = name_key[a] /\ head_slot_idx'[a] = head_slot_idx[a]
        /\ Members(a)' = Members(a) /\ Members(a) \subseteq Slots \ M
    BY <1>1, <1>2, <1>4 DEF IInv, TypeOK, Members
  <2>2. CASE name_key[a] = NoKey
    BY <2>1, <2>2 DEF IInv, EverySlotOnItsList, ChainsExact
  <2>3. CASE name_key[a] # NoKey
    <3>1. PICK N : N = Members(a)
      OBVIOUS
    <3>2. PICK d : /\ Order(next_index, head_slot_idx[a], N, d)
                   /\ BackLinks(prev_index, N, d) /\ N # {}
      BY <2>3, <3>1 DEF IInv, EverySlotOnItsList, ChainsExact, IsDoubleList
    <3>3. \A t \in N : next_index'[t] = next_index[t] /\ prev_index'[t] = prev_index[t]
      BY <1>2, <2>1, <3>1
    <3>4. Order(next_index', head_slot_idx[a], N, d) /\ BackLinks(prev_index', N, d)
      BY ONLY <3>2, <3>3, ListFrame, BackFrame
    <3>5. IsDoubleList(next_index', prev_index', head_slot_idx[a], N)
      BY <3>4 DEF IsDoubleList, Order
    <3> QED BY <2>1, <2>3, <3>1, <3>2, <3>5
  <2> QED BY <2>2, <2>3
<1> QED
  BY <1>3, <1>4 DEF ChainsExact

LEMMA DeleteRecordIInv ==
    ASSUME IInv, NEW k \in Keys, DeleteRecord(k)
    PROVE  IInv'
<1>1. PICK c : Emptied(FindBucket(k), c)
  BY DeleteRecordEmpties
<1>2. \A s \in Slots : is_used'[s] => slot_bucket'[s] \in Buckets
  BY <1>1 DEF Emptied, IInv, EverySlotOnItsList
<1> QED
  BY <1>1, <1>2, TypeEmptied, IdEmptied, FreeListEmptied, ChainsEmptied
     DEF IInv, EverySlotOnItsList

(* init on an existing file finds the id table it would have written. *)
LEMMA ReopenedIds ==
    ASSUME IInv, Reopen
    PROVE  id_slot' = id_slot
<1>1. ASSUME NEW h \in IdBuckets
      PROVE  id_slot'[h] = id_slot[h]
  <2>1. PICK S : S = {s \in Slots : is_used[s] /\ IdHash[slot_id[s]] = h}
    OBVIOUS
  <2>2. id_slot'[h] = IF S = {} THEN Nil ELSE CHOOSE s \in S : \A t \in S : t <= s
    BY <2>1 DEF Reopen
  <2>3. \A s \in S : id_slot[h] = s
    BY <2>1 DEF IInv, IdIndexExact
  <2>4. CASE S = {}
    <3>1. id_slot[h] = Nil
      BY <2>1, <2>4 DEF IInv, IdIndexExact, TypeOK, SlotOrNil
    <3> QED BY <2>2, <2>4, <3>1
  <2>5. CASE S # {}
    <3>1. id_slot[h] \in S /\ S = {id_slot[h]}
      BY <2>3, <2>5
    <3>2. id_slot[h] \in Int
      BY <2>1, <3>1, SlotsFacts
    <3>3. \A t \in S : t <= id_slot[h]
      BY <3>1, <3>2
    <3> QED BY <2>2, <2>3, <2>5, <3>1, <3>3
  <2> QED BY <2>4, <2>5
<1>2. DOMAIN id_slot' = IdBuckets /\ DOMAIN id_slot = IdBuckets
  BY DEF Reopen, IInv, TypeOK
<1>3. id_slot' = [h \in IdBuckets |-> id_slot'[h]] /\ id_slot = [h \in IdBuckets |-> id_slot[h]]
  BY DEF Reopen, IInv, TypeOK
<1> QED BY <1>1, <1>3

LEMMA FirstUnusedFacts ==
    ASSUME TypeOK, NEW p \in 0 .. MaxRecords
    PROVE  /\ p = MaxRecords => FirstUnused(p) = Nil
           /\ p \in Slots =>
                  FirstUnused(p) = IF p \in Unused THEN p ELSE FirstUnused(p + 1)
           /\ FirstUnused(p) \in SlotOrNil
<1>1. MaxRecords \in Nat /\ Slots = 0 .. MaxRecords - 1
  BY RecordsAssumption DEF Slots
<1>2. /\ p = MaxRecords => FirstFree(is_used, MaxRecords, p) = Nil
      /\ p \in 0 .. MaxRecords - 1 =>
             FirstFree(is_used, MaxRecords, p) =
                 IF is_used[p] THEN FirstFree(is_used, MaxRecords, p + 1) ELSE p
      /\ FirstFree(is_used, MaxRecords, p) \in (0 .. MaxRecords - 1) \cup {Nil}
  BY <1>1, FirstFreeFacts
<1>3. \A q : FirstUnused(q) = FirstFree(is_used, MaxRecords, q)
  BY DEF FirstUnused, FirstFree, Slots
<1> QED BY <1>1, <1>2, <1>3 DEF SlotOrNil, Unused

LEMMA ReopenIInv ==
    ASSUME IInv, Reopen
    PROVE  IInv'
<1>1. /\ id_slot' = id_slot
      /\ next_index' = [s \in Slots |->
             IF is_used[s] THEN next_index[s] ELSE FirstUnused(s + 1)]
      /\ free_head' = FirstUnused(0)
      /\ UNCHANGED <<name_key, head_slot_idx, is_used, prev_index,
                     slot_id, slot_bucket, slot_value>>
  BY ReopenedIds DEF Reopen, contents
<1>2. MaxRecords \in Nat /\ Slots = 0 .. MaxRecords - 1 /\ TypeOK
  BY RecordsAssumption DEF Slots, IInv
<1>3. \A s \in Slots : s + 1 \in 0 .. MaxRecords /\ s \in 0 .. MaxRecords
  BY <1>2
<1>4. 0 \in 0 .. MaxRecords /\ MaxRecords \in 0 .. MaxRecords
  BY <1>2
<1>5. free_head' \in SlotOrNil /\ next_index' \in [Slots -> SlotOrNil]
  BY <1>1, <1>2, <1>3, <1>4, FirstUnusedFacts DEF TypeOK
<1>6. TypeOK'
  BY <1>1, <1>5 DEF IInv, TypeOK
<1>7. IdIndexExact'
  BY <1>1 DEF IInv, IdIndexExact
<1>8. FreeListExact'
  <2>1. PICK first : first = [p \in 0 .. MaxRecords |-> FirstUnused(p)]
    OBVIOUS
  <2>2. first[MaxRecords] = Nil /\ first[0] = FirstUnused(0)
    BY <1>2, <1>4, <2>1, FirstUnusedFacts
  <2>3. \A p \in 0 .. MaxRecords - 1 :
            first[p] = IF p \in Unused THEN p ELSE first[p + 1]
    BY <1>2, <1>3, <2>1, FirstUnusedFacts
  <2>4. \A s \in Unused : next_index'[s] = first[s + 1]
    BY <1>1, <1>3, <2>1 DEF Unused
  <2>5. Unused \in SUBSET (0 .. MaxRecords - 1)
    BY <1>2 DEF Unused
  <2>6. MaxRecords \in Nat
    BY <1>2
  <2>7. IsList(next_index', first[0], Unused)
    <3>1. PICK U, N : U = Unused /\ N = MaxRecords
      OBVIOUS
    <3>2. IsList(next_index', first[0], U)
      BY ONLY <2>2, <2>3, <2>4, <2>5, <2>6, <3>1, ListAscending
    <3> QED BY <3>1, <3>2
  <2> QED BY <1>1, <2>2, <2>7 DEF FreeListExact, Unused
<1>9. ASSUME NEW b \in Buckets
      PROVE  IF name_key'[b] = NoKey THEN Members(b)' = {}
             ELSE /\ Members(b)' # {}
                  /\ IsDoubleList(next_index', prev_index', head_slot_idx'[b], Members(b)')
  <2>1. Members(b)' = Members(b)
    BY <1>1 DEF Members
  <2>2. CASE name_key[b] = NoKey
    BY <1>1, <2>1, <2>2 DEF IInv, EverySlotOnItsList, ChainsExact
  <2>3. CASE name_key[b] # NoKey
    <3>1. PICK M : M = Members(b)
      OBVIOUS
    <3>2. PICK c : /\ Order(next_index, head_slot_idx[b], M, c)
                   /\ BackLinks(prev_index, M, c) /\ M # {}
      BY <2>3, <3>1 DEF IInv, EverySlotOnItsList, ChainsExact, IsDoubleList
    <3>3. \A t \in M : next_index'[t] = next_index[t] /\ prev_index'[t] = prev_index[t]
      BY <1>1, <3>1 DEF Members
    <3>4. Order(next_index', head_slot_idx[b], M, c) /\ BackLinks(prev_index', M, c)
      BY ONLY <3>2, <3>3, ListFrame, BackFrame
    <3>5. IsDoubleList(next_index', prev_index', head_slot_idx[b], M)
      BY <3>4 DEF IsDoubleList, Order
    <3> QED BY <1>1, <2>1, <2>3, <3>1, <3>2, <3>5
  <2> QED BY <2>2, <2>3
<1>10. ChainsExact'
  BY <1>9 DEF ChainsExact
<1>11. \A s \in Slots : is_used'[s] => slot_bucket'[s] \in Buckets
  BY <1>1 DEF IInv, EverySlotOnItsList
<1> QED
  BY <1>6, <1>7, <1>8, <1>10, <1>11 DEF IInv, EverySlotOnItsList

-----------------------------------------------------------------------------
(* The invariant *)

LEMMA InitIInv == Init => IInv
<1> SUFFICES ASSUME Init PROVE IInv
  OBVIOUS
<1>1. TypeOK
  BY TypeInit
<1>2. IdIndexExact
  BY DEF Init, IdIndexExact
<1>3. \A b \in Buckets : name_key[b] = NoKey /\ Members(b) = {}
  BY DEF Init, Members
<1>4. FreeListExact
  <2> DEFINE c == [i \in 1 .. MaxRecords |-> i - 1]
  <2>1. Unused = 0 .. MaxRecords - 1
    BY DEF Init, Unused, Slots
  <2>2. Cardinality(Unused) = MaxRecords /\ MaxRecords \in Nat /\ MaxRecords > 0
    BY <2>1, RecordsAssumption, FS_Interval
  <2>3. c \in [1 .. MaxRecords -> Unused]
    BY <2>1, <2>2
  <2>4. \A s \in Unused : \E i \in 1 .. MaxRecords : c[i] = s
    <3> TAKE s \in Unused
    <3>1. s + 1 \in 1 .. MaxRecords /\ c[s + 1] = s
      BY <2>1, <2>2
    <3> QED BY <3>1
  <2>5. \A i, j \in 1 .. MaxRecords : c[i] = c[j] => i = j
    BY <2>2
  <2>6. free_head = IF Unused = {} THEN Nil ELSE c[1]
    <3>1. 0 \in Unused /\ c[1] = 0
      BY <2>1, <2>2
    <3>2. free_head = 0
      BY DEF Init
    <3> QED BY <3>1, <3>2
  <2>7. \A i \in 1 .. MaxRecords :
          next_index[c[i]] = IF i = MaxRecords THEN Nil ELSE c[i + 1]
    BY <2>2 DEF Init, Slots
  <2>8. Order(next_index, free_head, Unused, c)
    BY <2>2, <2>3, <2>4, <2>5, <2>6, <2>7 DEF Order
  <2> QED BY <2>2, <2>3, <2>8 DEF FreeListExact, IsList
<1> QED
  BY <1>1, <1>2, <1>3, <1>4 DEF Init, IInv, EverySlotOnItsList, ChainsExact

LEMMA NextIInv == IInv /\ [Next]_vars => IInv'
<1> SUFFICES ASSUME IInv, [Next]_vars PROVE IInv'
  OBVIOUS
<1>1. ASSUME NEW k \in Keys, NEW id \in Ids, NEW v \in Values, AppendRecord(k, id, v)
      PROVE  IInv'
  <2>1. \A s \in Slots : is_used'[s] => slot_bucket'[s] \in Buckets
    <3>1. FindBucket(k) \in Buckets /\ free_head \in Slots
      BY <1>1, FindBucketFacts, FreeHeadUnused DEF AppendRecord, CanAppend
    <3> QED BY <1>1, <3>1 DEF AppendRecord, IInv, TypeOK, EverySlotOnItsList
  <2> QED
    BY <1>1, <2>1, TypeAppend, IdAppend, FreeListAppend, ChainsAppend
       DEF IInv, EverySlotOnItsList
<1>2. ASSUME NEW id \in Ids, NEW v \in Values, UpdateRecord(id, v)
      PROVE  IInv'
  <2>1. UNCHANGED <<tables, links, slot_id, slot_bucket>>
    BY <1>2 DEF UpdateRecord
  <2>2. TypeOK'
    BY <1>2, TypeUpdate
  <2>3. IdIndexExact'
    BY <2>1 DEF IInv, IdIndexExact, tables, links
  <2>4. EverySlotOnItsList'
    BY <2>1 DEF IInv, EverySlotOnItsList, FreeListExact, Unused, ChainsExact,
                Members, tables, links
  <2> QED BY <2>2, <2>3, <2>4 DEF IInv
<1>3. ASSUME NEW id \in Ids, DeleteRecordFromUuid(id)
      PROVE  IInv'
  <2>1. \A s \in Slots : is_used'[s] => slot_bucket'[s] \in Buckets
    BY <1>3 DEF DeleteRecordFromUuid, IInv, TypeOK, EverySlotOnItsList
  <2> QED
    BY <1>3, <2>1, TypeDelete, IdDelete, FreeListDelete, ChainsDelete
       DEF IInv, EverySlotOnItsList
<1>4. CASE UNCHANGED vars
  <2>1. TypeOK'
    BY <1>4 DEF IInv, TypeOK, vars
  <2>2. IdIndexExact'
    BY <1>4 DEF IInv, IdIndexExact, vars
  <2>3. EverySlotOnItsList'
    BY <1>4 DEF IInv, EverySlotOnItsList, FreeListExact, Unused, ChainsExact,
                Members, vars
  <2> QED BY <2>1, <2>2, <2>3 DEF IInv
<1> QED
  BY <1>1, <1>2, <1>3, <1>4 DEF Next

LEMMA FullNextIInv == IInv /\ [FullNext]_vars => IInv'
<1> SUFFICES ASSUME IInv, [FullNext]_vars PROVE IInv'
  OBVIOUS
<1>1. ASSUME NEW k \in Keys, DeleteRecord(k) PROVE IInv'
  BY <1>1, DeleteRecordIInv
<1>2. CASE Reopen
  BY <1>2, ReopenIInv
<1>3. CASE [Next]_vars
  BY <1>3, NextIInv
<1> QED BY <1>1, <1>2, <1>3 DEF FullNext

LEMMA AlwaysIInv == FullSpec => []IInv
<1> QED
  BY InitIInv, FullNextIInv, PTL DEF FullSpec

(* What holds of every call holds of the calls the program makes. *)
LEMMA SpecIsPart == Spec => FullSpec
<1>1. [Next]_vars => [FullNext]_vars
  BY DEF FullNext
<1> QED
  BY <1>1, PTL DEF Spec, FullSpec

(* Every field of the shared file always holds a value of its type, whatever *)
(* order append_record, update_record, the two deletes and an init on the    *)
(* existing file are called in.                                              *)
THEOREM RecordCacheTypes == FullSpec => []TypeOK
<1>1. IInv => TypeOK
  BY DEF IInv
<1> QED BY <1>1, AlwaysIInv, PTL

(* No slot of the record cache is ever lost, shared by two lists or left on *)
(* a chain of another bucket, for every capacity and every probe order:     *)
(* also delete_record returns exactly the chain it empties, and a reopened  *)
(* file threads exactly the unused slots.                                   *)
THEOREM RecordCacheLists == FullSpec => []EverySlotOnItsList
<1>1. IInv => EverySlotOnItsList
  BY DEF IInv
<1> QED BY <1>1, AlwaysIInv, PTL

(* The id table finds every cached record and nothing else, for every way   *)
(* ids can collide in it; no id is ever cached twice.                       *)
THEOREM RecordCacheIds == FullSpec => []IdIndexExact
<1>1. IInv => IdIndexExact
  BY DEF IInv
<1> QED BY <1>1, AlwaysIInv, PTL

-----------------------------------------------------------------------------
(* Refinement *)

\* the record a used slot stands for
RecordIn(s) ==
    [id |-> slot_id[s], key |-> name_key[slot_bucket[s]], value |-> slot_value[s]]

LEMMA IdsDistinct ==
    ASSUME IInv, NEW s \in Slots, NEW t \in Slots, is_used[s], is_used[t],
           slot_id[s] = slot_id[t]
    PROVE  s = t
  BY DEF IInv, IdIndexExact

LEMMA StoreAppend ==
    ASSUME IInv, NEW k \in Keys, NEW id \in Ids, NEW v \in Values,
           AppendRecord(k, id, v)
    PROVE  Store!Put(k, id, v)
<1>0. PICK s, b : s = free_head /\ b = FindBucket(k)
  OBVIOUS
<1>1. /\ s \in Slots /\ ~is_used[s] /\ b \in Buckets
      /\ name_key[b] \in {NoKey, k} /\ id_slot[IdHash[id]] = Nil
  BY <1>0, FreeHeadUnused, FindBucketFacts DEF AppendRecord, CanAppend
<1>2. /\ name_key' = [name_key EXCEPT ![b] = k]
      /\ is_used' = [is_used EXCEPT ![s] = TRUE]
      /\ slot_bucket' = [slot_bucket EXCEPT ![s] = b]
      /\ slot_id' = [slot_id EXCEPT ![s] = id]
      /\ slot_value' = [slot_value EXCEPT ![s] = v]
  BY <1>0 DEF AppendRecord
<1>3. \A t \in Slots : is_used'[t] <=> (is_used[t] \/ t = s)
  BY <1>1, <1>2 DEF IInv, TypeOK
<1>4. \A t \in Slots : is_used[t] => RecordIn(t)' = RecordIn(t)
  <2> TAKE t \in Slots
  <2> HAVE is_used[t]
  <2>1. t # s /\ slot_bucket[t] \in Buckets
    BY <1>1 DEF IInv, EverySlotOnItsList
  <2>2. slot_bucket[t] = b => name_key[b] = k
    BY <1>1 DEF IInv, EverySlotOnItsList, ChainsExact, Members
  <2>3. /\ slot_id'[t] = slot_id[t] /\ slot_bucket'[t] = slot_bucket[t]
        /\ slot_value'[t] = slot_value[t]
        /\ name_key'[slot_bucket[t]] = name_key[slot_bucket[t]]
    BY <2>1, <2>2, <1>1, <1>2 DEF IInv, TypeOK
  <2> QED BY <2>3 DEF RecordIn
<1>5. RecordIn(s)' = [id |-> id, key |-> k, value |-> v]
  BY <1>1, <1>2 DEF RecordIn, IInv, TypeOK
<1>6. StoreView' = StoreView \cup {[id |-> id, key |-> k, value |-> v]}
  <2>1. StoreView = {RecordIn(t) : t \in {u \in Slots : is_used[u]}}
    BY DEF StoreView, RecordIn
  <2>2. StoreView' = {RecordIn(t)' : t \in {u \in Slots : is_used'[u]}}
    BY DEF StoreView, RecordIn
  <2> HIDE DEF RecordIn
  <2> QED BY <2>1, <2>2, <1>1, <1>3, <1>4, <1>5
<1>7. Store!WithId(id) = {}
  <2>1. \A t \in Slots : is_used[t] => slot_id[t] # id
    BY <1>1, SlotsFacts DEF IInv, IdIndexExact
  <2> QED BY <2>1 DEF Store!WithId, StoreView
<1> QED
  BY <1>6, <1>7 DEF Store!Put

LEMMA StoreUpdate ==
    ASSUME IInv, NEW id \in Ids, NEW v \in Values, UpdateRecord(id, v)
    PROVE  Store!Revise(id, v)
<1>0. PICK s : s = SlotOf(id)
  OBVIOUS
<1>1. s \in Slots /\ is_used[s] /\ slot_id[s] = id
  BY <1>0, SlotOfFacts DEF UpdateRecord, IInv
<1>2. /\ slot_value' = [slot_value EXCEPT ![s] = v]
      /\ UNCHANGED <<name_key, is_used, slot_id, slot_bucket>>
  BY <1>0 DEF UpdateRecord, tables, links
<1>3. \A t \in Slots : is_used[t] /\ t # s =>
        RecordIn(t)' = RecordIn(t) /\ RecordIn(t) # RecordIn(s)
  <2> TAKE t \in Slots
  <2> HAVE is_used[t] /\ t # s
  <2>1. RecordIn(t)' = RecordIn(t)
    BY <1>1, <1>2 DEF RecordIn, IInv, TypeOK
  <2>2. slot_id[t] # slot_id[s]
    BY <1>1, IdsDistinct
  <2>3. RecordIn(t).id # RecordIn(s).id
    BY <2>2 DEF RecordIn
  <2> QED BY <2>1, <2>3
<1>4. RecordIn(s)' = [id |-> id, key |-> RecordIn(s).key, value |-> v]
  BY <1>1, <1>2 DEF RecordIn, IInv, TypeOK
<1>5. /\ StoreView = {RecordIn(t) : t \in {u \in Slots : is_used[u]}}
      /\ StoreView' = {RecordIn(t)' : t \in {u \in Slots : is_used[u]}}
  BY <1>2 DEF StoreView, RecordIn
<1>6. RecordIn(s).id = id
  BY <1>1 DEF RecordIn
<1> HIDE DEF RecordIn
<1>7. RecordIn(s) \in Store!WithId(id)
  BY <1>1, <1>5, <1>6 DEF Store!WithId
<1>8. StoreView' = (StoreView \ {RecordIn(s)}) \cup {RecordIn(s)'}
  BY <1>1, <1>3, <1>5
<1> QED
  BY <1>4, <1>7, <1>8 DEF Store!Revise

LEMMA StoreDelete ==
    ASSUME IInv, NEW id \in Ids, DeleteRecordFromUuid(id)
    PROVE  Store!Drop(id)
<1>0. PICK s, b : s = SlotOf(id) /\ b = slot_bucket[s]
  OBVIOUS
<1>1. s \in Slots /\ is_used[s] /\ slot_id[s] = id /\ b \in Buckets
  BY <1>0, SlotOfFacts DEF DeleteRecordFromUuid, IInv, EverySlotOnItsList
<1>2. /\ is_used' = [is_used EXCEPT ![s] = FALSE]
      /\ slot_id' = [slot_id EXCEPT ![s] = NoId]
      /\ slot_value' = [slot_value EXCEPT ![s] = NoValue]
      /\ slot_bucket' = slot_bucket
      /\ \A a \in Buckets \ {b} : name_key'[a] = name_key[a]
      /\ name_key'[b] \in {name_key[b], NoKey}
  BY <1>0, <1>1 DEF DeleteRecordFromUuid, IInv, TypeOK
<1>3. \A t \in Slots : is_used'[t] <=> (is_used[t] /\ t # s)
  BY <1>1, <1>2 DEF IInv, TypeOK
<1>4. \A t \in Slots : is_used'[t] => name_key'[slot_bucket[t]] = name_key[slot_bucket[t]]
  <2> TAKE t \in Slots
  <2> HAVE is_used'[t]
  <2>1. slot_bucket[t] \in Buckets
    BY <1>3 DEF IInv, EverySlotOnItsList
  <2>2. slot_bucket[t] = b => name_key'[b] # NoKey
    <3>1. IInv' /\ slot_bucket'[t] = slot_bucket[t]
      BY <1>2, NextIInv DEF Next
    <3>2. slot_bucket[t] = b => t \in Members(b)'
      BY <1>2 DEF Members
    <3> QED BY <3>1, <3>2, <1>1 DEF IInv, EverySlotOnItsList, ChainsExact
  <2> QED BY <2>1, <2>2, <1>2
<1>5. \A t \in Slots : is_used'[t] => RecordIn(t)' = RecordIn(t)
  BY <1>2, <1>3, <1>4 DEF RecordIn, IInv, TypeOK
<1>6. \A t \in Slots : is_used[t] /\ t # s => RecordIn(t) # RecordIn(s)
  <2> TAKE t \in Slots
  <2> HAVE is_used[t] /\ t # s
  <2>1. slot_id[t] # slot_id[s]
    BY <1>1, IdsDistinct
  <2>2. RecordIn(t).id # RecordIn(s).id
    BY <2>1 DEF RecordIn
  <2> QED BY <2>2
<1>7. /\ StoreView = {RecordIn(t) : t \in {u \in Slots : is_used[u]}}
      /\ StoreView' = {RecordIn(t)' : t \in {u \in Slots : is_used'[u]}}
  BY DEF StoreView, RecordIn
<1>8. RecordIn(s).id = id
  BY <1>1 DEF RecordIn
<1> HIDE DEF RecordIn
<1>9. StoreView' = StoreView \ {RecordIn(s)}
  BY <1>1, <1>3, <1>5, <1>6, <1>7
<1>10. RecordIn(s) \in Store!WithId(id)
  BY <1>1, <1>7, <1>8 DEF Store!WithId
<1> QED
  BY <1>9, <1>10 DEF Store!Drop

LEMMA StoreDeleteRecord ==
    ASSUME IInv, NEW k \in Keys, DeleteRecord(k)
    PROVE  Store!DropSome(k)
<1>0. PICK b, M : b = FindBucket(k) /\ M = Members(b)
  OBVIOUS
<1>1. PICK c : Emptied(b, c)
  BY <1>0, DeleteRecordEmpties
<1>2. b \in Buckets /\ name_key[b] = k
  BY <1>0, FindBucketFacts DEF DeleteRecord
<1>3. /\ name_key' = [name_key EXCEPT ![b] = NoKey]
      /\ is_used' = [s \in Slots |-> is_used[s] /\ s \notin M]
      /\ slot_id' = [s \in Slots |-> IF s \in M THEN NoId ELSE slot_id[s]]
      /\ slot_value' = [s \in Slots |-> IF s \in M THEN NoValue ELSE slot_value[s]]
      /\ slot_bucket' = slot_bucket
  BY <1>0, <1>1 DEF Emptied
<1>4. \A t \in Slots : is_used'[t] <=> (is_used[t] /\ t \notin M)
  BY <1>3
<1>5. \A t \in Slots : is_used[t] /\ t \notin M => slot_bucket[t] \in Buckets \ {b}
  BY <1>0 DEF Members, IInv, EverySlotOnItsList
<1>6. \A t \in Slots : is_used'[t] => RecordIn(t)' = RecordIn(t)
  BY <1>2, <1>3, <1>4, <1>5 DEF RecordIn, IInv, TypeOK
<1>7. \A t \in M : t \in Slots /\ is_used[t] /\ RecordIn(t).key = k
  BY <1>0, <1>2 DEF Members, RecordIn
<1>8. \A s, t \in Slots : is_used[s] /\ is_used[t] /\ RecordIn(s) = RecordIn(t) => s = t
  <2> SUFFICES ASSUME NEW s \in Slots, NEW t \in Slots, is_used[s], is_used[t],
                      RecordIn(s) = RecordIn(t)
               PROVE  s = t
    OBVIOUS
  <2>1. RecordIn(s).id = slot_id[s] /\ RecordIn(t).id = slot_id[t]
    BY DEF RecordIn
  <2> QED BY <2>1, IdsDistinct
<1>9. /\ StoreView = {RecordIn(t) : t \in {u \in Slots : is_used[u]}}
      /\ StoreView' = {RecordIn(t)' : t \in {u \in Slots : is_used'[u]}}
  BY DEF StoreView, RecordIn
<1> HIDE DEF RecordIn
<1>10. StoreView' = StoreView \ {RecordIn(t) : t \in M}
  BY <1>4, <1>6, <1>7, <1>8, <1>9
<1>11. {RecordIn(t) : t \in M} \in SUBSET {r \in StoreView : r.key = k}
  BY <1>7, <1>9
<1> QED
  BY <1>10, <1>11 DEF Store!DropSome

(* The record cache implements the abstract store: for every capacity, probe *)
(* order and id hash, each call adds, changes or removes exactly the record  *)
(* it names, delete_record removes only records of its key, a reopened file  *)
(* holds the same records, and no record ever moves to another key, although *)
(* its slot knows its key only through a bucket that is emptied and reused.  *)
THEOREM RecordCacheImplementsStore == FullSpec => ImplementsStore
<1>1. Init => Store!Init
  BY DEF Init, Store!Init, StoreView
<1>2. IInv /\ [FullNext]_vars => [Store!Next]_StoreView
  <2> SUFFICES ASSUME IInv, [FullNext]_vars PROVE [Store!Next]_StoreView
    OBVIOUS
  <2>1. ASSUME NEW k \in Keys, NEW id \in Ids, NEW v \in Values, AppendRecord(k, id, v)
        PROVE  Store!Next
    BY <2>1, StoreAppend DEF Store!Next
  <2>2. ASSUME NEW id \in Ids, NEW v \in Values, UpdateRecord(id, v)
        PROVE  Store!Next
    BY <2>2, StoreUpdate DEF Store!Next
  <2>3. ASSUME NEW id \in Ids, DeleteRecordFromUuid(id)
        PROVE  Store!Next
    BY <2>3, StoreDelete DEF Store!Next
  <2>4. ASSUME NEW k \in Keys, DeleteRecord(k)
        PROVE  Store!Next
    BY <2>4, StoreDeleteRecord DEF Store!Next
  <2>5. CASE Reopen
    BY <2>5 DEF Reopen, contents, StoreView
  <2>6. CASE UNCHANGED vars
    BY <2>6 DEF vars, StoreView
  <2> QED BY <2>1, <2>2, <2>3, <2>4, <2>5, <2>6 DEF FullNext, Next
<1> QED
  BY <1>1, <1>2, AlwaysIInv, PTL DEF FullSpec, ImplementsStore, Store!Spec

-----------------------------------------------------------------------------
(* Lookups *)

LEMMA WalkIsWalk ==
    ASSUME TypeOK
    PROVE  IsWalk(Walk, is_used, next_index, Slots, MaxRecords)
<1>1. /\ is_used \in [Slots -> BOOLEAN] /\ next_index \in [Slots -> Slots \cup {Nil}]
      /\ Nil \notin Slots /\ MaxRecords \in Nat
  BY SlotsFacts, RecordsAssumption DEF TypeOK, SlotOrNil
<1>2. \E w : IsWalk(w, is_used, next_index, Slots, MaxRecords)
  BY <1>1, WalkExists
<1> QED
  BY <1>2 DEF IsWalk, Walk, SlotOrNil

\* the slots k's bucket holds
Live(k) == IF FindBucket(k) = NoBucket THEN {} ELSE Members(FindBucket(k))

(* get_record reads every slot that was added to the bucket it finds, each  *)
(* once, and no other: its walk never stops short and never strays.         *)
LEMMA LookupSlots ==
    ASSUME IInv, NEW k \in Keys
    PROVE  {GetRecord(k)[i] : i \in DOMAIN GetRecord(k)} = Live(k)
<1>1. PICK b : b = FindBucket(k)
  OBVIOUS
<1>2. CASE b = NoBucket
  <2>1. GetRecord(k) = <<>>
    BY <1>1, <1>2 DEF GetRecord
  <2> QED BY <1>1, <1>2, <2>1 DEF Live
<1>3. CASE b # NoBucket /\ name_key[b] = NoKey
  <2>1. GetRecord(k) = <<>>
    BY <1>1, <1>3 DEF GetRecord
  <2>2. Members(b) = {}
    BY <1>1, <1>3, FindBucketFacts DEF IInv, EverySlotOnItsList, ChainsExact
  <2> QED BY <1>1, <1>3, <2>1, <2>2 DEF Live
<1>4. CASE b # NoBucket /\ name_key[b] # NoKey
  <2>1. b \in Buckets
    BY <1>1, <1>4, FindBucketFacts
  <2>2. PICK c : Order(next_index, head_slot_idx[b], Members(b), c)
    BY <1>4, <2>1 DEF IInv, EverySlotOnItsList, ChainsExact, IsDoubleList
  <2>3. Walk[MaxRecords][head_slot_idx[b]] = c
    <3>1. \A s \in Members(b) : is_used[s]
      BY DEF Members
    <3>2. IsWalk(Walk, is_used, next_index, Slots, MaxRecords)
      BY WalkIsWalk DEF IInv
    <3>3. Nil \notin Slots /\ MaxRecords \in Nat
      BY SlotsFacts, RecordsAssumption
    <3> QED BY <2>2, <3>1, <3>2, <3>3, MembersFit, WalkOfList
  <2>4. GetRecord(k) = c
    BY <1>1, <1>4, <2>3 DEF GetRecord
  <2>5. /\ DOMAIN c = 1 .. Cardinality(Members(b))
        /\ {c[i] : i \in DOMAIN c} = Members(b)
    BY <2>2 DEF Order
  <2> QED BY <1>1, <1>4, <2>4, <2>5 DEF Live
<1> QED BY <1>2, <1>3, <1>4

LEMMA VisibleIsLive ==
    ASSUME IInv, NEW k \in Keys
    PROVE  Visible(k) = {slot_id[s] : s \in Live(k)}
  BY LookupSlots DEF Visible

LEMMA AlwaysDisjoint == IInv => LookupsDisjoint
<1> SUFFICES ASSUME IInv, NEW k \in Keys
             PROVE  /\ \A i \in DOMAIN GetRecord(k) :
                           slot_bucket[GetRecord(k)[i]] = FindBucket(k)
                    /\ \A j \in Keys \ {k} : Visible(k) \cap Visible(j) = {}
  BY DEF LookupsDisjoint
<1>1. \A i \in DOMAIN GetRecord(k) : slot_bucket[GetRecord(k)[i]] = FindBucket(k)
  <2> TAKE i \in DOMAIN GetRecord(k)
  <2>1. GetRecord(k)[i] \in Live(k)
    BY LookupSlots
  <2> QED BY <2>1 DEF Live, Members
<1>2. ASSUME NEW j \in Keys \ {k}, NEW id \in Visible(k), id \in Visible(j)
      PROVE  FALSE
  <2>1. PICK s \in Live(k) : slot_id[s] = id
    BY VisibleIsLive
  <2>2. PICK t \in Live(j) : slot_id[t] = id
    BY <1>2, VisibleIsLive
  <2>3. /\ s \in Slots /\ t \in Slots /\ is_used[s] /\ is_used[t]
        /\ FindBucket(k) # NoBucket /\ FindBucket(j) # NoBucket
        /\ slot_bucket[s] = FindBucket(k) /\ slot_bucket[t] = FindBucket(j)
    BY <2>1, <2>2 DEF Live, Members
  <2>4. FindBucket(k) = FindBucket(j)
    BY <2>1, <2>2, <2>3, IdsDistinct
  <2>5. name_key[FindBucket(k)] = NoKey
    BY <2>3, <2>4, FindBucketFacts
  <2>6. Members(FindBucket(k)) = {}
    BY <2>3, <2>5, FindBucketFacts DEF IInv, EverySlotOnItsList, ChainsExact
  <2> QED BY <2>3, <2>6 DEF Members
<1> QED BY <1>1, <1>2

LEMMA VisibleAlways == IInv => \A k \in Keys : Visible(k) = {slot_id[s] : s \in Live(k)}
  BY VisibleIsLive

LEMMA VisibleNext == IInv' => (\A k \in Keys : Visible(k) = {slot_id[s] : s \in Live(k)})'
  BY VisibleAlways, PTL

\* a chain whose slots all stay, and whose bucket a probe still ends at, stays
\* visible
LEMMA LiveStaysVisible ==
    ASSUME IInv, IInv', NEW k \in Keys,
           \A s \in Live(k) : s \in Live(k)' /\ slot_id'[s] = slot_id[s]
    PROVE  Visible(k) \subseteq Visible(k)'
<1>1. Visible(k) = {slot_id[s] : s \in Live(k)}
  BY VisibleIsLive
<1>2. Visible(k)' = {slot_id'[s] : s \in Live(k)'}
  <2>1. (\A j \in Keys : Visible(j) = {slot_id[s] : s \in Live(j)})'
    BY VisibleNext
  <2> QED BY <2>1
<1> QED BY <1>1, <1>2

(* A probe sequence ends where it ended as long as no bucket on it changes *)
(* but from empty to used.                                                 *)
LEMMA ProbeStays ==
    ASSUME NEW k \in Keys, FindBucket(k) # NoBucket, name_key[FindBucket(k)] = k,
           \A b \in Buckets : name_key[b] # NoKey => name_key'[b] = name_key[b]
    PROVE  FindBucket(k)' = FindBucket(k)
<1>1. Probe[k] \in Seq(Buckets)
  BY BucketsAssumption
<1>2. \A i \in 1 .. Len(Probe[k]) : Probe[k][i] \in Buckets
  BY <1>1
<1>3. \E i \in 1 .. Len(Probe[k]) : FirstStop(k, i)
  BY DEF FindBucket
<1>4. PICK n \in 1 .. Len(Probe[k]) : FirstStop(k, n) /\ FindBucket(k) = Probe[k][n]
  BY <1>3 DEF FindBucket
<1>5. k # NoKey
  BY RecordsAssumption
<1>6. ASSUME NEW i \in 1 .. Len(Probe[k]), i < n
      PROVE  ~Stops(k, Probe[k][i]) /\ ~Stops(k, Probe[k][i])'
  <2>1. ~Stops(k, Probe[k][i])
    BY <1>1, <1>4, <1>6 DEF FirstStop
  <2>2. name_key'[Probe[k][i]] = name_key[Probe[k][i]]
    BY <1>2, <2>1 DEF Stops
  <2> QED BY <2>1, <2>2 DEF Stops
<1>7. FirstStop(k, n)'
  <2>1. name_key[Probe[k][n]] = k
    BY <1>4
  <2>2. name_key'[Probe[k][n]] = k
    BY <1>2, <1>4, <1>5, <2>1
  <2>3. \A i \in 1 .. n - 1 : i \in 1 .. Len(Probe[k]) /\ i < n
    BY <1>1, <1>4
  <2> QED BY <1>6, <2>2, <2>3 DEF FirstStop, Stops
<1>8. \A i \in 1 .. Len(Probe[k]) : FirstStop(k, i)' => i = n
  <2> SUFFICES ASSUME NEW i \in 1 .. Len(Probe[k]), FirstStop(k, i)', i # n PROVE FALSE
    OBVIOUS
  <2>1. CASE i < n
    BY <1>6, <2>1 DEF FirstStop
  <2>2. CASE n < i
    <3>1. n \in 1 .. i - 1
      BY <1>1, <1>4, <2>2
    <3>2. Stops(k, Probe[k][n])'
      BY <1>7 DEF FirstStop
    <3> QED BY <3>1, <3>2 DEF FirstStop
  <2> QED BY <1>1, <1>4, <2>1, <2>2
<1>9. FindBucket(k)' = Probe[k][n]
  BY <1>4, <1>7, <1>8 DEF FindBucket
<1> QED BY <1>4, <1>9

\* a bucket with members has the name of the key that finds it
LEMMA NamedIfLive ==
    ASSUME IInv, NEW k \in Keys, Live(k) # {}
    PROVE  /\ FindBucket(k) # NoBucket /\ FindBucket(k) \in Buckets
           /\ name_key[FindBucket(k)] = k
<1>1. FindBucket(k) # NoBucket /\ Members(FindBucket(k)) # {}
  BY DEF Live
<1>2. FindBucket(k) \in Buckets /\ name_key[FindBucket(k)] \in {NoKey, k}
  BY <1>1, FindBucketFacts
<1> QED
  BY <1>1, <1>2 DEF IInv, EverySlotOnItsList, ChainsExact

LEMMA VisibleAppend ==
    ASSUME IInv, IInv', NEW k0 \in Keys, NEW id \in Ids, NEW v \in Values,
           AppendRecord(k0, id, v), NEW k \in Keys
    PROVE  Visible(k) \subseteq Visible(k)'
<1>1. SUFFICES ASSUME NEW s \in Live(k) PROVE s \in Live(k)' /\ slot_id'[s] = slot_id[s]
  BY LiveStaysVisible
<1>2. PICK b, t : b = FindBucket(k0) /\ t = free_head
  OBVIOUS
<1>3. /\ t \in Slots /\ ~is_used[t] /\ b \in Buckets /\ name_key[b] \in {NoKey, k0}
  BY <1>2, FreeHeadUnused, FindBucketFacts DEF AppendRecord, CanAppend
<1>4. /\ name_key' = [name_key EXCEPT ![b] = k0]
      /\ is_used' = [is_used EXCEPT ![t] = TRUE]
      /\ slot_bucket' = [slot_bucket EXCEPT ![t] = b]
      /\ slot_id' = [slot_id EXCEPT ![t] = id]
  BY <1>2 DEF AppendRecord
<1>5. \A a \in Buckets : name_key[a] # NoKey => name_key'[a] = name_key[a]
  BY <1>3, <1>4 DEF IInv, TypeOK
<1>6. FindBucket(k)' = FindBucket(k) /\ FindBucket(k) # NoBucket
  BY <1>1, <1>5, NamedIfLive, ProbeStays
<1>7. s \in Slots /\ is_used[s] /\ s # t /\ slot_bucket[s] = FindBucket(k)
  BY <1>1, <1>3, <1>6 DEF Live, Members
<1>8. is_used'[s] /\ slot_bucket'[s] = slot_bucket[s] /\ slot_id'[s] = slot_id[s]
  BY <1>4, <1>7 DEF IInv, TypeOK
<1> QED BY <1>6, <1>7, <1>8 DEF Live, Members

\* calls that leave buckets, ids and uses alone leave every lookup alone
LEMMA VisibleFrame ==
    ASSUME IInv, IInv', UNCHANGED <<name_key, is_used, slot_id, slot_bucket>>, NEW k \in Keys
    PROVE  Visible(k) \subseteq Visible(k)'
<1>1. Live(k)' = Live(k)
  BY DEF Live, Members, FindBucket, FirstStop, Stops
<1> QED BY <1>1, LiveStaysVisible

LEMMA CachedDelete ==
    ASSUME IInv, NEW id \in Ids, DeleteRecordFromUuid(id)
    PROVE  ~(Cached \subseteq Cached')
<1>1. PICK s : s = SlotOf(id)
  OBVIOUS
<1>2. s \in Slots /\ is_used[s] /\ slot_id[s] = id
  BY <1>1, SlotOfFacts DEF DeleteRecordFromUuid, IInv
<1>3. /\ is_used' = [is_used EXCEPT ![s] = FALSE]
      /\ slot_id' = [slot_id EXCEPT ![s] = NoId]
  BY <1>1 DEF DeleteRecordFromUuid
<1>4. id \in Cached
  BY <1>2 DEF Cached
<1>5. ASSUME NEW t \in Slots, is_used'[t] PROVE slot_id'[t] # id
  <2>1. t # s /\ is_used[t] /\ slot_id'[t] = slot_id[t]
    BY <1>2, <1>3, <1>5 DEF IInv, TypeOK
  <2> QED BY <1>2, <2>1, IdsDistinct
<1>6. id \notin Cached'
  BY <1>5 DEF Cached
<1> QED BY <1>4, <1>6

LEMMA CachedDeleteRecord ==
    ASSUME IInv, NEW k \in Keys, DeleteRecord(k)
    PROVE  ~(Cached \subseteq Cached')
<1>1. PICK b, M, c : b = FindBucket(k) /\ M = Members(b) /\ Emptied(b, c)
  BY DeleteRecordEmpties
<1>2. /\ is_used' = [s \in Slots |-> is_used[s] /\ s \notin M]
      /\ slot_id' = [s \in Slots |-> IF s \in M THEN NoId ELSE slot_id[s]]
      /\ b \in Buckets /\ name_key[b] # NoKey
  BY <1>1 DEF Emptied
<1>3. PICK s : s \in M
  BY <1>1, <1>2 DEF IInv, EverySlotOnItsList, ChainsExact
<1>4. s \in Slots /\ is_used[s] /\ slot_id[s] \in Cached
  BY <1>1, <1>3 DEF Members, Cached
<1>5. ASSUME NEW t \in Slots, is_used'[t] PROVE slot_id'[t] # slot_id[s]
  <2>1. t \notin M /\ is_used[t] /\ slot_id'[t] = slot_id[t]
    BY <1>2, <1>5
  <2> QED BY <1>3, <1>4, <2>1, IdsDistinct
<1>6. slot_id[s] \notin Cached'
  BY <1>5 DEF Cached
<1> QED BY <1>4, <1>6

LEMMA VisibleStep ==
    ASSUME IInv, IInv', [FullNext]_vars, NEW k \in Keys
    PROVE  (Visible(k) \subseteq Visible(k)') \/ ~(Cached \subseteq Cached')
<1>1. ASSUME NEW j \in Keys, NEW id \in Ids, NEW v \in Values, AppendRecord(j, id, v)
      PROVE  Visible(k) \subseteq Visible(k)'
  BY <1>1, VisibleAppend
<1>2. ASSUME NEW id \in Ids, NEW v \in Values, UpdateRecord(id, v)
      PROVE  Visible(k) \subseteq Visible(k)'
  BY <1>2, VisibleFrame DEF UpdateRecord, tables, links
<1>3. ASSUME NEW id \in Ids, DeleteRecordFromUuid(id)
      PROVE  ~(Cached \subseteq Cached')
  BY <1>3, CachedDelete
<1>4. ASSUME NEW j \in Keys, DeleteRecord(j)
      PROVE  ~(Cached \subseteq Cached')
  BY <1>4, CachedDeleteRecord
<1>5. CASE Reopen
  BY <1>5, VisibleFrame DEF Reopen, contents
<1>6. CASE UNCHANGED vars
  BY <1>6, VisibleFrame DEF vars
<1> QED BY <1>1, <1>2, <1>3, <1>4, <1>5, <1>6 DEF FullNext, Next

(* get_record answers every key with exactly the records of the bucket its  *)
(* probe ends at, so no record is ever returned under two keys, for every   *)
(* capacity, probe order and id hash.                                       *)
THEOREM RecordCacheLookupsDisjoint == FullSpec => []LookupsDisjoint
<1> QED
  BY AlwaysDisjoint, AlwaysIInv, PTL

(* A record that get_record returns goes on being returned until a call     *)
(* removes some record: no append_record, however its probe and its chain   *)
(* fall, no update_record and no reopened file ever hides one.              *)
THEOREM RecordCacheVisible == FullSpec => VisibleUntilRemoval
<1>1. ASSUME IInv, IInv', [FullNext]_vars
      PROVE  [\A k \in Keys : (Visible(k) \subseteq Visible(k)') \/ ~(Cached \subseteq Cached')]_vars
  BY <1>1, VisibleStep
<1> QED
  BY <1>1, AlwaysIInv, PTL DEF FullSpec, VisibleUntilRemoval
=============================================================================
