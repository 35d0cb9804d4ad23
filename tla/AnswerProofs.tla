---------------------------- MODULE AnswerProofs ----------------------------
(***************************************************************************)
(* The two kinds of answer Core gives, and the conversions they use.       *)
(*                                                                         *)
(* To the control plane: the properties of SyncRequests for any caches,    *)
(* requests and id hashes. Types and unique ids are one invariant: an id   *)
(* is appended only if no record has its id entry, and an update replaces  *)
(* the one it finds.                                                       *)
(*                                                                         *)
(* To a client: the length of a reply, for every buffer size, limit and    *)
(* sequence of records. The 32 bytes held in reserve pay for the MX        *)
(* preference that rr_size forgets, the OPT record and the TCP length.     *)
(*                                                                         *)
(* The conversions, for every text: a parameter of a request, the rdata of *)
(* a TXT record, a name on the wire and back, and the zone of a name. A    *)
(* loop over a text is a function that at a position takes a piece and     *)
(* goes on further behind: Loop says so, LoopExists that there is one, and *)
(* so that the recursive definition of it means what it says. What such    *)
(* functions compute is shown from the end of the text backwards: the last *)
(* position where a claim fails is one from which it holds further on, and *)
(* it holds there too.                                                     *)
(***************************************************************************)
EXTENDS SyncProperties, ResponseBuilder, ConversionsProperties, LinkedListProofs

ItemsOf(keys) == [id : Ids, key : keys, value : Values \ Oversized]

\* what each of the caches is
Store(store, keys) ==
    /\ store \subseteq ItemsOf(keys)
    /\ \A r, q \in store : r.id = q.id => r = q
    /\ IsFiniteSet(store) /\ Cardinality(store) <= MaxRecords

SyncInv ==
    Store(records, Keys) /\ Store(entries, EntryKeys) /\ reply \in {"0", "1", "400"}

-----------------------------------------------------------------------------
(* The caches' calls *)

LEMMA AddOne ==
    ASSUME NEW S, IsFiniteSet(S), NEW x
    PROVE  IsFiniteSet(S \cup {x}) /\ Cardinality(S \cup {x}) <= Cardinality(S) + 1
<1>1. Cardinality(S) \in Nat
  BY FS_CardinalityType
<1>2. /\ IsFiniteSet(S \cup {x})
      /\ Cardinality(S \cup {x}) = IF x \in S THEN Cardinality(S) ELSE Cardinality(S) + 1
  BY FS_AddElement
<1> QED
  BY <1>1, <1>2

LEMMA AppendKeepsStore ==
    ASSUME NEW keys, NEW store, Store(store, keys),
           NEW id \in Ids, NEW k \in keys, NEW v \in Values
    PROVE  Store(Appended(store, id, k, v), keys)
<1>1. CASE v \notin Oversized /\ HasRoom(store, id)
  <2>1. Item(id, k, v) \in ItemsOf(keys)
    BY <1>1 DEF Item, ItemsOf
  <2>2. \A r \in store : r.id # id
    BY <1>1 DEF HasRoom
  <2>3. Cardinality(store) \in Nat /\ Cardinality(store) < MaxRecords
    BY <1>1, FS_CardinalityType DEF HasRoom, Store
  <2>4. /\ IsFiniteSet(store \cup {Item(id, k, v)})
        /\ Cardinality(store \cup {Item(id, k, v)}) <= Cardinality(store) + 1
    BY AddOne DEF Store
  <2>5. Appended(store, id, k, v) = store \cup {Item(id, k, v)}
    BY <1>1 DEF Appended
  <2>6. Item(id, k, v).id = id
    BY DEF Item
  <2>. HIDE DEF Item
  <2>7. Cardinality(store \cup {Item(id, k, v)}) \in Nat
    BY <2>4, FS_CardinalityType
  <2> QED
    BY <2>1, <2>2, <2>3, <2>4, <2>5, <2>6, <2>7, SyncAssumption DEF Store, SyncAssumption
<1>2. CASE ~(v \notin Oversized /\ HasRoom(store, id))
  BY <1>2 DEF Appended
<1> QED
  BY <1>1, <1>2

LEMMA RemoveKeepsStore ==
    ASSUME NEW keys, NEW store, Store(store, keys), NEW gone
    PROVE  Store(store \ gone, keys)
<1>1. /\ IsFiniteSet(store \ gone)
      /\ Cardinality(store \ gone) <= Cardinality(store)
  BY FS_Subset, store \ gone \in SUBSET store DEF Store
<1>2. Cardinality(store) \in Nat /\ Cardinality(store \ gone) \in Nat
  BY <1>1, FS_CardinalityType DEF Store
<1> QED
  BY <1>1, <1>2, SyncAssumption DEF Store, SyncAssumption

LEMMA ReviseKeepsStore ==
    ASSUME Store(records, Keys), NEW id \in Ids, NEW v \in Values \ Oversized
    PROVE  Store(Revised(id, v), Keys)
<1> DEFINE After(r) == IF r.id = id THEN [r EXCEPT !.value = v] ELSE r
           revision == [r \in records |-> After(r)]
<1>1. \A r \in records : After(r) \in ItemsOf(Keys) /\ After(r).id = r.id
  BY DEF Store, ItemsOf
<1>2. Revised(id, v) = {After(r) : r \in records}
  BY DEF Revised
<1>3. revision \in Surjection(records, Revised(id, v))
  BY <1>2 DEF Surjection
<1> HIDE DEF After
<1>4. /\ IsFiniteSet(Revised(id, v))
      /\ Cardinality(Revised(id, v)) <= Cardinality(records)
  BY <1>3, FS_Surjection DEF Store
<1>5. Cardinality(records) \in Nat /\ Cardinality(Revised(id, v)) \in Nat
  BY <1>4, FS_CardinalityType DEF Store
<1>6. \A p, q \in Revised(id, v) : p.id = q.id => p = q
  BY <1>1, <1>2 DEF Store
<1>7. Revised(id, v) \subseteq ItemsOf(Keys)
  BY <1>1, <1>2
<1> QED
  BY <1>4, <1>5, <1>6, <1>7, SyncAssumption DEF Store, SyncAssumption

\* an entry update overwrites the one entry of the id
LEMMA OverwriteKeepsStore ==
    ASSUME Store(entries, EntryKeys), NEW id \in Ids, NEW k \in EntryKeys,
           NEW v \in Values \ Oversized, NEW g, InGroup(id, g) # {}
    PROVE  Store((entries \ InGroup(id, g)) \cup {Item(id, k, v)}, EntryKeys)
<1>1. PICK e \in entries : e.id = id /\ InGroup(id, g) = {e}
  BY DEF InGroup, WithId, Store
<1> DEFINE rest == entries \ {e}
<1>2. Item(id, k, v) \in ItemsOf(EntryKeys) /\ Item(id, k, v).id = id
  BY DEF Item, ItemsOf
<1>3. \A r \in rest : r.id # id
  BY <1>1 DEF Store
<1>4. /\ IsFiniteSet(rest) /\ Cardinality(rest) = Cardinality(entries) - 1
  BY <1>1, FS_RemoveElement DEF Store
<1>5. /\ IsFiniteSet(rest \cup {Item(id, k, v)})
      /\ Cardinality(rest \cup {Item(id, k, v)}) <= Cardinality(rest) + 1
  BY <1>4, AddOne
<1>6. Cardinality(entries) \in Nat /\ Cardinality(rest \cup {Item(id, k, v)}) \in Nat
  BY <1>5, FS_CardinalityType DEF Store
<1>7. Cardinality(rest \cup {Item(id, k, v)}) <= MaxRecords
  BY <1>4, <1>5, <1>6, SyncAssumption DEF Store, SyncAssumption
<1> HIDE DEF rest
<1>8. rest \subseteq entries
  BY DEF rest
<1>9. Store(rest \cup {Item(id, k, v)}, EntryKeys)
  BY <1>2, <1>3, <1>5, <1>7, <1>8 DEF Store
<1> QED
  BY <1>1, <1>9 DEF rest

-----------------------------------------------------------------------------
(* Requests *)

LEMMA RequestFields ==
    /\ \A r \in RecordRequest : /\ r.family = "record" /\ r.id \in Ids /\ r.key \in Keys
                                /\ r.value \in Values \cup {NoValue}
    /\ \A r \in EntryRequest : /\ r.family = "entry" /\ r.id \in Ids /\ r.key \in EntryKeys
                               /\ r.value \in Values \ Oversized
BY DEF RecordRequest, EntryRequest, Requests

LEMMA RecordRequestKeeps ==
    ASSUME SyncInv, NEW r \in RecordRequest, HandleRecord(r)
    PROVE  SyncInv'
<1>. r.id \in Ids /\ r.key \in Keys /\ r.value \in Values \cup {NoValue}
  BY RequestFields
<1>1. CASE RecordAdd(r)
  <2>1. Store(Appended(records, r.id, r.key, r.value), Keys)
    BY <1>1, AppendKeepsStore DEF SyncInv, RecordAdd
  <2> QED
    BY <1>1, <2>1 DEF SyncInv, RecordAdd, Answer, Store
<1>2. CASE RecordUpdate(r)
  <2>1. Store(records', Keys)
    <3>1. CASE CanRevise(r.id, r.value)
      BY <1>2, <3>1, ReviseKeepsStore DEF SyncInv, RecordUpdate, CanRevise
    <3>2. CASE ~CanRevise(r.id, r.value)
      <4>1. Store(Without(records, r.id), Keys)
        BY RemoveKeepsStore DEF SyncInv, Without
      <4>2. Store(Appended(Without(records, r.id), r.id, r.key, r.value), Keys)
        BY <1>2, <4>1, AppendKeepsStore DEF RecordUpdate
      <4> QED
        BY <1>2, <3>2, <4>2 DEF RecordUpdate
    <3> QED
      BY <3>1, <3>2
  <2> QED
    BY <1>2, <2>1 DEF SyncInv, RecordUpdate, Answer, Store
<1>3. CASE RecordDelete(r)
  <2>1. Store(Without(records, r.id), Keys)
    BY RemoveKeepsStore DEF SyncInv, Without
  <2> QED
    BY <1>3, <2>1 DEF SyncInv, RecordDelete, Answer, Store
<1>4. CASE RecordWithoutValue(r) \/ RecordRefused(r)
  BY <1>4 DEF SyncInv, RecordWithoutValue, RecordRefused, Answer, Store
<1> QED
  BY <1>1, <1>2, <1>3, <1>4 DEF HandleRecord

LEMMA EntryRequestKeeps ==
    ASSUME SyncInv, NEW r \in EntryRequest, HandleEntry(r)
    PROVE  SyncInv'
<1>. r.id \in Ids /\ r.key \in EntryKeys /\ r.value \in Values \ Oversized
  BY RequestFields
<1>. Store(Appended(entries, r.id, r.key, r.value), EntryKeys)
  BY AppendKeepsStore DEF SyncInv
<1>1. CASE EntryAdd(r)
  BY <1>1 DEF SyncInv, EntryAdd, Answer, Store
<1>2. CASE EntryUpdate(r)
  <2>1. Store(entries', EntryKeys)
    <3>1. CASE InGroup(r.id, r.key[1]) # {}
      BY <1>2, <3>1, OverwriteKeepsStore DEF SyncInv, EntryUpdate
    <3>2. CASE InGroup(r.id, r.key[1]) = {}
      BY <1>2, <3>2 DEF EntryUpdate
    <3> QED
      BY <3>1, <3>2
  <2> QED
    BY <1>2, <2>1 DEF SyncInv, EntryUpdate, Answer, Store
<1>3. CASE EntryDelete(r)
  <2>1. Store(entries \ InGroup(r.id, r.key[1]), EntryKeys)
    BY RemoveKeepsStore DEF SyncInv
  <2> QED
    BY <1>3, <2>1 DEF SyncInv, EntryDelete, Answer, Store
<1>4. CASE EntryNotFound(r) \/ EntryRefused(r)
  BY <1>4 DEF SyncInv, EntryNotFound, EntryRefused, Answer, Store
<1> QED
  BY <1>1, <1>2, <1>3, <1>4 DEF HandleEntry

LEMMA SyncInvariant == Spec => []SyncInv
<1>1. Init => SyncInv
  BY FS_EmptySet, SyncAssumption DEF Init, SyncInv, Store, SyncAssumption
<1>2. SyncInv /\ [Next]_vars => SyncInv'
  <2>1. CASE UNCHANGED vars
    BY <2>1 DEF vars, SyncInv, Store
  <2> QED
    BY <2>1, RecordRequestKeeps, EntryRequestKeeps DEF Next
<1> QED
  BY <1>1, <1>2, PTL DEF Spec

(* Each cache holds an id at most once, no value that does not fit and no  *)
(* more than it has slots, after any requests (Core.cpp:329-600).          *)
THEOREM SyncTypes == Spec => []TypeOK
<1>1. SyncInv => TypeOK
  BY DEF SyncInv, Store, ItemsOf, TypeOK
<1> QED
  BY <1>1, SyncInvariant, PTL

-----------------------------------------------------------------------------
(* Updates *)

LEMMA UpdateStep ==
    ASSUME SyncInv, NEW r \in RecordRequest, RecordUpdate(r)
    PROVE  \/ \E q \in WithId(records', r.id) : q.value = r.value
           \/ r.value \in Oversized
           \/ WithId(records, r.id) = {} /\ ~HasRoom(records, r.id)
<1>1. CASE CanRevise(r.id, r.value)
  <2>1. PICK q \in records : q.id = r.id
    BY <1>1 DEF CanRevise, WithId
  <2> DEFINE revised == [q EXCEPT !.value = r.value]
  <2>2. revised.id = r.id /\ revised.value = r.value
    BY <2>1 DEF SyncInv, Store, ItemsOf
  <2>3. revised \in records'
    BY <1>1, <2>1 DEF RecordUpdate, Revised
  <2> HIDE DEF revised
  <2> QED
    BY <2>2, <2>3 DEF WithId
<1>2. CASE ~CanRevise(r.id, r.value) /\ r.value \notin Oversized
  <2>1. WithId(records, r.id) = {} /\ Without(records, r.id) = records
    BY <1>2 DEF CanRevise, Without
  <2>2. HasRoom(records, r.id) => Item(r.id, r.key, r.value) \in records'
    BY <1>2, <2>1 DEF RecordUpdate, Appended
  <2> QED
    BY <2>1, <2>2 DEF WithId, Item
<1> QED
  BY <1>1, <1>2

(* An update of a record loses nothing but what does not fit              *)
(* (Core.cpp:421-489): it ends with the new contents cached, or its id was *)
(* not cached and found no room.                                           *)
THEOREM SyncUpdateLosesNothing == Spec => UpdateLosesNothing
<1> DEFINE Lossless ==
        request'.family = "record" /\ request'.op = "update" /\ reply' = "0" =>
            \/ \E r \in WithId(records', request'.id) : r.value = request'.value
            \/ request'.value \in Oversized
            \/ WithId(records, request'.id) = {} /\ ~HasRoom(records, request'.id)
<1>1. SyncInv /\ Next => Lossless
  <2>1. ASSUME SyncInv, NEW r \in RecordRequest, HandleRecord(r)
        PROVE  Lossless
    <3>1. CASE RecordUpdate(r)
      BY <2>1, <3>1, UpdateStep DEF RecordUpdate, Answer
    <3>2. CASE RecordAdd(r) \/ RecordDelete(r)
      BY <3>2 DEF RecordAdd, RecordDelete, Answer
    <3>3. CASE RecordWithoutValue(r) \/ RecordRefused(r)
      BY <3>3 DEF RecordWithoutValue, RecordRefused, Answer
    <3> QED
      BY <2>1, <3>1, <3>2, <3>3 DEF HandleRecord
  <2>2. ASSUME NEW r \in EntryRequest, HandleEntry(r)
        PROVE  request'.family = "entry"
    BY <2>2, RequestFields
    DEF HandleEntry, EntryAdd, EntryUpdate, EntryNotFound, EntryDelete, EntryRefused, Answer
  <2> QED
    BY <2>1, <2>2 DEF Next
<1> HIDE DEF Lossless
<1>2. SyncInv /\ [Next]_vars => [Lossless]_vars
  BY <1>1
<1>3. Spec => [][Lossless]_vars
  BY <1>2, SyncInvariant, PTL DEF Spec
<1> QED
  BY <1>3 DEF UpdateLosesNothing, Lossless

(* An update of an entry, in the group it is cached in, takes, whatever    *)
(* country the entry had before (Core.cpp:563-579).                        *)
THEOREM SyncEntryUpdateTakes == Spec => EntryUpdateTakes
<1> DEFINE Taken ==
        request'.family = "entry" /\ request'.op = "update" /\ reply' = "0" =>
            \/ Item(request'.id, request'.key, request'.value) \in entries'
            \/ InGroup(request'.id, request'.key[1]) = {} /\ ~HasRoom(entries, request'.id)
<1>1. Next => Taken
  <2>1. ASSUME NEW r \in EntryRequest, HandleEntry(r)
        PROVE  Taken
    <3>1. CASE EntryUpdate(r)
      BY <3>1, RequestFields DEF EntryUpdate, Answer, Appended
    <3>2. CASE EntryAdd(r) \/ EntryDelete(r)
      BY <3>2 DEF EntryAdd, EntryDelete, Answer
    <3>3. CASE EntryNotFound(r) \/ EntryRefused(r)
      BY <3>3 DEF EntryNotFound, EntryRefused, Answer
    <3> QED
      BY <2>1, <3>1, <3>2, <3>3 DEF HandleEntry
  <2>2. ASSUME NEW r \in RecordRequest, HandleRecord(r)
        PROVE  request'.family = "record"
    BY <2>2, RequestFields
    DEF HandleRecord, RecordAdd, RecordUpdate, RecordWithoutValue, RecordDelete,
        RecordRefused, Answer
  <2> QED
    BY <2>1, <2>2 DEF Next
<1> HIDE DEF Taken
<1>2. [Next]_vars => [Taken]_vars
  BY <1>1
<1>3. Spec => [][Taken]_vars
  BY <1>2, PTL DEF Spec
<1> QED
  BY <1>3 DEF EntryUpdateTakes, Taken

-----------------------------------------------------------------------------
(* The reply to a client *)

Bounded(top) == rlen <= top + IF sent THEN OptLen + LengthPrefix ELSE 0

\* before the OPT record an answer may pass the checked length by Preference
Room == Bounded(OutSize - Reserve + Preference)

Overshoot ==
    ~is_tcp /\ anc > 0 =>
        rlen <= udp_limit + Preference + IF sent THEN OptLen ELSE 0

BuilderInv == BuilderTypeOK /\ Room /\ Overshoot

USE DEF RRHeader, Preference, Reserve, OptLen, LengthPrefix, NOTIMP, FORMERR

LEMMA BuilderInitInv == BuilderInit => BuilderInv
<1> SUFFICES ASSUME BuilderInit PROVE BuilderInv
  OBVIOUS
<1>1. rlen \in 12 .. OutSize - Reserve /\ OutSize \in Nat /\ anc = 0 /\ sent = FALSE
  BY BuilderAssumption DEF BuilderInit
<1>2. rcode \in 0 .. 15
  <2>1. rcode \in {0, 1, 4, 5}
    BY DEF BuilderInit
  <2> QED
    BY <2>1
<1>3. rlen \in Nat /\ anc \in Nat
  BY <1>1
<1>4. /\ is_tcp \in BOOLEAN /\ udp_limit \in Limits /\ is_mx \in BOOLEAN
      /\ class_in \in BOOLEAN /\ one_question \in BOOLEAN
      /\ truncated \in BOOLEAN /\ sent \in BOOLEAN
  BY DEF BuilderInit
<1>5. BuilderTypeOK
  BY <1>2, <1>3, <1>4 DEF BuilderTypeOK
<1> QED
  BY <1>1, <1>5 DEF BuilderInv, Room, Bounded, Overshoot

LEMMA BuilderNextInv == BuilderInv /\ [BuilderNext]_builder_vars => BuilderInv'
<1> SUFFICES ASSUME BuilderInv, [BuilderNext]_builder_vars PROVE BuilderInv'
  OBVIOUS
<1> USE BuilderAssumption DEF BuilderInv, BuilderTypeOK, Room, Bounded, Overshoot
<1>1. ASSUME NEW size \in RdataSizes, AppendAnswer(size) PROVE BuilderInv'
  <2>1. size \in Nat
    OBVIOUS
  <2>2. /\ rlen' = rlen + Written(size) /\ Written(size) \in Nat
        /\ Written(size) <= RRSize(size) + Preference
    BY <1>1, <2>1 DEF AppendAnswer, Written, RRSize
  <2>3. BuilderTypeOK'
    BY <1>1, <2>2 DEF AppendAnswer, query
  <2>4. /\ RRSize(size) \in Nat
        /\ rlen + RRSize(size) <= OutSize - Reserve
        /\ ~is_tcp => rlen + RRSize(size) <= udp_limit
    BY <1>1, <2>1 DEF AppendAnswer, TooLong, RRSize
  <2>5. ~sent /\ sent' = sent /\ is_tcp' = is_tcp /\ udp_limit' = udp_limit
    BY <1>1 DEF AppendAnswer, Answering, query
  <2>6. Room'
    BY <2>2, <2>4, <2>5
  <2>7. Overshoot'
    BY <2>2, <2>4, <2>5
  <2> QED
    BY <2>3, <2>6, <2>7
<1>2. ASSUME NEW size \in RdataSizes, OmitAnswer(size) PROVE BuilderInv'
  BY <1>2 DEF OmitAnswer, query
<1>3. CASE Finish
  <2>1. /\ ~sent /\ sent' /\ UNCHANGED <<query, anc, truncated, rcode>>
        /\ rlen' = rlen + OptLen + (IF is_tcp THEN LengthPrefix ELSE 0)
    BY <1>3 DEF Finish
  <2> QED
    BY <2>1 DEF query
<1>4. CASE UNCHANGED builder_vars
  BY <1>4 DEF builder_vars
<1> QED
  BY <1>1, <1>2, <1>3, <1>4 DEF BuilderNext

LEMMA BuilderInvariance == BuilderSpec => []BuilderInv
<1>1. BuilderInit => BuilderInv
  BY BuilderInitInv
<1>2. BuilderInv /\ [BuilderNext]_builder_vars => BuilderInv'
  BY BuilderNextInv
<1> QED
  BY <1>1, <1>2, PTL DEF BuilderSpec

(* The header fields and lengths keep their types. *)
THEOREM BuilderTypes == BuilderSpec => []BuilderTypeOK
<1>1. BuilderInv => BuilderTypeOK
  BY DEF BuilderInv
<1> QED
  BY <1>1, BuilderInvariance, PTL

(* No reply passes the end of out. *)
THEOREM ReplyFitsBuffer == BuilderSpec => []NeverPastBuffer
<1>1. BuilderInv => NeverPastBuffer
  BY BuilderAssumption DEF BuilderInv, BuilderTypeOK, Room, Bounded, NeverPastBuffer
<1> QED
  BY <1>1, BuilderInvariance, PTL

(* A UDP reply passes the client's limit by at most 13 bytes. *)
THEOREM ReplyNearLimit == BuilderSpec => []UdpOvershoot
<1>1. ASSUME NEW l \in Limits PROVE l \in Nat
  BY BuilderAssumption
<1>2. BuilderInv => UdpOvershoot
  BY <1>1 DEF BuilderInv, BuilderTypeOK, Overshoot, UdpOvershoot
<1> QED
  BY <1>2, BuilderInvariance, PTL

(* The OPT record is appended behind the last answer, never over it. *)
THEOREM OptBehindAnswers == BuilderSpec => OptKeepsAnswers
<1>1. BuilderInv /\ [BuilderNext]_builder_vars =>
        [sent' # sent =>
            rlen' = rlen + OptLen + (IF is_tcp THEN LengthPrefix ELSE 0)]_builder_vars
  <2> SUFFICES ASSUME BuilderInv, BuilderNext, sent' # sent
               PROVE rlen' = rlen + OptLen + (IF is_tcp THEN LengthPrefix ELSE 0)
    BY DEF builder_vars
  <2>1. Finish
    BY DEF BuilderNext, AppendAnswer, OmitAnswer
  <2> QED
    BY <2>1, BuilderAssumption DEF Finish, BuilderInv, BuilderTypeOK, Room, Bounded
<1> QED
  BY <1>1, BuilderInvariance, PTL DEF BuilderSpec, OptKeepsAnswers

-----------------------------------------------------------------------------
(* The parameters of a Sync request *)

LEMMA LeastIs ==
    ASSUME NEW S \in SUBSET Nat, S # {}
    PROVE  Least(S) \in S /\ \A j \in S : Least(S) <= j
  BY SmallestOf DEF Least

LEMMA LeastIsThat ==
    ASSUME NEW S \in SUBSET Nat, NEW i \in S, \A j \in S : i <= j
    PROVE  Least(S) = i
<1>1. Least(S) \in S /\ \A j \in S : Least(S) <= j
  BY LeastIs
<1>2. Least(S) <= i /\ i <= Least(S) /\ i \in Nat /\ Least(S) \in Nat
  BY <1>1
<1> QED
  BY <1>2

LEMMA TextIsText == TextsSpec => [](text \in Seq(Bytes))
<1>1. TextsInit => text \in Seq(Bytes)
  BY DEF TextsInit
<1>2. text \in Seq(Bytes) /\ [TextsNext]_text => (text \in Seq(Bytes))'
  BY DEF TextsNext
<1> QED
  BY <1>1, <1>2, PTL DEF TextsSpec

\* Whatever the key, the text and the caller's buffer, a parameter is found
\* unless its name occurs before it, and a value that is no parameter's only
\* behind the end of a longer name (getParamFromCharBuffer).
THEOREM ParamsFound == TextsSpec => []ParamUnlessShadowed
<1>1. text \in Seq(Bytes) => ParamUnlessShadowed
  <2> SUFFICES ASSUME text \in Seq(Bytes) PROVE ParamUnlessShadowed
    OBVIOUS
  <2> DEFINE O == Occurrences(text)
             sign == Least(O) + Len(Key)
  <2>1. Len(Key) \in Nat \ {0} /\ Len(text) \in Nat
    BY ConversionsAssumption, EmptySeq, LenProperties
  <2>2. O \in SUBSET Nat /\ O \subseteq 1 .. Len(text)
    BY <2>1 DEF Occurrences
  <2>3. Params \in SUBSET Nat /\ Params \subseteq O
    BY <2>2 DEF Params
  <2>4. ASSUME Params # {}
        PROVE  \/ GetParam(text) = ValueAt(text, Least(Params) + Len(Key) + 1)
               \/ Least(O) < Least(Params)
    <3>1. Least(Params) \in Params
      BY <2>3, <2>4, LeastIs
    <3>2. Least(O) \in O /\ Least(O) <= Least(Params)
      BY <2>2, <2>3, <3>1, LeastIs
    <3>3. CASE Least(O) = Least(Params)
      <4>1. sign \in Int /\ sign <= Len(text) /\ text[sign] = Equals
        BY <2>1, <2>2, <3>1, <3>3 DEF Params
      <4>2. O # {} /\ ~(sign > Len(text))
        BY <2>1, <3>2, <4>1
      <4>3. GetParam(text) = ValueAt(text, sign + 1)
        BY <4>1, <4>2 DEF GetParam
      <4> QED
        BY <3>3, <4>3
    <3>4. Least(O) \in Nat /\ Least(Params) \in Nat
      BY <2>2, <2>3, <3>1, <3>2
    <3> QED
      BY <3>2, <3>3, <3>4
  <2>5. ASSUME Params = {}, GetParam(text) # NotFound
        PROVE  Least(O) > 1 /\ text[Least(O) - 1] # Ampersand
    <3>1. O # {} /\ ~(sign > Len(text)) /\ text[sign] = Equals
      BY <2>5 DEF GetParam
    <3>2. Least(O) \in O /\ Least(O) \in 1 .. Len(text)
      BY <2>2, <3>1, LeastIs
    <3>3. Least(O) \notin Params /\ sign <= Len(text)
      BY <2>1, <2>5, <3>1, <3>2
    <3> QED
      BY <3>1, <3>2, <3>3 DEF Params
  <2> QED
    BY <2>4, <2>5 DEF ParamUnlessShadowed
<1> QED
  BY <1>1, TextIsText, PTL

-----------------------------------------------------------------------------
(* Loops over a text *)

\* f[p] is what a loop puts together from p on that takes G[p] at p and goes
\* on at J[p]
Loop(f, N, G, J) ==
    f = [p \in 1 .. N |-> IF J[p] > N THEN G[p] ELSE G[p] \o f[J[p]]]

(* A function of a position that is defined from its value further on      *)
(* exists, so the recursive definitions mean what they say.                *)
LEMMA LoopExists ==
    ASSUME NEW N \in Nat, NEW D, NEW G \in [1 .. N -> Seq(D)], NEW J \in [1 .. N -> Int],
           \A p \in 1 .. N : p < J[p]
    PROVE  \E f : Loop(f, N, G, J)
<1> DEFINE From(f, a) ==
               /\ f \in [1 .. N -> Seq(D)]
               /\ \A p \in a .. N : f[p] = IF J[p] > N THEN G[p] ELSE G[p] \o f[J[p]]
           T == {a \in Nat : a <= N /\ ~ \E f : From(f, N - a + 1)}
<1>1. ASSUME T # {} PROVE FALSE
  <2>1. PICK a \in T : \A b \in T : a <= b
    BY <1>1, SmallestOf
  <2>2. CASE a = 0
    <3>1. From([p \in 1 .. N |-> <<>>], N + 1)
      OBVIOUS
    <3> QED
      BY <2>1, <2>2, <3>1
  <2>3. CASE a > 0
    <3>1. a \in Nat /\ a <= N /\ a - 1 \in Nat /\ a - 1 <= N /\ ~(a <= a - 1)
      BY <2>1, <2>3
    <3>2. a - 1 \notin T
      BY <2>1, <3>1
    <3>3. PICK f : From(f, N - (a - 1) + 1)
      BY <3>1, <3>2
    <3>4. PICK q : q = N - a + 1
      OBVIOUS
    <3>5. q \in 1 .. N /\ N - (a - 1) + 1 = q + 1 /\ q < J[q] /\ J[q] \in Int
      BY <2>3, <3>1, <3>4
    <3> DEFINE g == [f EXCEPT ![q] = IF J[q] > N THEN G[q] ELSE G[q] \o f[J[q]]]
    <3>6. (IF J[q] > N THEN G[q] ELSE G[q] \o f[J[q]]) \in Seq(D)
      <4>1. CASE J[q] > N
        BY <3>5, <4>1
      <4>2. CASE ~(J[q] > N)
        <5>1. J[q] \in 1 .. N
          BY <3>5, <4>2
        <5>2. G[q] \in Seq(D) /\ f[J[q]] \in Seq(D)
          BY <3>3, <3>5, <5>1
        <5> QED
          BY <4>2, <5>2, ConcatProperties
      <4> QED
        BY <4>1, <4>2
    <3>7. g \in [1 .. N -> Seq(D)]
      BY <3>3, <3>5, <3>6
    <3>8. ASSUME NEW p \in q .. N
          PROVE  g[p] = IF J[p] > N THEN G[p] ELSE G[p] \o g[J[p]]
      <4>1. p \in 1 .. N /\ p < J[p] /\ J[p] \in Int
        BY <3>5
      <4>2. J[p] # q
        BY <3>5, <4>1
      <4>3. ~(J[p] > N) => g[J[p]] = f[J[p]]
        BY <3>3, <4>1, <4>2
      <4>4. CASE p = q
        BY <3>3, <3>5, <4>3, <4>4
      <4>5. CASE p # q
        <5>1. p \in q + 1 .. N /\ g[p] = f[p]
          BY <3>3, <3>5, <4>1, <4>5
        <5>2. f[p] = IF J[p] > N THEN G[p] ELSE G[p] \o f[J[p]]
          BY <3>3, <3>5, <5>1
        <5> QED
          BY <4>3, <5>1, <5>2
      <4> QED
        BY <4>4, <4>5
    <3> HIDE DEF g
    <3>9. From(g, q)
      BY <3>7, <3>8
    <3> QED
      BY <2>1, <3>4, <3>9
  <2> QED
    BY <2>1, <2>2, <2>3
<1>2. N \notin T /\ N <= N /\ N - N + 1 = 1
  <2>1. N \notin T
    BY <1>1
  <2> QED
    BY <2>1
<1>3. PICK f : From(f, N - N + 1)
  BY <1>2
<1>4. Loop(f, N, G, J)
  BY <1>2, <1>3 DEF Loop
<1> QED
  BY <1>4

LEMMA LoopTyped ==
    ASSUME NEW N \in Nat, NEW D, NEW G \in [1 .. N -> Seq(D)], NEW J \in [1 .. N -> Int],
           \A p \in 1 .. N : p < J[p],
           NEW f, Loop(f, N, G, J)
    PROVE  f \in [1 .. N -> Seq(D)]
<1>1. \A p \in 1 .. N : f[p] = IF J[p] > N THEN G[p] ELSE G[p] \o f[J[p]]
  BY DEF Loop
<1> DEFINE T == {a \in Nat : a < N /\ f[N - a] \notin Seq(D)}
<1>2. ASSUME T # {} PROVE FALSE
  <2>1. PICK a \in T : \A b \in T : a <= b
    BY <1>2, SmallestOf
  <2>2. PICK q \in 1 .. N : q = N - a
    BY <2>1
  <2>3. CASE J[q] > N
    BY <1>1, <2>1, <2>2, <2>3
  <2>4. CASE ~(J[q] > N)
    <3>1. J[q] \in 1 .. N /\ N - J[q] \in Nat /\ N - J[q] < a /\ N - J[q] < N
      BY <2>1, <2>2, <2>4
    <3>2. PICK j \in 1 .. N, b \in Nat : j = J[q] /\ b = N - j /\ b < a /\ b < N /\ j = N - b
      BY <3>1
    <3>3. b \notin T
      <4>1. a \in Nat
        BY <2>1
      <4> HIDE DEF T
      <4> QED
        BY <2>1, <3>2, <4>1
    <3>4. f[j] \in Seq(D)
      BY <3>2, <3>3
    <3>5. f[q] = G[q] \o f[j]
      BY <1>1, <2>4, <3>2
    <3>6. G[q] \o f[j] \in Seq(D)
      <4>1. G[q] \in Seq(D)
        OBVIOUS
      <4> QED
        BY ONLY <3>4, <4>1, ConcatProperties
    <3> QED
      BY <2>1, <2>2, <3>5, <3>6
  <2> QED
    BY <2>3, <2>4
<1>3. ASSUME NEW p \in 1 .. N PROVE f[p] \in Seq(D)
  <2>1. N - p \in Nat /\ N - p < N /\ N - (N - p) = p
    OBVIOUS
  <2>2. N - p \notin T
    BY <1>2
  <2> QED
    BY <2>1, <2>2
<1> QED
  BY <1>3 DEF Loop

-----------------------------------------------------------------------------
(* TXT rdata *)

Byte == 0 .. 255

ChunkLen(txt, pos) == AtMost(MaxChunk, Len(txt) - pos + 1)

IsChunks(f, txt) ==
    f = [pos \in 1 .. Len(txt) + 1 |->
            IF ChunkLen(txt, pos) = 0 THEN <<>>
            ELSE <<ChunkLen(txt, pos)>> \o SubSeq(txt, pos, pos + ChunkLen(txt, pos) - 1)
                     \o f[pos + ChunkLen(txt, pos)]]

LEMMA PieceOf ==
    ASSUME NEW D, NEW s \in Seq(D), NEW a \in 1 .. Len(s) + 1, NEW b \in a - 1 .. Len(s)
    PROVE  /\ SubSeq(s, a, b) \in Seq(D)
           /\ Len(SubSeq(s, a, b)) = b - a + 1
           /\ \A i \in 1 .. b - a + 1 : SubSeq(s, a, b)[i] = s[a + i - 1]
<1>1. Len(s) \in Nat
  BY LenProperties
<1>2. a \in Int /\ b \in Int /\ a <= b + 1 /\ \A i \in a .. b : i \in 1 .. Len(s)
  BY <1>1
<1>3. \A i \in a .. b : s[i] \in D
  BY <1>2, ElementOfSeq
<1>4. (IF a <= b THEN b - a + 1 ELSE 0) = b - a + 1
  BY <1>2
<1> QED
  BY <1>2, <1>3, <1>4, SubSeqProperties

LEMMA ChunkLenIs ==
    ASSUME NEW txt \in Seq(Byte), NEW p \in 1 .. Len(txt)
    PROVE  /\ ChunkLen(txt, p) \in Byte \ {0}
           /\ ChunkLen(txt, p) <= MaxChunk
           /\ p + ChunkLen(txt, p) \in p + 1 .. Len(txt) + 1
           /\ p + ChunkLen(txt, p) # Len(txt) + 1 => ChunkLen(txt, p) = MaxChunk
<1>1. PICK m \in Nat, c \in 1 .. 255 : m = Len(txt) /\ c = MaxChunk
  BY LenProperties, ConversionsAssumption
<1>2. p \in 1 .. m
  BY <1>1
<1>3. ChunkLen(txt, p) = IF c < m - p + 1 THEN c ELSE m - p + 1
  BY <1>1 DEF ChunkLen, AtMost
<1>4. PICK n : n = IF c < m - p + 1 THEN c ELSE m - p + 1
  OBVIOUS
<1>5. /\ n \in 0 .. 255 /\ n # 0 /\ n <= c /\ p + n \in p + 1 .. m + 1
      /\ p + n # m + 1 => n = c
  <2>1. CASE c < m - p + 1
    BY <1>2, <1>4, <2>1
  <2>2. CASE ~(c < m - p + 1)
    BY <1>2, <1>4, <2>2
  <2> QED
    BY <2>1, <2>2
<1> QED
  BY <1>1, <1>3, <1>4, <1>5 DEF Byte

LEMMA ChunksLoop ==
    ASSUME NEW txt \in Seq(Byte)
    PROVE  /\ Chunks(txt) \in [1 .. Len(txt) + 1 -> Seq(Byte)]
           /\ IsChunks(Chunks(txt), txt)
<1>1. PICK N \in Nat : N = Len(txt) + 1
  BY LenProperties
<1>2. PICK G : G = [p \in 1 .. N |->
          IF p = N THEN <<>>
          ELSE <<ChunkLen(txt, p)>> \o SubSeq(txt, p, p + ChunkLen(txt, p) - 1)]
  OBVIOUS
<1>3. PICK J : J = [p \in 1 .. N |-> IF p = N THEN N + 1 ELSE p + ChunkLen(txt, p)]
  OBVIOUS
<1>4. G \in [1 .. N -> Seq(Byte)]
  <2> SUFFICES ASSUME NEW p \in 1 .. N, p # N
               PROVE  <<ChunkLen(txt, p)>> \o SubSeq(txt, p, p + ChunkLen(txt, p) - 1) \in Seq(Byte)
    BY <1>2
  <2>1. p \in 1 .. Len(txt) /\ Len(txt) \in Nat
    BY <1>1, LenProperties
  <2>2. PICK n \in Byte : n = ChunkLen(txt, p) /\ n # 0 /\ p + n \in p + 1 .. Len(txt) + 1
    BY <2>1, ChunkLenIs
  <2>3. p \in 1 .. Len(txt) + 1 /\ p + n - 1 \in p - 1 .. Len(txt)
    BY <2>1, <2>2 DEF Byte
  <2>4. <<n>> \in Seq(Byte) /\ SubSeq(txt, p, p + n - 1) \in Seq(Byte)
    BY <2>3, PieceOf
  <2> QED
    BY <2>2, <2>4, ConcatProperties
<1>5. J \in [1 .. N -> Int] /\ \A p \in 1 .. N : p < J[p]
  <2> SUFFICES ASSUME NEW p \in 1 .. N
               PROVE  J[p] \in Int /\ p < J[p]
    BY <1>3
  <2>1. CASE p = N
    BY <1>3, <2>1
  <2>2. CASE p # N
    <3>1. p \in 1 .. Len(txt) /\ Len(txt) \in Nat
      BY <1>1, <2>2, LenProperties
    <3> QED
      BY <1>3, <2>2, <3>1, ChunkLenIs
  <2> QED
    BY <2>1, <2>2
<1>6. ASSUME NEW f, NEW p \in 1 .. N
      PROVE  (IF J[p] > N THEN G[p] ELSE G[p] \o f[J[p]])
               = IF ChunkLen(txt, p) = 0 THEN <<>>
                 ELSE <<ChunkLen(txt, p)>> \o SubSeq(txt, p, p + ChunkLen(txt, p) - 1)
                          \o f[p + ChunkLen(txt, p)]
  <2>1. CASE p = N
    <3>1. J[p] > N /\ G[p] = <<>>
      BY <1>2, <1>3, <2>1
    <3>2. Len(txt) \in Nat /\ Len(txt) - p + 1 = 0
      BY <1>1, <2>1, LenProperties
    <3>3. ChunkLen(txt, p) = 0
      BY <3>2, ConversionsAssumption DEF ChunkLen, AtMost
    <3> QED
      BY <3>1, <3>3
  <2>2. CASE p # N
    <3>1. p \in 1 .. Len(txt) /\ Len(txt) \in Nat
      BY <1>1, <2>2, LenProperties
    <3>2. PICK n : n = ChunkLen(txt, p)
      OBVIOUS
    <3>3. n \in Nat /\ n # 0 /\ p + n <= N
      <4>1. n \in Byte \ {0} /\ p + n \in p + 1 .. Len(txt) + 1
        BY <3>1, <3>2, ChunkLenIs
      <4> QED
        BY <1>1, <3>1, <4>1 DEF Byte
    <3>4. J[p] = p + n /\ G[p] = <<n>> \o SubSeq(txt, p, p + n - 1)
      BY <1>2, <1>3, <2>2, <3>2
    <3>5. ~(J[p] > N)
      BY <3>3, <3>4
    <3> QED
      BY <3>2, <3>3, <3>4, <3>5
  <2> QED
    BY <2>1, <2>2
<1>7. \A f : Loop(f, N, G, J) <=> IsChunks(f, txt)
  <2> SUFFICES ASSUME NEW f
               PROVE  Loop(f, N, G, J) <=> IsChunks(f, txt)
    OBVIOUS
  <2>1. [p \in 1 .. N |-> IF J[p] > N THEN G[p] ELSE G[p] \o f[J[p]]]
          = [p \in 1 .. N |->
                IF ChunkLen(txt, p) = 0 THEN <<>>
                ELSE <<ChunkLen(txt, p)>> \o SubSeq(txt, p, p + ChunkLen(txt, p) - 1)
                         \o f[p + ChunkLen(txt, p)]]
    BY <1>6
  <2> QED
    BY <1>1, <2>1 DEF Loop, IsChunks
<1>8. PICK f : Loop(f, N, G, J)
  BY <1>4, <1>5, LoopExists
<1>9. Chunks(txt) = CHOOSE g : IsChunks(g, txt)
  BY DEF Chunks, IsChunks, ChunkLen
<1>10. IsChunks(Chunks(txt), txt)
  BY <1>7, <1>8, <1>9
<1>11. Chunks(txt) \in [1 .. N -> Seq(Byte)]
  BY <1>4, <1>5, <1>7, <1>10, LoopTyped
<1> QED
  BY <1>1, <1>10, <1>11

IsStrings(f, wire) ==
    f = [i \in 1 .. Len(wire) + 1 |->
            IF i > Len(wire) \/ i + wire[i] > Len(wire) THEN <<>>
            ELSE <<SubSeq(wire, i + 1, i + wire[i])>> \o f[i + wire[i] + 1]]

LEMMA ByteIsNat == \A b \in Byte : b \in Nat
  BY DEF Byte

LEMMA StringsLoop ==
    ASSUME NEW wire \in Seq(Byte)
    PROVE  /\ Strings(wire) \in [1 .. Len(wire) + 1 -> Seq(Seq(Byte))]
           /\ IsStrings(Strings(wire), wire)
<1>1. PICK N \in Nat : N = Len(wire) + 1
  BY LenProperties
<1> DEFINE Over(i) == i > Len(wire) \/ i + wire[i] > Len(wire)
<1>2. PICK G : G = [i \in 1 .. N |->
          IF Over(i) THEN <<>> ELSE <<SubSeq(wire, i + 1, i + wire[i])>>]
  OBVIOUS
<1>3. PICK J : J = [i \in 1 .. N |-> IF Over(i) THEN N + 1 ELSE i + wire[i] + 1]
  OBVIOUS
<1>4. ASSUME NEW i \in 1 .. N, ~Over(i)
      PROVE  /\ i \in 1 .. Len(wire) /\ wire[i] \in Byte
             /\ i + wire[i] + 1 \in i + 1 .. N
             /\ SubSeq(wire, i + 1, i + wire[i]) \in Seq(Byte)
  <2>1. Len(wire) \in Nat /\ i \in 1 .. Len(wire)
    BY <1>1, <1>4, LenProperties
  <2>2. wire[i] \in Byte
    BY <2>1, ElementOfSeq
  <2>3. wire[i] \in Nat
    BY <2>2, ByteIsNat
  <2>4. PICK m \in Nat, w \in Nat : m = Len(wire) /\ w = wire[i]
    BY ONLY <2>1, <2>3
  <2>5. ~(i + wire[i] > Len(wire))
    BY <1>4
  <2>6. ~(i + w > m)
    BY <2>4, <2>5
  <2>7. i \in 1 .. m /\ i + w <= m /\ N = m + 1
    BY <1>1, <2>1, <2>4, <2>6
  <2>8. i + 1 \in 1 .. m + 1 /\ i + w \in (i + 1) - 1 .. m /\ i + w + 1 \in i + 1 .. N
    BY <2>7
  <2>9. SubSeq(wire, i + 1, i + w) \in Seq(Byte)
    BY <2>4, <2>8, PieceOf
  <2> QED
    BY <2>1, <2>2, <2>4, <2>8, <2>9
<1>5. G \in [1 .. N -> Seq(Seq(Byte))]
  <2> SUFFICES ASSUME NEW i \in 1 .. N PROVE G[i] \in Seq(Seq(Byte))
    BY <1>2
  <2>1. CASE Over(i)
    BY <1>2, <2>1
  <2>2. CASE ~Over(i)
    BY <1>2, <1>4, <2>2
  <2> QED
    BY <2>1, <2>2
<1>6. J \in [1 .. N -> Int] /\ \A i \in 1 .. N : i < J[i]
  <2> SUFFICES ASSUME NEW i \in 1 .. N PROVE J[i] \in Int /\ i < J[i]
    BY <1>3
  <2>1. CASE Over(i)
    BY <1>3, <2>1
  <2>2. CASE ~Over(i)
    BY <1>3, <1>4, <2>2
  <2> QED
    BY <2>1, <2>2
<1>7. ASSUME NEW f, NEW i \in 1 .. N
      PROVE  (IF J[i] > N THEN G[i] ELSE G[i] \o f[J[i]])
               = IF Over(i) THEN <<>>
                 ELSE <<SubSeq(wire, i + 1, i + wire[i])>> \o f[i + wire[i] + 1]
  <2>1. CASE Over(i)
    <3>1. J[i] = N + 1 /\ G[i] = <<>>
      BY <1>2, <1>3, <2>1
    <3> QED
      BY <2>1, <3>1
  <2>2. CASE ~Over(i)
    <3>1. J[i] = i + wire[i] + 1 /\ G[i] = <<SubSeq(wire, i + 1, i + wire[i])>>
      BY <1>2, <1>3, <2>2
    <3>2. ~(J[i] > N)
      BY <1>4, <2>2, <3>1
    <3> HIDE DEF Over
    <3> QED
      BY <2>2, <3>1, <3>2
  <2> QED
    BY <2>1, <2>2
<1>8. \A f : Loop(f, N, G, J) <=> IsStrings(f, wire)
  <2> SUFFICES ASSUME NEW f PROVE Loop(f, N, G, J) <=> IsStrings(f, wire)
    OBVIOUS
  <2>1. [i \in 1 .. N |-> IF J[i] > N THEN G[i] ELSE G[i] \o f[J[i]]]
          = [i \in 1 .. N |->
                IF Over(i) THEN <<>>
                ELSE <<SubSeq(wire, i + 1, i + wire[i])>> \o f[i + wire[i] + 1]]
    <3> HIDE DEF Over
    <3> QED
      BY <1>7
  <2> QED
    BY <1>1, <2>1 DEF Loop, IsStrings
<1>9. PICK f : Loop(f, N, G, J)
  BY <1>5, <1>6, LoopExists
<1>10. Strings(wire) = CHOOSE g : IsStrings(g, wire)
  BY DEF Strings, IsStrings
<1>11. IsStrings(Strings(wire), wire)
  BY <1>8, <1>9, <1>10
<1>12. Strings(wire) \in [1 .. N -> Seq(Seq(Byte))]
  BY <1>5, <1>6, <1>8, <1>11, LoopTyped
<1> QED
  BY <1>1, <1>11, <1>12

\* wire ends with s, which begins at q
Follows(wire, q, s) ==
    /\ q \in Nat \ {0} /\ Len(wire) = q - 1 + Len(s)
    /\ \A j \in 1 .. Len(s) : wire[q - 1 + j] = s[j]

\* from q on wire holds a count, as many bytes c, and then r
Begins(wire, q, c, r) ==
    /\ wire \in Seq(Byte) /\ c \in Seq(Byte) /\ Len(c) \in Byte /\ r \in Seq(Byte)
    /\ Follows(wire, q, <<Len(c)>> \o c \o r)

LEMMA FollowsBehind ==
    ASSUME NEW wire, NEW q, NEW c, NEW r, Begins(wire, q, c, r)
    PROVE  /\ q \in 1 .. Len(wire) /\ wire[q] = Len(c) /\ q + Len(c) <= Len(wire)
           /\ SubSeq(wire, q + 1, q + Len(c)) = c
           /\ Follows(wire, q + Len(c) + 1, r)
<1>1. PICK n \in Byte : n = Len(c)
  BY DEF Begins
<1>2. wire \in Seq(Byte) /\ c \in Seq(Byte) /\ r \in Seq(Byte)
  BY DEF Begins
<1> DEFINE h == <<n>> \o c
<1>3. n \in Nat /\ Len(r) \in Nat /\ Len(wire) \in Nat
  BY <1>2, LenProperties DEF Byte
<1>4. <<n>> \in Seq(Byte) /\ Len(<<n>>) = 1 /\ <<n>>[1] = n
  OBVIOUS
<1>5. /\ h \in Seq(Byte) /\ Len(h) = n + 1
      /\ \A i \in 1 .. n + 1 : h[i] = IF i <= 1 THEN n ELSE c[i - 1]
  <2>1. /\ h \in Seq(Byte) /\ Len(h) = 1 + n
        /\ \A i \in 1 .. 1 + n : h[i] = IF i <= 1 THEN <<n>>[i] ELSE c[i - 1]
    BY <1>1, <1>4, <1>2, ConcatProperties
  <2> HIDE DEF h
  <2> QED
    BY <1>3, <1>4, <2>1
<1> HIDE DEF h
<1>6. PICK s : s = <<n>> \o c \o r
  OBVIOUS
<1>7. s = h \o r
  BY <1>6 DEF h
<1>8. /\ s \in Seq(Byte) /\ Len(s) = n + 1 + Len(r)
      /\ \A i \in 1 .. n + 1 + Len(r) : s[i] = IF i <= n + 1 THEN h[i] ELSE r[i - (n + 1)]
  <2>1. /\ s \in Seq(Byte) /\ Len(s) = Len(h) + Len(r)
        /\ \A i \in 1 .. Len(h) + Len(r) : s[i] = IF i <= Len(h) THEN h[i] ELSE r[i - Len(h)]
    BY <1>5, <1>7, <1>2, ConcatProperties
  <2> QED
    BY <1>5, <2>1
<1>9. /\ q \in Nat \ {0} /\ Len(wire) = q + n + Len(r)
      /\ \A j \in 1 .. n + 1 + Len(r) : wire[q - 1 + j] = s[j]
  BY <1>1, <1>3, <1>6, <1>8 DEF Begins, Follows
<1>10. q \in 1 .. Len(wire) /\ q + n <= Len(wire)
  BY <1>3, <1>9
<1>11. wire[q] = n
  <2>1. 1 \in 1 .. n + 1 + Len(r) /\ 1 \in 1 .. n + 1 /\ q - 1 + 1 = q
    BY <1>3, <1>9
  <2> QED
    BY <1>5, <1>8, <1>9, <2>1
<1>12. SubSeq(wire, q + 1, q + n) = c
  <2>1. PICK t : t = SubSeq(wire, q + 1, q + n)
    OBVIOUS
  <2>2. q + 1 \in 1 .. Len(wire) + 1 /\ q + n \in (q + 1) - 1 .. Len(wire)
    BY <1>3, <1>9, <1>10
  <2>3. /\ t \in Seq(Byte) /\ Len(t) = (q + n) - (q + 1) + 1
        /\ \A i \in 1 .. (q + n) - (q + 1) + 1 : t[i] = wire[q + 1 + i - 1]
    BY <1>2, <2>1, <2>2, PieceOf
  <2>4. (q + n) - (q + 1) + 1 = n
    BY <1>3, <1>9
  <2>5. ASSUME NEW i \in 1 .. n PROVE t[i] = c[i]
    <3>1. /\ i + 1 \in 1 .. n + 1 + Len(r) /\ i + 1 \in 1 .. n + 1 /\ ~(i + 1 <= 1)
          /\ q - 1 + (i + 1) = q + 1 + i - 1 /\ (i + 1) - 1 = i
      BY <1>3, <1>9
    <3> QED
      <4>1. t[i] = wire[q - 1 + (i + 1)]
        BY <2>3, <2>4, <3>1
      <4>2. wire[q - 1 + (i + 1)] = s[i + 1] /\ s[i + 1] = h[i + 1]
        BY <1>8, <1>9, <3>1
      <4>3. h[i + 1] = c[i]
        BY <1>5, <3>1
      <4> QED
        BY <4>1, <4>2, <4>3
  <2>6. Len(t) = Len(c)
    BY <1>1, <2>3, <2>4
  <2>7. \A i \in 1 .. Len(t) : t[i] = c[i]
    BY <2>3, <2>4, <2>5
  <2>8. t = c
    BY <1>2, <2>3, <2>6, <2>7, SeqEqual
  <2> QED
    BY <2>1, <2>8
<1>13. Follows(wire, q + n + 1, r)
  <2>1. ASSUME NEW j \in 1 .. Len(r) PROVE wire[q + n + 1 - 1 + j] = r[j]
    <3>1. /\ n + 1 + j \in 1 .. n + 1 + Len(r) /\ ~(n + 1 + j <= n + 1)
          /\ (n + 1 + j) - (n + 1) = j /\ q - 1 + (n + 1 + j) = q + n + 1 - 1 + j
      BY <1>3, <1>9
    <3> QED
      BY <1>8, <1>9, <3>1
  <2> QED
    <3>1. PICK k : k = q + n + 1
      OBVIOUS
    <3>2. k \in Nat \ {0} /\ Len(wire) = k - 1 + Len(r)
      BY <1>3, <1>9, <3>1
    <3>3. \A j \in 1 .. Len(r) : wire[k - 1 + j] = r[j]
      BY <1>3, <1>9, <2>1, <3>1
    <3>4. Follows(wire, k, r)
      BY <3>2, <3>3 DEF Follows
    <3> QED
      BY <3>1, <3>4
<1> QED
  BY <1>1, <1>10, <1>11, <1>12, <1>13

\* parts hold txt from p on, MaxChunk bytes each and the last one the rest
Holds(parts, txt, p) ==
    /\ parts # <<>>
    /\ \A i \in 1 .. Len(parts) :
           parts[i] = SubSeq(txt, p + (i - 1) * MaxChunk,
                             AtMost(p + i * MaxChunk - 1, Len(txt)))
    /\ p + (Len(parts) - 1) * MaxChunk <= Len(txt)
    /\ Len(txt) < p + Len(parts) * MaxChunk

LEMMA HoldsLast ==
    ASSUME NEW txt \in Seq(Byte), NEW p \in 1 .. Len(txt), Len(txt) < p + MaxChunk
    PROVE  Holds(<<SubSeq(txt, p, Len(txt))>>, txt, p)
<1> DEFINE s == SubSeq(txt, p, Len(txt))
<1>1. PICK m \in Nat, c \in 1 .. 255 : m = Len(txt) /\ c = MaxChunk
  BY LenProperties, ConversionsAssumption
<1>2. Len(<<s>>) = 1 /\ <<s>>[1] = s /\ <<s>> # <<>>
  OBVIOUS
<1>3. p + (1 - 1) * c = p /\ p + 1 * c - 1 = p + c - 1 /\ p + 1 * c = p + c
  BY <1>1
<1>4. m < p + c /\ p <= m /\ ~(p + c - 1 < m)
  BY <1>1
<1>5. AtMost(p + c - 1, m) = m
  BY <1>4 DEF AtMost
<1>6. \A i \in 1 .. 1 : i = 1
  OBVIOUS
<1> HIDE DEF s
<1>7. \A i \in 1 .. 1 : <<s>>[i] = SubSeq(txt, p + (i - 1) * c, AtMost(p + i * c - 1, m))
  BY <1>1, <1>2, <1>3, <1>5, <1>6 DEF s
<1> QED
  BY <1>1, <1>2, <1>3, <1>4, <1>7 DEF Holds, s

LEMMA HoldsMore ==
    ASSUME NEW txt \in Seq(Byte), NEW p \in 1 .. Len(txt), p + MaxChunk <= Len(txt),
           NEW parts \in Seq(Seq(Byte)), Holds(parts, txt, p + MaxChunk)
    PROVE  Holds(<<SubSeq(txt, p, p + MaxChunk - 1)>> \o parts, txt, p)
<1> DEFINE s == SubSeq(txt, p, p + MaxChunk - 1)
<1>1. PICK m \in Nat, c \in 1 .. 255, n \in Nat : m = Len(txt) /\ c = MaxChunk /\ n = Len(parts)
  BY LenProperties, ConversionsAssumption
<1>2. s \in Seq(Byte)
  <2>1. p \in 1 .. m + 1 /\ p + c - 1 \in p - 1 .. m
    BY <1>1
  <2> QED
    BY <1>1, <2>1, PieceOf
<1> HIDE DEF s
<1>3. PICK all : all = <<s>> \o parts
  OBVIOUS
<1>4. /\ all \in Seq(Seq(Byte)) /\ Len(all) = n + 1
      /\ \A i \in 1 .. n + 1 : all[i] = IF i <= 1 THEN s ELSE parts[i - 1]
  <2>1. <<s>> \in Seq(Seq(Byte)) /\ Len(<<s>>) = 1 /\ <<s>>[1] = s
    BY <1>2
  <2>2. /\ all \in Seq(Seq(Byte)) /\ Len(all) = 1 + n
        /\ \A i \in 1 .. 1 + n : all[i] = IF i <= 1 THEN <<s>>[i] ELSE parts[i - 1]
    BY <1>1, <1>3, <2>1, ConcatProperties
  <2> QED
    BY <1>1, <2>1, <2>2
<1>5. \A i \in Int : (i - 1) * c + c = i * c
  <2> TAKE i \in Int
  <2> QED
    BY <1>1
<1>6. \A i \in Int : i * c \in Int
  <2>1. c \in Int
    BY <1>1
  <2> QED
    BY <2>1
<1>7. ASSUME NEW i \in 1 .. n + 1
      PROVE  all[i] = SubSeq(txt, p + (i - 1) * c, AtMost(p + i * c - 1, m))
  <2>1. CASE i = 1
    <3>1. (i - 1) * c = 0 /\ i * c = c
      BY <1>1, <2>1
    <3>2. p + c - 1 < m /\ p + 0 = p
      BY <1>1
    <3>3. AtMost(p + c - 1, m) = p + c - 1
      BY <3>2 DEF AtMost
    <3>4. p + (i - 1) * c = p /\ p + i * c - 1 = p + c - 1
      BY <1>1, <3>1, <3>2
    <3>5. i <= 1
      BY <2>1
    <3>6. all[i] = s
      BY <1>4, <3>5
    <3>7. s = SubSeq(txt, p, p + c - 1)
      BY <1>1 DEF s
    <3> QED
      BY <3>3, <3>4, <3>6, <3>7
  <2>2. CASE i # 1
    <3>1. i - 1 \in 1 .. n /\ ~(i <= 1)
      BY <1>1, <2>2
    <3>2. all[i] = parts[i - 1]
      BY <1>4, <3>1
    <3>3. parts[i - 1] = SubSeq(txt, p + c + (i - 1 - 1) * c, AtMost(p + c + (i - 1) * c - 1, m))
      BY <1>1, <3>1 DEF Holds
    <3>4. i - 1 \in Int /\ i \in Int
      BY <3>1
    <3>5. (i - 1 - 1) * c + c = (i - 1) * c /\ (i - 1) * c + c = i * c
      BY <1>5, <3>4
    <3>6. (i - 1 - 1) * c \in Int /\ (i - 1) * c \in Int
      BY <1>6, <3>4
    <3>7. /\ p + c + (i - 1 - 1) * c = p + (i - 1) * c
          /\ p + c + (i - 1) * c - 1 = p + i * c - 1
      BY <1>1, <3>5, <3>6
    <3> QED
      BY <3>2, <3>3, <3>7
  <2> QED
    BY <2>1, <2>2
<1>8. p + n * c <= m /\ m < p + (n + 1) * c
  <2>1. p + c + (n - 1) * c <= m /\ m < p + c + n * c
    BY <1>1 DEF Holds
  <2>2. (n - 1) * c + c = n * c /\ n * c + c = (n + 1) * c
    BY <1>1, <1>5
  <2>3. (n - 1) * c \in Int /\ n * c \in Int
    BY <1>1, <1>6
  <2> QED
    BY <1>1, <2>1, <2>2, <2>3
<1>9. all # <<>> /\ Len(all) - 1 = n
  BY <1>1, <1>4
<1>10. Holds(all, txt, p)
  BY <1>1, <1>4, <1>7, <1>8, <1>9 DEF Holds
<1> QED
  BY <1>3, <1>10 DEF s

(* Read back from where they begin, the strings from p on hold the text.   *)
LEMMA ChunksRead ==
    ASSUME NEW txt \in Seq(Byte), NEW wire \in Seq(Byte)
    PROVE  \A p \in 1 .. Len(txt) : \A q : Follows(wire, q, Chunks(txt)[p]) =>
             /\ Holds(Strings(wire)[q], txt, p)
             /\ Len(Chunks(txt)[p]) = Len(txt) - p + 1 + Len(Strings(wire)[q])
<1> DEFINE Read(p, q) ==
               /\ Holds(Strings(wire)[q], txt, p)
               /\ Len(Chunks(txt)[p]) = Len(txt) - p + 1 + Len(Strings(wire)[q])
           Claim(p) == \A q : Follows(wire, q, Chunks(txt)[p]) => Read(p, q)
           T == {a \in Nat : a < Len(txt) /\ ~Claim(Len(txt) - a)}
<1>1. PICK m \in Nat, k \in Nat : m = Len(txt) /\ k = Len(wire)
  BY LenProperties
<1>2. ASSUME NEW p \in 1 .. m, p + ChunkLen(txt, p) <= m => Claim(p + ChunkLen(txt, p)),
             NEW q, Follows(wire, q, Chunks(txt)[p])
      PROVE  Read(p, q)
  <2> HIDE DEF Claim
  <2>1. PICK n \in Byte : /\ n = ChunkLen(txt, p) /\ n # 0 /\ n <= MaxChunk
                          /\ p + n \in p + 1 .. m + 1 /\ (p + n # m + 1 => n = MaxChunk)
    BY <1>1, ChunkLenIs
  <2>2. PICK c : c = SubSeq(txt, p, p + n - 1)
    OBVIOUS
  <2>3. c \in Seq(Byte) /\ Len(c) = n
    <3>1. n \in Nat /\ p \in 1 .. m + 1 /\ p + n - 1 \in p - 1 .. m /\ p + n - 1 - p + 1 = n
      BY <1>1, <2>1, ByteIsNat
    <3> QED
      BY <1>1, <2>2, <3>1, PieceOf
  <2>4. PICK r : r = Chunks(txt)[p + n]
    OBVIOUS
  <2>5. r \in Seq(Byte) /\ Chunks(txt)[p] = <<n>> \o c \o r
    <3>1. p \in 1 .. Len(txt) + 1 /\ p + n \in 1 .. Len(txt) + 1
      BY <1>1, <2>1
    <3> QED
      BY <2>1, <2>2, <2>4, <3>1, ChunksLoop DEF IsChunks
  <2>6. /\ q \in 1 .. k /\ wire[q] = n /\ q + n <= k
        /\ SubSeq(wire, q + 1, q + n) = c /\ Follows(wire, q + n + 1, r)
    <3>1. Begins(wire, q, c, r)
      BY <1>2, <2>1, <2>3, <2>5 DEF Begins
    <3>2. /\ q \in 1 .. Len(wire) /\ wire[q] = n /\ q + n <= Len(wire)
          /\ SubSeq(wire, q + 1, q + n) = c /\ Follows(wire, q + n + 1, r)
      BY <2>3, <3>1, FollowsBehind
    <3> QED
      BY <1>1, <3>2
  <2>7. PICK rest : rest = Strings(wire)[q + n + 1]
    OBVIOUS
  <2>8. rest \in Seq(Seq(Byte)) /\ Strings(wire)[q] = <<c>> \o rest
    <3>1. n \in Nat
      BY <2>1, ByteIsNat
    <3>2. q \in 1 .. Len(wire) + 1 /\ q + n + 1 \in 1 .. Len(wire) + 1
      BY <1>1, <2>6, <3>1
    <3>3. ~(q > Len(wire)) /\ ~(q + wire[q] > Len(wire))
      BY <1>1, <2>6, <3>1
    <3> QED
      BY <2>6, <2>7, <3>2, <3>3, StringsLoop DEF IsStrings
  <2>9. Len(Chunks(txt)[p]) = n + 1 + Len(r)
    <3>1. <<n>> \in Seq(Byte) /\ Len(<<n>>) = 1
      OBVIOUS
    <3>2. <<n>> \o c \in Seq(Byte) /\ Len(<<n>> \o c) = 1 + n
      BY <2>3, <3>1, ConcatProperties
    <3>3. Len(<<n>> \o c \o r) = 1 + n + Len(r)
      BY <2>5, <3>2, ConcatProperties
    <3> QED
      BY <2>1, <2>5, <3>3, ByteIsNat
  <2>10. <<c>> \in Seq(Seq(Byte)) /\ Len(<<c>>) = 1
    BY <2>3
  <2>11. Len(Strings(wire)[q]) = 1 + Len(rest)
    BY <2>8, <2>10, ConcatProperties
  <2>12. Len(rest) \in Nat /\ Len(r) \in Nat /\ n \in Nat
    BY <2>1, <2>5, <2>8, LenProperties, ByteIsNat
  <2>13. CASE p + n = m + 1
    <3>1. r = <<>>
      <4>1. ChunkLen(txt, p + n) = 0
        <5>1. Len(txt) - (p + n) + 1 = 0
          BY <1>1, <2>13
        <5> QED
          BY <5>1, ConversionsAssumption DEF ChunkLen, AtMost
      <4>2. p + n \in 1 .. Len(txt) + 1
        BY <1>1, <2>1
      <4> QED
        BY <2>4, <4>1, <4>2, ChunksLoop DEF IsChunks
    <3>2. rest = <<>>
      <4>1. Len(wire) = (q + n + 1) - 1 + Len(r) /\ Len(r) = 0
        BY <2>6, <3>1 DEF Follows
      <4>2. Len(wire) = q + n
        BY <1>1, <2>6, <2>12, <4>1
      <4>3. q + n + 1 > Len(wire) /\ q + n + 1 \in 1 .. Len(wire) + 1
        BY <1>1, <2>6, <2>12, <4>2
      <4> QED
        BY <2>7, <4>3, StringsLoop DEF IsStrings
    <3>3. Strings(wire)[q] = <<SubSeq(txt, p, Len(txt))>>
      <4>1. p + n - 1 = Len(txt)
        BY <1>1, <2>13, <2>12
      <4> QED
        BY <2>2, <2>8, <2>10, <3>2, <4>1, ConcatEmptySeq
    <3>4. Len(txt) < p + MaxChunk
      BY <1>1, <2>1, <2>12, <2>13, ConversionsAssumption
    <3>5. Holds(Strings(wire)[q], txt, p)
      BY <1>1, <3>3, <3>4, HoldsLast
    <3>6. Len(r) = 0 /\ Len(rest) = 0
      BY <3>1, <3>2
    <3>7. Len(Chunks(txt)[p]) = n + 1 /\ Len(Strings(wire)[q]) = 1
      BY <2>9, <2>11, <2>12, <3>6
    <3>8. Len(Chunks(txt)[p]) = Len(txt) - p + 1 + Len(Strings(wire)[q])
      <4>1. n + 1 = m - p + 1 + 1
        BY <1>1, <2>12, <2>13
      <4> QED
        BY <1>1, <3>7, <4>1
    <3> QED
      BY <3>5, <3>8
  <2>14. CASE p + n # m + 1
    <3>1. n = MaxChunk /\ p + n <= m /\ p + n \in 1 .. m
      BY <1>1, <2>1, <2>12, <2>14
    <3>2. Read(p + n, q + n + 1)
      <4>1. Claim(p + n)
        BY <1>2, <2>1, <3>1
      <4> QED
        BY <2>4, <2>6, <4>1 DEF Claim
    <3>3. Holds(rest, txt, p + MaxChunk)
      BY <2>7, <3>1, <3>2
    <3>4. Holds(<<SubSeq(txt, p, p + MaxChunk - 1)>> \o rest, txt, p)
      BY <1>1, <2>8, <3>1, <3>3, HoldsMore
    <3>5. Holds(Strings(wire)[q], txt, p)
      BY <2>2, <2>8, <3>1, <3>4
    <3>6. Len(r) = m - (p + n) + 1 + Len(rest)
      BY <1>1, <2>4, <2>7, <3>2
    <3>7. Len(Chunks(txt)[p]) = Len(txt) - p + 1 + Len(Strings(wire)[q])
      BY <1>1, <2>9, <2>11, <2>12, <3>6
    <3> QED
      BY <3>5, <3>7
  <2> QED
    BY <2>13, <2>14
<1> HIDE DEF Read
<1>3. ASSUME T # {} PROVE FALSE
  <2>1. T \in SUBSET Nat
    OBVIOUS
  <2> HIDE DEF Claim
  <2>2. PICK a \in T : \A b \in T : a <= b
    BY <1>3, <2>1, SmallestOf
  <2>3. PICK p \in 1 .. m : p = m - a
    BY <1>1, <2>2
  <2>4. ASSUME p + ChunkLen(txt, p) <= m PROVE Claim(p + ChunkLen(txt, p))
    <3>1. PICK n \in Nat : n = ChunkLen(txt, p) /\ n # 0
      BY <1>1, ChunkLenIs, ByteIsNat
    <3>2. PICK b : b = m - (p + n)
      OBVIOUS
    <3>3. b \in Nat /\ b < m /\ ~(a <= b) /\ m - b = p + n
      BY <1>1, <2>2, <2>3, <2>4, <3>1, <3>2
    <3>4. b \notin T
      BY <2>2, <3>3
    <3> QED
      BY <1>1, <3>1, <3>3, <3>4
  <2>5. Claim(p)
    BY <1>2, <2>4 DEF Claim
  <2> QED
    BY <1>1, <2>2, <2>3, <2>5
<1>4. ASSUME NEW p \in 1 .. m PROVE Claim(p)
  <2> HIDE DEF Claim
  <2>1. m - p \in Nat /\ m - p < m /\ m - (m - p) = p
    BY <1>1
  <2>2. m - p \notin T
    BY <1>3
  <2> QED
    BY <1>1, <2>1, <2>2
<1> QED
  BY <1>1, <1>4 DEF Read

LEMMA TextIsBytes ==
    ASSUME text \in Seq(Bytes)
    PROVE  text \in Seq(Byte)
<1>1. Bytes \subseteq Byte
  BY TextsAssumption DEF Byte
<1> QED
  BY <1>1, SeqMonotonic

LEMMA ItselfFollows ==
    ASSUME NEW s \in Seq(Byte)
    PROVE  Follows(s, 1, s)
<1>1. Len(s) \in Nat
  BY LenProperties
<1> QED
  BY <1>1 DEF Follows

\* Whatever the text, its rdata is the character-strings it makes, each of
\* MaxChunk bytes but the last one (txtToWire).
THEOREM TxtIsWhole == TextsSpec => []TxtWhole
<1>1. text \in Seq(Bytes) => TxtWhole
  <2> SUFFICES ASSUME text \in Seq(Bytes) PROVE TxtWhole
    OBVIOUS
  <2>1. PICK wire : wire = TxtToWire(text)
    OBVIOUS
  <2>2. text \in Seq(Byte)
    BY TextIsBytes
  <2>3. PICK m \in Nat, c \in 1 .. 255 : m = Len(text) /\ c = MaxChunk
    BY LenProperties, ConversionsAssumption
  <2>4. PICK parts : parts = Strings(wire)[1]
    OBVIOUS
  <2>5. SUFFICES /\ parts # <<>>
                 /\ \A i \in 1 .. Len(parts) :
                      parts[i] = SubSeq(text, (i - 1) * c + 1, AtMost((i + 1 - 1) * c + 1 - 1, m))
                 /\ (Len(parts) - 1) * c + 1 <= AtLeast(m, 1)
                 /\ m < (Len(parts) + 1 - 1) * c + 1
                 /\ Len(wire) = m + Len(parts)
    BY <2>1, <2>3, <2>4 DEF TxtWhole
  <2>6. CASE text = <<>>
    <3>1. wire = <<0>> /\ m = 0
      BY <2>1, <2>3, <2>6 DEF TxtToWire
    <3>2. wire \in Seq(Byte) /\ Len(wire) = 1 /\ wire[1] = 0
      BY <3>1 DEF Byte
    <3>3. /\ 1 \in 1 .. Len(wire) + 1 /\ 2 \in 1 .. Len(wire) + 1 /\ 2 > Len(wire)
          /\ ~(1 > Len(wire)) /\ ~(1 + wire[1] > Len(wire))
          /\ 1 + wire[1] = 1 /\ 1 + 1 = 2
      BY <3>2
    <3>4. IsStrings(Strings(wire), wire)
      BY <3>2, StringsLoop
    <3>5. Strings(wire)[2] = <<>>
      BY <3>3, <3>4 DEF IsStrings
    <3>6. Strings(wire)[1] = <<SubSeq(wire, 1 + 1, 1 + wire[1])>> \o Strings(wire)[1 + wire[1] + 1]
      BY <3>3, <3>4 DEF IsStrings
    <3>7. parts = <<SubSeq(wire, 2, 1)>> \o <<>>
      BY <2>4, <3>5, <3>3, <3>6
    <3>8. SubSeq(wire, 2, 1) = <<>> /\ SubSeq(text, 1, 0) = <<>>
      BY SubSeqEmpty
    <3>9. parts = <<<<>>>>
      BY <3>7, <3>8
    <3>10. parts # <<>> /\ Len(parts) = 1 /\ parts[1] = <<>>
      BY <3>9
    <3>11. (1 - 1) * c + 1 = 1 /\ (1 + 1 - 1) * c + 1 - 1 = c /\ (1 + 1 - 1) * c + 1 = c + 1
      BY <2>3
    <3>12. AtMost(c, m) = 0 /\ AtLeast(m, 1) = 1 /\ m < c + 1
      BY <2>3, <3>1 DEF AtMost, AtLeast
    <3>13. \A i \in 1 .. 1 :
              parts[i] = SubSeq(text, (i - 1) * c + 1, AtMost((i + 1 - 1) * c + 1 - 1, m))
      <4> TAKE i \in 1 .. 1
      <4>1. i = 1
        OBVIOUS
      <4> QED
        BY <3>8, <3>10, <3>11, <3>12, <4>1
    <3> QED
      BY <3>1, <3>2, <3>10, <3>11, <3>12, <3>13
  <2>7. CASE text # <<>>
    <3>1. wire = Chunks(text)[1] /\ m # 0
      BY <2>1, <2>2, <2>3, <2>7, EmptySeq DEF TxtToWire
    <3>2. wire \in Seq(Byte)
      BY <2>2, <2>3, <3>1, ChunksLoop
    <3>3. 1 \in 1 .. Len(text) /\ Follows(wire, 1, Chunks(text)[1])
      BY <2>3, <3>1, <3>2, ItselfFollows
    <3>4. Holds(parts, text, 1) /\ Len(wire) = Len(text) - 1 + 1 + Len(parts)
      BY <2>2, <2>4, <3>1, <3>2, <3>3, ChunksRead
    <3>5. parts \in Seq(Seq(Byte))
      <4>1. 1 \in 1 .. Len(wire) + 1
        BY <3>2, LenProperties
      <4> QED
        BY <2>4, <3>2, <4>1, StringsLoop
    <3>6. PICK n \in Nat : n = Len(parts)
      BY <3>5, LenProperties
    <3>7. \A i \in Int : i * c \in Int /\ (i - 1) * c \in Int /\ (i + 1 - 1) * c = i * c
      <4>1. c \in Int
        BY <2>3
      <4> QED
        BY <4>1
    <3>8. \A i \in 1 .. n :
              parts[i] = SubSeq(text, (i - 1) * c + 1, AtMost((i + 1 - 1) * c + 1 - 1, m))
      <4> TAKE i \in 1 .. n
      <4>1. parts[i] = SubSeq(text, 1 + (i - 1) * c, AtMost(1 + i * c - 1, m))
        BY <2>3, <3>4, <3>6 DEF Holds
      <4>2. /\ 1 + (i - 1) * c = (i - 1) * c + 1
            /\ 1 + i * c - 1 = (i + 1 - 1) * c + 1 - 1
        BY <3>7
      <4> QED
        BY <4>1, <4>2
    <3>9. 1 + (n - 1) * c <= m /\ m < 1 + n * c
      BY <2>3, <3>4, <3>6 DEF Holds
    <3>10. (n - 1) * c + 1 <= m /\ m < (n + 1 - 1) * c + 1
      BY <2>3, <3>7, <3>9
    <3>11. AtLeast(m, 1) = m
      BY <2>3, <3>1 DEF AtLeast
    <3>12. Len(wire) = m + n /\ parts # <<>>
      BY <2>3, <3>4, <3>6 DEF Holds
    <3> QED
      BY <3>6, <3>8, <3>10, <3>11, <3>12
  <2> QED
    BY <2>6, <2>7
<1> QED
  BY <1>1, TextIsText, PTL

-----------------------------------------------------------------------------
(* Names *)

LEMMA DomainIsBytes ==
    ASSUME text \in Seq(Bytes)
    PROVE  Domain(text) \in Seq(Byte)
<1>1. text \in Seq(Byte) /\ Len(text) \in Nat
  BY TextIsBytes, LenProperties
<1>2. PICK n : n = IF Len(text) > 0 /\ text[Len(text)] = Dot THEN Len(text) - 1 ELSE Len(text)
  OBVIOUS
<1>3. n \in Nat /\ n <= Len(text)
  <2>1. CASE Len(text) > 0 /\ text[Len(text)] = Dot
    BY <1>1, <1>2, <2>1
  <2>2. CASE ~(Len(text) > 0 /\ text[Len(text)] = Dot)
    BY <1>1, <1>2, <2>2
  <2> QED
    BY <2>1, <2>2
<1>4. \A b \in Byte : ToLower(b) \in Byte
  BY DEF ToLower, Byte
<1>5. \A i \in 1 .. n : ToLower(text[i]) \in Byte
  <2> TAKE i \in 1 .. n
  <2>1. i \in 1 .. Len(text)
    BY <1>1, <1>3
  <2>2. text[i] \in Byte
    BY <1>1, <2>1, ElementOfSeq
  <2> QED
    BY <1>4, <2>2
<1>6. Domain(text) = [i \in 1 .. n |-> ToLower(text[i])]
  BY <1>2 DEF Domain
<1> QED
  BY <1>3, <1>5, <1>6

LEMMA LabelEndIs ==
    ASSUME NEW d \in Seq(Byte), NEW p \in 1 .. Len(d)
    PROVE  /\ LabelEnd(d, p) \in p .. Len(d) + 1
           /\ LabelEnd(d, p) <= Len(d) => d[LabelEnd(d, p)] = Dot
           /\ \A i \in p .. LabelEnd(d, p) - 1 : d[i] # Dot
<1>1. PICK m \in Nat : m = Len(d)
  BY LenProperties
<1>2. PICK S : S = {i \in p .. m : d[i] = Dot} \cup {m + 1}
  OBVIOUS
<1>3. S \in SUBSET Nat /\ S # {} /\ S \subseteq p .. m + 1
  BY <1>1, <1>2
<1>4. PICK e : e = LabelEnd(d, p)
  OBVIOUS
<1>5. e \in S /\ \A j \in S : e <= j
  BY <1>1, <1>2, <1>3, <1>4, LeastIs DEF LabelEnd
<1>6. e \in p .. m + 1
  BY <1>3, <1>5
<1>7. e <= m => d[e] = Dot
  BY <1>1, <1>2, <1>5
<1>8. ASSUME NEW i \in p .. e - 1, d[i] = Dot PROVE FALSE
  <2>1. i \in p .. m
    BY <1>1, <1>6
  <2>2. e <= i
    BY <1>2, <1>5, <1>8, <2>1
  <2> QED
    BY <1>6, <2>2
<1> QED
  BY <1>1, <1>4, <1>6, <1>7, <1>8

IsLabels(f, d) ==
    f = [pos \in 1 .. Len(d) + 2 |->
            IF pos > Len(d) THEN <<>>
            ELSE <<(LabelEnd(d, pos) - pos) % 256>> \o SubSeq(d, pos, LabelEnd(d, pos) - 1)
                     \o f[LabelEnd(d, pos) + 1]]

LEMMA LabelsLoop ==
    ASSUME NEW d \in Seq(Byte)
    PROVE  /\ Labels(d) \in [1 .. Len(d) + 2 -> Seq(Byte)]
           /\ IsLabels(Labels(d), d)
<1>1. PICK m \in Nat, N \in Nat : m = Len(d) /\ N = m + 2
  BY LenProperties
<1>2. PICK G : G = [p \in 1 .. N |->
          IF p > m THEN <<>>
          ELSE <<(LabelEnd(d, p) - p) % 256>> \o SubSeq(d, p, LabelEnd(d, p) - 1)]
  OBVIOUS
<1>3. PICK J : J = [p \in 1 .. N |-> IF p > m THEN N + 1 ELSE LabelEnd(d, p) + 1]
  OBVIOUS
<1>4. ASSUME NEW p \in 1 .. N, ~(p > m)
      PROVE  /\ p \in 1 .. m /\ LabelEnd(d, p) \in p .. m + 1
             /\ <<(LabelEnd(d, p) - p) % 256>> \o SubSeq(d, p, LabelEnd(d, p) - 1) \in Seq(Byte)
  <2>1. p \in 1 .. m /\ p \in 1 .. m + 1
    BY <1>1, <1>4
  <2>2. PICK e \in p .. m + 1 : e = LabelEnd(d, p)
    BY <1>1, <2>1, LabelEndIs
  <2>3. e - p \in Nat /\ e - 1 \in p - 1 .. m
    BY <2>1, <2>2
  <2>4. \A x \in Nat : x % 256 \in 0 .. 255
    OBVIOUS
  <2>5. (e - p) % 256 \in Byte /\ e - 1 \in p - 1 .. m
    BY <2>3, <2>4 DEF Byte
  <2>6. SubSeq(d, p, e - 1) \in Seq(Byte)
    BY <1>1, <2>1, <2>5, PieceOf
  <2>7. <<(e - p) % 256>> \in Seq(Byte)
    BY <2>5
  <2> QED
    BY <2>1, <2>2, <2>6, <2>7, ConcatProperties
<1>5. G \in [1 .. N -> Seq(Byte)]
  <2> SUFFICES ASSUME NEW p \in 1 .. N PROVE G[p] \in Seq(Byte)
    BY <1>2
  <2>1. CASE p > m
    BY <1>2, <2>1
  <2>2. CASE ~(p > m)
    BY <1>2, <1>4, <2>2
  <2> QED
    BY <2>1, <2>2
<1>6. J \in [1 .. N -> Int] /\ \A p \in 1 .. N : p < J[p]
  <2> SUFFICES ASSUME NEW p \in 1 .. N PROVE J[p] \in Int /\ p < J[p]
    BY <1>3
  <2>1. CASE p > m
    BY <1>3, <2>1
  <2>2. CASE ~(p > m)
    <3>1. PICK e \in p .. m + 1 : e = LabelEnd(d, p)
      BY <1>4, <2>2
    <3>2. J[p] = e + 1
      BY <1>3, <2>2, <3>1
    <3> QED
      BY <3>1, <3>2
  <2> QED
    BY <2>1, <2>2
<1>7. ASSUME NEW f, NEW p \in 1 .. N
      PROVE  (IF J[p] > N THEN G[p] ELSE G[p] \o f[J[p]])
               = IF p > m THEN <<>>
                 ELSE <<(LabelEnd(d, p) - p) % 256>> \o SubSeq(d, p, LabelEnd(d, p) - 1)
                          \o f[LabelEnd(d, p) + 1]
  <2>1. CASE p > m
    <3>1. J[p] = N + 1 /\ G[p] = <<>>
      BY <1>2, <1>3, <2>1
    <3> QED
      BY <2>1, <3>1
  <2>2. CASE ~(p > m)
    <3>1. PICK e \in p .. m + 1 : e = LabelEnd(d, p)
      BY <1>4, <2>2
    <3>2. J[p] = e + 1 /\ G[p] = <<(e - p) % 256>> \o SubSeq(d, p, e - 1)
      BY <1>2, <1>3, <2>2, <3>1
    <3>3. ~(J[p] > N)
      BY <1>1, <3>1, <3>2
    <3> QED
      BY <2>2, <3>1, <3>2, <3>3
  <2> QED
    BY <2>1, <2>2
<1>8. \A f : Loop(f, N, G, J) <=> IsLabels(f, d)
  <2> SUFFICES ASSUME NEW f PROVE Loop(f, N, G, J) <=> IsLabels(f, d)
    OBVIOUS
  <2>1. [p \in 1 .. N |-> IF J[p] > N THEN G[p] ELSE G[p] \o f[J[p]]]
          = [p \in 1 .. N |->
                IF p > m THEN <<>>
                ELSE <<(LabelEnd(d, p) - p) % 256>> \o SubSeq(d, p, LabelEnd(d, p) - 1)
                         \o f[LabelEnd(d, p) + 1]]
    BY <1>7
  <2> QED
    BY <1>1, <2>1 DEF Loop, IsLabels
<1>9. PICK f : Loop(f, N, G, J)
  BY <1>5, <1>6, LoopExists
<1>10. Labels(d) = CHOOSE g : IsLabels(g, d)
  BY DEF Labels, IsLabels
<1>11. IsLabels(Labels(d), d)
  BY <1>8, <1>9, <1>10
<1>12. Labels(d) \in [1 .. N -> Seq(Byte)]
  BY <1>5, <1>6, <1>8, <1>11, LoopTyped
<1> QED
  BY <1>1, <1>11, <1>12

IsDotted(f, wire) ==
    f = [i \in 1 .. Len(wire) |->
            LET next == i + wire[i] + 1
                label == SubSeq(wire, i + 1, next - 1) IN
            IF Ends(wire, next) THEN label ELSE label \o <<Dot>> \o f[next]]

LEMMA DottedLoop ==
    ASSUME NEW wire \in Seq(Byte)
    PROVE  IsDotted(Dotted(wire), wire)
<1>1. PICK N \in Nat : N = Len(wire)
  BY LenProperties
<1>2. PICK D : D = {wire[j] : j \in Int} \cup {Dot}
  OBVIOUS
<1>3. PICK label : label = [i \in 1 .. N |->
          LET next == i + wire[i] + 1 IN SubSeq(wire, i + 1, next - 1)]
  OBVIOUS
<1>4. PICK G : G = [i \in 1 .. N |->
          IF Ends(wire, i + wire[i] + 1) THEN label[i] ELSE label[i] \o <<Dot>>]
  OBVIOUS
<1>5. PICK J : J = [i \in 1 .. N |->
          IF Ends(wire, i + wire[i] + 1) THEN N + 1 ELSE i + wire[i] + 1]
  OBVIOUS
<1>6. ASSUME NEW i \in 1 .. N
      PROVE  wire[i] \in Nat /\ label[i] \in Seq(D) /\ label[i] \o <<Dot>> \in Seq(D)
  <2>1. wire[i] \in Nat
    BY <1>1, ElementOfSeq, ByteIsNat
  <2>2. PICK next \in Int : next = i + wire[i] + 1
    BY <2>1
  <2>3. PICK a \in Int, b \in Int : a = i + 1 /\ b = next - 1
    BY <2>2
  <2>4. \A j \in a .. b : wire[j] \in D
    BY <1>2, <2>3
  <2>5. label[i] = SubSeq(wire, a, b)
    BY <1>3, <2>3, <2>2
  <2>6. label[i] \in Seq(D)
    BY <2>4, <2>5, SubSeqProperties
  <2>7. <<Dot>> \in Seq(D)
    BY <1>2
  <2> QED
    BY <2>1, <2>6, <2>7, ConcatProperties
<1>7. G \in [1 .. N -> Seq(D)]
  BY <1>4, <1>6
<1>8. J \in [1 .. N -> Int] /\ \A i \in 1 .. N : i < J[i]
  <2> SUFFICES ASSUME NEW i \in 1 .. N PROVE J[i] \in Int /\ i < J[i]
    BY <1>5
  <2>1. wire[i] \in Nat
    BY <1>6
  <2> QED
    BY <1>5, <2>1
<1>9. ASSUME NEW f, NEW i \in 1 .. N
      PROVE  (IF J[i] > N THEN G[i] ELSE G[i] \o f[J[i]])
               = LET next == i + wire[i] + 1
                     s == SubSeq(wire, i + 1, next - 1) IN
                 IF Ends(wire, next) THEN s ELSE s \o <<Dot>> \o f[next]
  <2>1. CASE Ends(wire, i + wire[i] + 1)
    <3>1. J[i] > N /\ G[i] = label[i]
      BY <1>4, <1>5, <2>1
    <3> QED
      BY <1>3, <2>1, <3>1
  <2>2. CASE ~Ends(wire, i + wire[i] + 1)
    <3>1. J[i] = i + wire[i] + 1 /\ G[i] = label[i] \o <<Dot>>
      BY <1>4, <1>5, <2>2
    <3>2. ~(J[i] > N)
      BY <1>1, <2>2, <3>1 DEF Ends
    <3> QED
      BY <1>3, <2>2, <3>1, <3>2
  <2> QED
    BY <2>1, <2>2
<1>10. \A f : Loop(f, N, G, J) <=> IsDotted(f, wire)
  <2> SUFFICES ASSUME NEW f PROVE Loop(f, N, G, J) <=> IsDotted(f, wire)
    OBVIOUS
  <2>1. [i \in 1 .. N |-> IF J[i] > N THEN G[i] ELSE G[i] \o f[J[i]]]
          = [i \in 1 .. N |->
                LET next == i + wire[i] + 1
                    s == SubSeq(wire, i + 1, next - 1) IN
                IF Ends(wire, next) THEN s ELSE s \o <<Dot>> \o f[next]]
    BY <1>9
  <2> QED
    BY <1>1, <2>1 DEF Loop, IsDotted
<1>11. PICK f : Loop(f, N, G, J)
  BY <1>7, <1>8, LoopExists
<1>12. Dotted(wire) = CHOOSE g : IsDotted(g, wire)
  BY DEF Dotted, IsDotted
<1> QED
  BY <1>10, <1>11, <1>12

\* where the name that has its labels from p on ends
NameEnd(d, p) == Least({i \in p .. Len(d) : Closing(d, i)} \cup {Len(d) + 1})

\* the byte a name ends with
Root == <<0>>

LEMMA RootIs == Root \in Seq(Byte) /\ Len(Root) = 1 /\ Root[1] = 0
  BY DEF Root, Byte

\* from q on wire holds the labels of d from p on, where one begins
Wired(wire, q, d, p) == Follows(wire, q, Labels(d)[p] \o Root)

LEMMA NameEndIs ==
    ASSUME NEW d \in Seq(Byte), NEW p \in 1 .. Len(d)
    PROVE  /\ NameEnd(d, p) \in p .. Len(d) + 1
           /\ \A e \in p .. Len(d) + 1 :
                 (\A i \in p .. e - 1 : ~Closing(d, i)) =>
                    /\ e = Len(d) + 1 \/ (e <= Len(d) /\ Closing(d, e)) => NameEnd(d, p) = e
                    /\ e <= Len(d) => NameEnd(d, p) = NameEnd(d, e)
<1>1. PICK m \in Nat : m = Len(d)
  BY LenProperties
<1> DEFINE S(x) == {i \in x .. m : Closing(d, i)} \cup {m + 1}
<1>2. \A x \in 1 .. m : S(x) \in SUBSET Nat /\ S(x) # {} /\ S(x) \subseteq x .. m + 1
  BY <1>1
<1>3. \A x : NameEnd(d, x) = Least(S(x))
  BY <1>1 DEF NameEnd
<1>4. NameEnd(d, p) \in p .. m + 1
  <2> HIDE DEF S
  <2>1. p \in 1 .. m
    BY <1>1
  <2>2. Least(S(p)) \in S(p)
    BY <1>2, <2>1, LeastIs
  <2> QED
    BY <1>2, <1>3, <2>1, <2>2
<1>5. ASSUME NEW e \in p .. m + 1, \A i \in p .. e - 1 : ~Closing(d, i),
             e = m + 1 \/ Closing(d, e)
      PROVE  NameEnd(d, p) = e
  <2>1. e \in S(p)
    BY <1>1, <1>5
  <2>2. \A j \in S(p) : e <= j
    <3> TAKE j \in S(p)
    <3>1. j \in p .. m + 1
      BY <1>1
    <3>2. CASE j = m + 1
      BY <1>5, <3>2
    <3>3. CASE j # m + 1
      <4>1. Closing(d, j)
        BY <3>3
      <4>2. j \notin p .. e - 1
        BY <1>5, <4>1
      <4> QED
        BY <1>1, <3>1, <4>2
    <3> QED
      BY <3>2, <3>3
  <2> HIDE DEF S
  <2> QED
    BY <1>1, <1>2, <1>3, <2>1, <2>2, LeastIsThat
<1>6. ASSUME NEW e \in p .. m, \A i \in p .. e - 1 : ~Closing(d, i)
      PROVE  NameEnd(d, p) = NameEnd(d, e)
  <2>1. ASSUME NEW i \in p .. m, Closing(d, i) PROVE i \in e .. m
    <3>1. i \notin p .. e - 1
      BY <1>6, <2>1
    <3> QED
      BY <1>1, <3>1
  <2>2. \A i \in e .. m : i \in p .. m
    BY <1>1
  <2>3. S(p) = S(e)
    BY <2>1, <2>2
  <2> HIDE DEF S
  <2> QED
    BY <1>3, <2>3
<1> QED
  BY <1>1, <1>4, <1>5, <1>6

LEMMA ConcatRoot ==
    \A a, b \in Seq(Byte) : (a \o b) \o Root = a \o (b \o Root)
  BY RootIs, ConcatAssociative

LEMMA BeginsWithEnd ==
    ASSUME NEW wire \in Seq(Byte), NEW c \in Seq(Byte), Len(c) \in Byte,
           NEW r \in Seq(Byte), NEW q, Follows(wire, q, (<<Len(c)>> \o c \o r) \o Root)
    PROVE  Begins(wire, q, c, r \o Root)
<1>1. PICK h \in Seq(Byte) : h = <<Len(c)>> \o c
  <2>1. <<Len(c)>> \in Seq(Byte)
    OBVIOUS
  <2> QED
    BY <2>1, ConcatProperties
<1>2. PICK z \in Seq(Byte) : z = r \o Root
  <2>1. Root \in Seq(Byte) /\ r \in Seq(Byte)
    BY RootIs
  <2> QED
    BY ONLY <2>1, ConcatProperties
<1>3. (h \o r) \o Root = h \o (r \o Root)
  BY ConcatRoot
<1>4. (<<Len(c)>> \o c \o r) \o Root = <<Len(c)>> \o c \o z
  BY <1>1, <1>2, <1>3
<1>5. Follows(wire, q, <<Len(c)>> \o c \o z)
  BY <1>4
<1>6. Begins(wire, q, c, z)
  BY <1>5 DEF Begins
<1> QED
  BY <1>2, <1>6

(* The label that begins at x: its length, its bytes, and what follows.     *)
LEMMA LabelOnWire ==
    ASSUME NEW d \in Seq(Byte), LabelsFit(d), NEW wire \in Seq(Byte),
           NEW x \in 1 .. Len(d), NEW y, Wired(wire, y, d, x)
    PROVE  \E e \in x .. Len(d) + 1 :
             /\ e = LabelEnd(d, x) /\ e - x \in Byte
             /\ y \in 1 .. Len(wire) /\ wire[y] = e - x /\ y + (e - x) <= Len(wire)
             /\ SubSeq(wire, y + 1, y + (e - x)) = SubSeq(d, x, e - 1)
             /\ Wired(wire, y + (e - x) + 1, d, e + 1)
             /\ e + 1 \in 1 .. Len(d) + 2
<1>1. PICK m \in Nat, k \in Nat : m = Len(d) /\ k = Len(wire)
  BY LenProperties
<1>2. PICK e \in x .. m + 1 : e = LabelEnd(d, x) /\ \A i \in x .. e - 1 : d[i] # Dot
  BY <1>1, LabelEndIs
<1>3. PICK n \in Nat : n = e - x
  BY <1>2
<1>4. n \in Byte /\ n % 256 = n
  <2>1. ASSUME n > 255 PROVE FALSE
    <3>1. x \in 1 .. m - 255 /\ \A j \in x .. x + 255 : j \in x .. e - 1
      BY <1>1, <1>2, <1>3, <2>1
    <3>2. PICK j \in x .. x + 255 : d[j] = Dot
      BY <1>1, <3>1 DEF LabelsFit
    <3> QED
      BY <1>2, <3>1, <3>2
  <2>2. n \in 0 .. 255
    BY <1>3, <2>1
  <2>3. \A z \in 0 .. 255 : z % 256 = z
    OBVIOUS
  <2> QED
    BY <2>2, <2>3 DEF Byte
<1>5. PICK c : c = SubSeq(d, x, e - 1)
  OBVIOUS
<1>6. c \in Seq(Byte) /\ Len(c) = n
  <2>1. x \in 1 .. m + 1 /\ e - 1 \in x - 1 .. m /\ e - 1 - x + 1 = n
    BY <1>1, <1>2, <1>3
  <2> QED
    BY <1>1, <1>5, <2>1, PieceOf
<1>7. PICK r : r = Labels(d)[e + 1]
  OBVIOUS
<1>8. r \in Seq(Byte) /\ Labels(d)[x] = <<n>> \o c \o r
  <2>1. x \in 1 .. Len(d) + 2 /\ e + 1 \in 1 .. Len(d) + 2 /\ ~(x > Len(d))
    BY <1>1, <1>2
  <2>2. IsLabels(Labels(d), d) /\ Labels(d) \in [1 .. Len(d) + 2 -> Seq(Byte)]
    BY LabelsLoop
  <2>3. Labels(d)[x] = <<(e - x) % 256>> \o SubSeq(d, x, e - 1) \o Labels(d)[e + 1]
    BY <1>2, <2>1, <2>2 DEF IsLabels
  <2> QED
    BY <1>3, <1>4, <1>5, <1>7, <2>1, <2>2, <2>3
<1>9. Begins(wire, y, c, r \o Root)
  <2>1. Follows(wire, y, (<<Len(c)>> \o c \o r) \o Root)
    BY <1>6, <1>8 DEF Wired
  <2> QED
    BY <1>4, <1>6, <1>8, <2>1, BeginsWithEnd
<1>10. /\ y \in 1 .. Len(wire) /\ wire[y] = n /\ y + n <= Len(wire)
       /\ SubSeq(wire, y + 1, y + n) = c /\ Follows(wire, y + n + 1, r \o Root)
  BY <1>6, <1>9, FollowsBehind
<1>11. Wired(wire, y + n + 1, d, e + 1)
  BY <1>7, <1>10 DEF Wired
<1>12. e + 1 \in 1 .. m + 2
  BY <1>2
<1> QED
  BY <1>1, <1>2, <1>3, <1>4, <1>5, <1>10, <1>11, <1>12

\* the label at p of d is at q of wire; it goes to e, and next is what
\* follows it, the end or the next label
Label(d, wire, p, q, e, next) ==
    /\ q \in 1 .. Len(wire) /\ wire[q] = e - p /\ next = q + wire[q] + 1
    /\ SubSeq(wire, q + 1, next - 1) = SubSeq(d, p, e - 1)
    /\ \A i \in p .. e - 1 : d[i] # Dot
    /\ \/ NameEnd(d, p) = e /\ wire[next] = 0
       \/ /\ e + 1 \in 1 .. Len(d) /\ d[e] = Dot /\ d[e + 1] # Dot
          /\ wire[next] # 0 /\ Wired(wire, next, d, e + 1)
          /\ NameEnd(d, p) = NameEnd(d, e + 1)

LEMMA LabelStep ==
    ASSUME NEW d \in Seq(Byte), LabelsFit(d), NEW wire \in Seq(Byte),
           NEW p \in 1 .. Len(d), d[p] # Dot, NEW q, Wired(wire, q, d, p)
    PROVE  \E e \in p + 1 .. Len(d) + 1 : \E next \in 1 .. Len(wire) :
              Label(d, wire, p, q, e, next)
<1>1. PICK m \in Nat, k \in Nat : m = Len(d) /\ k = Len(wire)
  BY LenProperties
<1>2. ASSUME NEW x \in 1 .. m, NEW y, Wired(wire, y, d, x)
      PROVE  \E e \in x .. m + 1 :
               /\ e = LabelEnd(d, x) /\ e - x \in Byte
               /\ y \in 1 .. k /\ wire[y] = e - x /\ y + (e - x) <= k
               /\ SubSeq(wire, y + 1, y + (e - x)) = SubSeq(d, x, e - 1)
               /\ Wired(wire, y + (e - x) + 1, d, e + 1)
               /\ e + 1 \in 1 .. m + 2
  BY <1>1, <1>2, LabelOnWire
<1>3. PICK e \in p .. m + 1 :
               /\ e = LabelEnd(d, p) /\ e - p \in Byte
               /\ q \in 1 .. k /\ wire[q] = e - p /\ q + (e - p) <= k
               /\ SubSeq(wire, q + 1, q + (e - p)) = SubSeq(d, p, e - 1)
               /\ Wired(wire, q + (e - p) + 1, d, e + 1)
               /\ e + 1 \in 1 .. m + 2
  BY <1>1, <1>2
<1>4. /\ e <= m => d[e] = Dot
      /\ \A i \in p .. e - 1 : d[i] # Dot
  BY <1>1, <1>3, LabelEndIs
<1>5. e \in p + 1 .. m + 1
  <2>1. e # p
    BY <1>1, <1>4
  <2> QED
    BY <1>1, <1>3, <2>1
<1>6. \A i \in p .. e - 1 : ~Closing(d, i)
  BY <1>4 DEF Closing
<1>7. p \in 1 .. m /\ e \in 1 .. m + 1 /\ q \in Nat \ {0} /\ e - p \in Nat /\ e > p
  <2>1. p \in 1 .. m
    BY <1>1
  <2>2. q \in Nat \ {0}
    BY <1>3
  <2> QED
    BY <1>5, <2>1, <2>2
<1>8. PICK next : next = q + (e - p) + 1
  OBVIOUS
<1>9. next \in Nat /\ next = q + wire[q] + 1 /\ next - 1 = q + (e - p) /\ Wired(wire, next, d, e + 1)
  <2>1. next \in Nat /\ next - 1 = q + (e - p)
    BY <1>8, <1>7
  <2>2. wire[q] = e - p /\ Wired(wire, q + (e - p) + 1, d, e + 1)
    BY <1>3
  <2> QED
    BY <1>8, <2>1, <2>2
<1>10. ASSUME e + 1 > m
       PROVE  NameEnd(d, p) = e /\ wire[next] = 0 /\ next \in 1 .. k
  <2>1. Labels(d)[e + 1] = <<>>
    BY <1>1, <1>3, <1>10, LabelsLoop DEF IsLabels
  <2>2. Root \in Seq(Byte) /\ Len(Root) = 1 /\ Root[1] = 0
    BY RootIs
  <2>3. <<>> \o Root = Root
    BY <2>2, ConcatEmptySeq
  <2>4. Follows(wire, next, Root)
    BY <1>9, <2>1, <2>3 DEF Wired
  <2>5. wire[next - 1 + 1] = 0 /\ k = next - 1 + 1
    BY <1>1, <2>2, <2>4 DEF Follows
  <2>6. e = m + 1 \/ (e <= m /\ Closing(d, e))
    <3>1. CASE e = m + 1
      BY <3>1
    <3>2. CASE e # m + 1
      <4>1. e = m /\ e <= m
        BY <1>10, <1>7, <3>2
      <4> QED
        BY <1>1, <1>4, <4>1 DEF Closing
    <3> QED
      BY <3>1, <3>2
  <2>7. NameEnd(d, p) = e
    BY <1>1, <1>3, <1>6, <2>6, NameEndIs
  <2> QED
    <3>1. next - 1 + 1 = next /\ k = next
      BY <1>9, <2>5
    <3> QED
      BY <1>8, <1>7, <2>5, <2>7, <3>1
<1>11. ASSUME ~(e + 1 > m)
       PROVE  /\ next \in 1 .. k /\ e + 1 \in 1 .. m /\ e \in 1 .. m /\ d[e] = Dot
              /\ d[e + 1] = Dot <=> wire[next] = 0
  <2>1. e + 1 \in 1 .. m /\ e \in 1 .. m /\ d[e] = Dot
    BY <1>4, <1>11, <1>7
  <2>2. PICK f \in e + 1 .. m + 1 :
            f = LabelEnd(d, e + 1) /\ next \in 1 .. k /\ wire[next] = f - (e + 1)
    BY <1>2, <1>9, <2>1
  <2>3. /\ f <= m => d[f] = Dot
        /\ \A i \in e + 1 .. f - 1 : d[i] # Dot
    BY <1>1, <2>1, <2>2, LabelEndIs
  <2>4. d[e + 1] = Dot <=> f = e + 1
    <3>1. f = e + 1 => d[e + 1] = Dot
      BY <2>1, <2>2, <2>3
    <3>2. f # e + 1 => e + 1 \in e + 1 .. f - 1
      BY <2>1, <2>2
    <3> QED
      BY <2>3, <3>1, <3>2
  <2>5. wire[next] = 0 <=> f = e + 1
    BY <2>1, <2>2
  <2> QED
    BY <2>1, <2>2, <2>4, <2>5
<1>12. ASSUME ~(e + 1 > m), d[e + 1] = Dot PROVE NameEnd(d, p) = e
  <2>1. e \in 1 .. m /\ e < m /\ d[e] = Dot
    BY <1>11, <1>12
  <2>2. e <= m /\ Closing(d, e)
    BY <1>1, <1>12, <2>1 DEF Closing
  <2> QED
    BY <1>1, <1>3, <1>6, <2>2, NameEndIs
<1>13. ASSUME ~(e + 1 > m), d[e + 1] # Dot PROVE NameEnd(d, p) = NameEnd(d, e + 1)
  <2>1. e + 1 \in 1 .. m /\ e \in 1 .. m /\ e # 1 /\ e # m
    BY <1>5, <1>11, <1>13
  <2>2. ~Closing(d, e)
    BY <1>1, <1>13, <2>1 DEF Closing
  <2>3. \A i \in p .. (e + 1) - 1 : ~Closing(d, i)
    <3> TAKE i \in p .. (e + 1) - 1
    <3>1. i = e \/ i \in p .. e - 1
      <4>1. e \in Int /\ p \in Int /\ i \in p .. (e + 1) - 1
        BY <1>1, <1>3
      <4> QED
        BY ONLY <4>1
    <3> QED
      BY <1>6, <2>2, <3>1
  <2>4. e + 1 \in p .. m + 1 /\ e + 1 <= m
    BY <1>7, <2>1
  <2> QED
    BY <1>1, <2>3, <2>4, NameEndIs
<1>14. SubSeq(wire, q + 1, next - 1) = SubSeq(d, p, e - 1)
  BY <1>3, <1>9
<1>15. e \in p + 1 .. Len(d) + 1 /\ next \in 1 .. Len(wire) /\ Label(d, wire, p, q, e, next)
  <2>1. CASE e + 1 > m
    BY <1>1, <1>3, <1>4, <1>5, <1>9, <1>10, <1>14, <2>1 DEF Label
  <2>2. CASE ~(e + 1 > m)
    BY <1>1, <1>3, <1>4, <1>5, <1>9, <1>11, <1>12, <1>13, <1>14, <2>2 DEF Label
  <2> QED
    BY <2>1, <2>2
<1> QED
  BY <1>15

LEMMA DottedIs ==
    ASSUME NEW d \in Seq(Byte), NEW p \in 1 .. Len(d), NEW e \in p .. Len(d), d[e] = Dot,
           NEW f \in e .. Len(d)
    PROVE  SubSeq(d, p, e - 1) \o <<Dot>> \o SubSeq(d, e + 1, f) = SubSeq(d, p, f)
<1>1. PICK m \in Nat : m = Len(d)
  BY LenProperties
<1>2. SubSeq(d, e, e) = <<Dot>>
  <2>1. PICK s : s = SubSeq(d, e, e)
    OBVIOUS
  <2>2. e \in 1 .. m + 1 /\ e \in e - 1 .. m /\ e - e + 1 = 1 /\ e + 1 - 1 = e
    BY <1>1
  <2>3. s \in Seq(Byte) /\ Len(s) = 1 /\ s[1] = d[e]
    BY <1>1, <2>1, <2>2, PieceOf
  <2>4. s = <<s[1]>>
    BY <2>3
  <2> QED
    BY <2>1, <2>3, <2>4
<1>3. SubSeq(d, p, e - 1) \o SubSeq(d, e, e) = SubSeq(d, p, e)
  <2>1. /\ p \in 1 .. m + 1 /\ e - 1 \in p - 1 .. m /\ e \in e - 1 .. m /\ (e - 1) + 1 = e
    BY <1>1
  <2> QED
    BY <1>1, <2>1, ConcatAdjacentSubSeq
<1>4. SubSeq(d, p, e) \o SubSeq(d, e + 1, f) = SubSeq(d, p, f)
  <2>1. /\ p \in 1 .. m + 1 /\ e \in p - 1 .. m /\ f \in e .. m
    BY <1>1
  <2> QED
    BY <1>1, <2>1, ConcatAdjacentSubSeq
<1> QED
  BY <1>2, <1>3, <1>4

(* A wire that holds the labels of d from p on is read as d from p on.      *)
LEMMA DottedBack ==
    ASSUME NEW d \in Seq(Byte), LabelsFit(d), NEW wire \in Seq(Byte)
    PROVE  \A p \in 1 .. Len(d) : \A q :
             d[p] # Dot /\ Wired(wire, q, d, p) =>
                q \in 1 .. Len(wire) /\ Dotted(wire)[q] = SubSeq(d, p, NameEnd(d, p) - 1)
<1> DEFINE Back(p, q) ==
               q \in 1 .. Len(wire) /\ Dotted(wire)[q] = SubSeq(d, p, NameEnd(d, p) - 1)
           Claim(p) == \A q : d[p] # Dot /\ Wired(wire, q, d, p) => Back(p, q)
           T == {a \in Nat : a < Len(d) /\ ~Claim(Len(d) - a)}
<1>1. PICK m \in Nat, k \in Nat : m = Len(d) /\ k = Len(wire)
  BY LenProperties
<1>2. ASSUME NEW p \in 1 .. m, \A x \in p + 1 .. m : Claim(x),
             NEW q, d[p] # Dot, Wired(wire, q, d, p)
      PROVE  Back(p, q)
  <2> HIDE DEF Claim
  <2>1. PICK e \in p + 1 .. m + 1, next \in 1 .. k : Label(d, wire, p, q, e, next)
    BY <1>1, <1>2, LabelStep
  <2>2. Dotted(wire)[q] = IF Ends(wire, next) THEN SubSeq(d, p, e - 1)
                          ELSE SubSeq(d, p, e - 1) \o <<Dot>> \o Dotted(wire)[next]
    <3>1. IsDotted(Dotted(wire), wire) /\ q \in 1 .. Len(wire)
      BY <2>1, DottedLoop DEF Label
    <3> QED
      BY <2>1, <3>1 DEF IsDotted, Label
  <2>3. Ends(wire, next) <=> wire[next] = 0
    BY <1>1, <2>1 DEF Ends
  <2>4. CASE NameEnd(d, p) = e /\ wire[next] = 0
    BY <2>1, <2>2, <2>3, <2>4 DEF Label
  <2>5. CASE /\ e + 1 \in 1 .. m /\ d[e] = Dot /\ d[e + 1] # Dot
             /\ wire[next] # 0 /\ Wired(wire, next, d, e + 1)
             /\ NameEnd(d, p) = NameEnd(d, e + 1)
    <3>1. Claim(e + 1)
      BY <1>2, <2>1, <2>5
    <3>2. PICK f : f = NameEnd(d, e + 1) - 1
      OBVIOUS
    <3>3. Dotted(wire)[next] = SubSeq(d, e + 1, f)
      BY <2>5, <3>1, <3>2 DEF Claim
    <3>4. f \in e .. m
      <4>1. NameEnd(d, e + 1) \in e + 1 .. m + 1
        BY <1>1, <2>5, NameEndIs
      <4> QED
        BY <2>1, <3>2, <4>1
    <3>5. e \in p .. m
      BY <2>1, <2>5
    <3>6. SubSeq(d, p, e - 1) \o <<Dot>> \o SubSeq(d, e + 1, f) = SubSeq(d, p, f)
      BY <1>1, <2>5, <3>4, <3>5, DottedIs
    <3> QED
      BY <2>1, <2>2, <2>3, <2>5, <3>2, <3>3, <3>6 DEF Label
  <2> QED
    BY <1>1, <2>1, <2>4, <2>5 DEF Label
<1>3. ASSUME T # {} PROVE FALSE
  <2> HIDE DEF Claim
  <2>1. PICK a \in T : \A b \in T : a <= b
    BY <1>3, SmallestOf
  <2>2. PICK p \in 1 .. m : p = m - a /\ ~Claim(p)
    BY <1>1, <2>1
  <2>3. ASSUME NEW x \in p + 1 .. m PROVE Claim(x)
    <3>1. m - x \in Nat /\ m - x < a /\ m - x < m /\ m - (m - x) = x
      BY <1>1, <2>1, <2>2
    <3>2. m - x \notin T
      BY <2>1, <3>1
    <3> QED
      BY <1>1, <3>1, <3>2
  <2>4. PICK q : d[p] # Dot /\ Wired(wire, q, d, p) /\ ~Back(p, q)
    BY <2>2 DEF Claim
  <2> HIDE DEF Back
  <2> QED
    BY <1>2, <2>3, <2>4
<1>4. ASSUME NEW p \in 1 .. m PROVE Claim(p)
  <2> HIDE DEF Claim
  <2>1. m - p \in Nat /\ m - p < m /\ m - (m - p) = p
    BY <1>1
  <2>2. m - p \notin T
    BY <1>3
  <2> QED
    BY <1>1, <2>1, <2>2
<1> QED
  BY <1>1, <1>4

(* So is a whole wire that holds the name from a label on, or all of it.    *)
LEMMA ReadBack ==
    ASSUME NEW d \in Seq(Byte), LabelsFit(d), NEW wire \in Seq(Byte),
           NEW r \in 1 .. Len(d), d[r] # Dot \/ r = 1, Wired(wire, 1, d, r)
    PROVE  WireToDomain(wire) = SubSeq(d, r, NameEnd(d, r) - 1)
<1>1. PICK m \in Nat, k \in Nat : m = Len(d) /\ k = Len(wire)
  BY LenProperties
<1>2. PICK e \in r .. m + 1 :
          e = LabelEnd(d, r) /\ 1 \in 1 .. k /\ wire[1] = e - r
  <2>1. PICK e \in r .. Len(d) + 1 :
            e = LabelEnd(d, r) /\ 1 \in 1 .. Len(wire) /\ wire[1] = e - r
    BY LabelOnWire
  <2> QED
    BY <1>1, <2>1
<1>3. CASE d[r] # Dot
  <2>1. e # r
    BY <1>1, <1>2, <1>3, LabelEndIs
  <2>2. ~Ends(wire, 1)
    BY <1>1, <1>2, <2>1 DEF Ends
  <2> QED
    BY <1>3, <2>2, DottedBack DEF WireToDomain
<1>4. CASE d[r] = Dot
  <2>1. r = 1 /\ 1 \in 1 .. m
    BY <1>1, <1>4
  <2>2. e = 1
    <3>1. \A i \in r .. e - 1 : d[i] # Dot
      BY <1>2, LabelEndIs
    <3>2. r \notin r .. e - 1
      BY <1>4, <3>1
    <3> QED
      BY <1>2, <2>1, <3>2
  <2>3. WireToDomain(wire) = <<>>
    BY <1>1, <1>2, <2>1, <2>2 DEF WireToDomain, Ends
  <2>4. NameEnd(d, 1) = 1
    <3>1. 1 \in 1 .. Len(d) + 1 /\ 1 <= Len(d) /\ \A i \in 1 .. 1 - 1 : FALSE
      BY <1>1, <2>1
    <3>2. Closing(d, 1)
      BY <1>4, <2>1 DEF Closing
    <3> QED
      BY <1>1, <2>1, <3>1, <3>2, NameEndIs
  <2>5. SubSeq(d, 1, 1 - 1) = <<>>
    BY SubSeqEmpty
  <2> QED
    BY <2>1, <2>3, <2>4, <2>5
<1> QED
  BY <1>3, <1>4

LEMMA NameOnWire ==
    ASSUME text \in Seq(Bytes)
    PROVE  /\ Domain(text) \in Seq(Byte) /\ StringToWire(text) \in Seq(Byte)
           /\ Domain(text) # <<>> => Wired(StringToWire(text), 1, Domain(text), 1)
           /\ Domain(text) = <<>> => StringToWire(text) = Root
           /\ UpToEmptyLabel(Domain(text))
                = IF Domain(text) = <<>> THEN <<>>
                  ELSE SubSeq(Domain(text), 1, NameEnd(Domain(text), 1) - 1)
<1>1. PICK d \in Seq(Byte) : d = Domain(text)
  BY DomainIsBytes
<1>2. PICK m \in Nat : m = Len(d)
  BY LenProperties
<1>3. 1 \in 1 .. Len(d) + 2 /\ (d = <<>> <=> m = 0)
  BY <1>2, EmptySeq
<1>4. StringToWire(text) = Labels(d)[1] \o Root
  BY <1>1 DEF StringToWire, Root
<1>5. Labels(d)[1] \in Seq(Byte)
  BY <1>3, LabelsLoop
<1>6. StringToWire(text) \in Seq(Byte)
  BY <1>4, <1>5, RootIs, ConcatProperties
<1>7. Wired(StringToWire(text), 1, d, 1)
  BY <1>4, <1>6, ItselfFollows DEF Wired
<1>8. ASSUME d = <<>> PROVE StringToWire(text) = Root
  <2>1. Labels(d)[1] = <<>>
    <3>1. 1 > Len(d)
      BY <1>2, <1>3, <1>8
    <3>2. IsLabels(Labels(d), d)
      BY LabelsLoop
    <3> QED
      BY <1>3, <3>1, <3>2 DEF IsLabels
  <2> QED
    BY <1>4, <2>1, RootIs, ConcatEmptySeq
<1>9. UpToEmptyLabel(d) = SubSeq(d, 1, NameEnd(d, 1) - 1)
  BY DEF UpToEmptyLabel, NameEnd
<1>10. ASSUME d = <<>> PROVE UpToEmptyLabel(d) = <<>>
  <2>1. {i \in 1 .. Len(d) : Closing(d, i)} \cup {Len(d) + 1} = {1}
    BY <1>2, <1>3, <1>10
  <2>2. Least({1}) = 1
    BY LeastIsThat
  <2>3. SubSeq(d, 1, 1 - 1) = <<>>
    BY SubSeqEmpty
  <2> QED
    BY <2>1, <2>2, <2>3 DEF UpToEmptyLabel
<1> QED
  BY <1>1, <1>6, <1>7, <1>8, <1>9, <1>10

\* Whatever the name, on the wire and back it is itself in lower case, up to
\* its first empty label (stringToWire, wireToDomain).
THEOREM NamesAreKept == TextsSpec => []NamesSurvive
<1>1. text \in Seq(Bytes) => NamesSurvive
  <2> SUFFICES ASSUME text \in Seq(Bytes), LabelsFit(Domain(text))
               PROVE  WireToDomain(StringToWire(text)) = UpToEmptyLabel(Domain(text))
    BY DEF NamesSurvive
  <2>1. PICK d \in Seq(Byte), wire \in Seq(Byte) : d = Domain(text) /\ wire = StringToWire(text)
    BY NameOnWire
  <2>2. CASE d = <<>>
    <3>1. wire = Root /\ UpToEmptyLabel(d) = <<>>
      BY <2>1, <2>2, NameOnWire
    <3>2. Ends(wire, 1)
      BY <3>1, RootIs DEF Ends
    <3> QED
      BY <2>1, <3>1, <3>2 DEF WireToDomain
  <2>3. CASE d # <<>>
    <3>1. 1 \in 1 .. Len(d)
      BY <2>3, LenProperties, EmptySeq
    <3>2. Wired(wire, 1, d, 1) /\ UpToEmptyLabel(d) = SubSeq(d, 1, NameEnd(d, 1) - 1)
      BY <2>1, <2>3, NameOnWire
    <3>3. LabelsFit(d)
      BY <2>1
    <3> QED
      BY <2>1, <3>1, <3>2, <3>3, ReadBack
  <2> QED
    BY <2>2, <2>3
<1> QED
  BY <1>1, TextIsText, PTL

-----------------------------------------------------------------------------
(* The zone of a name *)

IsStarts(f, wire) ==
    f = [i \in 1 .. Len(wire) + 1 |->
            IF Ends(wire, i) THEN <<>>
            ELSE <<i>> \o f[AtMost(i + wire[i], Len(wire)) + 1]]

LEMMA StartsLoop ==
    ASSUME NEW wire \in Seq(Byte)
    PROVE  /\ Starts(wire) \in [1 .. Len(wire) + 1 -> Seq(Nat)]
           /\ IsStarts(Starts(wire), wire)
<1>1. PICK m \in Nat, N \in Nat : m = Len(wire) /\ N = m + 1
  BY LenProperties
<1>2. PICK G : G = [i \in 1 .. N |-> IF Ends(wire, i) THEN <<>> ELSE <<i>>]
  OBVIOUS
<1>3. PICK J : J = [i \in 1 .. N |->
          IF Ends(wire, i) THEN N + 1 ELSE AtMost(i + wire[i], m) + 1]
  OBVIOUS
<1>4. ASSUME NEW i \in 1 .. N, ~Ends(wire, i)
      PROVE  AtMost(i + wire[i], m) + 1 \in i + 1 .. N
  <2>1. i \in 1 .. m
    BY <1>1, <1>4 DEF Ends
  <2>2. wire[i] \in Nat
    BY <1>1, <2>1, ElementOfSeq, ByteIsNat
  <2>3. PICK j \in Int : j = i + wire[i] /\ j >= i
    BY <2>2
  <2>4. AtMost(j, m) \in i .. m
    <3>1. CASE j < m
      BY <2>1, <2>3, <3>1 DEF AtMost
    <3>2. CASE ~(j < m)
      BY <2>1, <2>3, <3>2 DEF AtMost
    <3> QED
      BY <3>1, <3>2
  <2> QED
    BY <1>1, <2>3, <2>4
<1>5. G \in [1 .. N -> Seq(Nat)]
  BY <1>2
<1>6. J \in [1 .. N -> Int] /\ \A i \in 1 .. N : i < J[i]
  <2> SUFFICES ASSUME NEW i \in 1 .. N PROVE J[i] \in Int /\ i < J[i]
    BY <1>3
  <2>1. CASE Ends(wire, i)
    BY <1>3, <2>1
  <2>2. CASE ~Ends(wire, i)
    BY <1>3, <1>4, <2>2
  <2> QED
    BY <2>1, <2>2
<1>7. ASSUME NEW f, NEW i \in 1 .. N
      PROVE  (IF J[i] > N THEN G[i] ELSE G[i] \o f[J[i]])
               = IF Ends(wire, i) THEN <<>> ELSE <<i>> \o f[AtMost(i + wire[i], m) + 1]
  <2>1. CASE Ends(wire, i)
    <3>1. J[i] > N /\ G[i] = <<>>
      BY <1>2, <1>3, <2>1
    <3> QED
      BY <2>1, <3>1
  <2>2. CASE ~Ends(wire, i)
    <3>1. PICK j \in i + 1 .. N : j = AtMost(i + wire[i], m) + 1
      BY <1>4, <2>2
    <3>2. J[i] = j /\ G[i] = <<i>> /\ ~(j > N)
      BY <1>2, <1>3, <2>2, <3>1
    <3> QED
      BY <2>2, <3>1, <3>2
  <2> QED
    BY <2>1, <2>2
<1>8. \A f : Loop(f, N, G, J) <=> IsStarts(f, wire)
  <2> SUFFICES ASSUME NEW f PROVE Loop(f, N, G, J) <=> IsStarts(f, wire)
    OBVIOUS
  <2>1. [i \in 1 .. N |-> IF J[i] > N THEN G[i] ELSE G[i] \o f[J[i]]]
          = [i \in 1 .. N |->
                IF Ends(wire, i) THEN <<>> ELSE <<i>> \o f[AtMost(i + wire[i], m) + 1]]
    BY <1>7
  <2> QED
    BY <1>1, <2>1 DEF Loop, IsStarts
<1>9. PICK f : Loop(f, N, G, J)
  BY <1>5, <1>6, LoopExists
<1>10. Starts(wire) = CHOOSE g : IsStarts(g, wire)
  BY DEF Starts, IsStarts
<1>11. IsStarts(Starts(wire), wire)
  BY <1>8, <1>9, <1>10
<1>12. Starts(wire) \in [1 .. N -> Seq(Nat)]
  BY <1>5, <1>6, <1>8, <1>11, LoopTyped
<1> QED
  BY <1>1, <1>11, <1>12

\* the dots of d from a to b
Dots(d, a, b) == Cardinality({i \in a .. b : d[i] = Dot})

LEMMA DotsAre ==
    ASSUME NEW d, NEW a \in Int, NEW b \in Int
    PROVE  Dots(d, a, b) \in Nat /\ IsFiniteSet({i \in a .. b : d[i] = Dot})
<1>1. IsFiniteSet(a .. b)
  BY FS_Interval
<1>2. IsFiniteSet({i \in a .. b : d[i] = Dot})
  BY <1>1, FS_Subset
<1> QED
  BY <1>2, FS_CardinalityType DEF Dots

LEMMA NoDots ==
    ASSUME NEW d, NEW a \in Int, NEW b \in Int, \A i \in a .. b : d[i] # Dot
    PROVE  Dots(d, a, b) = 0
<1>1. {i \in a .. b : d[i] = Dot} = {}
  OBVIOUS
<1> QED
  BY <1>1, FS_EmptySet DEF Dots

LEMMA DotsBehind ==
    ASSUME NEW d, NEW a \in Int, NEW e \in Int, NEW b \in Int, a <= e, e <= b,
           \A i \in a .. e - 1 : d[i] # Dot, d[e] = Dot
    PROVE  Dots(d, a, b) = 1 + Dots(d, e + 1, b)
<1> DEFINE S == {i \in e + 1 .. b : d[i] = Dot}
<1>1. {i \in a .. b : d[i] = Dot} = S \cup {e}
  <2>1. ASSUME NEW i \in a .. b, d[i] = Dot PROVE i \in S \cup {e}
    <3>1. i \notin a .. e - 1
      BY <2>1
    <3> QED
      BY <2>1, <3>1
  <2>2. \A i \in S : i \in a .. b /\ d[i] = Dot
    OBVIOUS
  <2>3. e \in a .. b
    OBVIOUS
  <2> QED
    BY <2>1, <2>2, <2>3
<1>2. IsFiniteSet(S) /\ Dots(d, e + 1, b) \in Nat
  <2>1. PICK x \in Int : x = e + 1
    OBVIOUS
  <2>2. IsFiniteSet({i \in x .. b : d[i] = Dot}) /\ Dots(d, x, b) \in Nat
    BY DotsAre
  <2> QED
    BY <2>1, <2>2
<1>3. e \notin S
  OBVIOUS
<1> HIDE DEF S
<1>4. Cardinality(S \cup {e}) = Cardinality(S) + 1
  BY <1>2, <1>3, FS_AddElement
<1>5. Dots(d, e + 1, b) = Cardinality(S)
  BY DEF Dots, S
<1> QED
  BY <1>1, <1>2, <1>4, <1>5 DEF Dots

LEMMA DotsGrow ==
    ASSUME NEW d, NEW a \in Int, NEW e \in Int, NEW b \in Int, e < b, a <= b, d[b] = Dot
    PROVE  Dots(d, a, e) < Dots(d, a, b)
<1> DEFINE S == {i \in a .. e : d[i] = Dot}
           U == {i \in a .. b : d[i] = Dot}
<1>1. IsFiniteSet(S) /\ IsFiniteSet(U) /\ Dots(d, a, e) \in Nat /\ Dots(d, a, b) \in Nat
  BY DotsAre
<1>2. S \subseteq U /\ b \in U /\ b \notin S
  OBVIOUS
<1> HIDE DEF S, U
<1>3. Cardinality(S) <= Cardinality(U) /\ (Cardinality(S) = Cardinality(U) => S = U)
  BY <1>1, <1>2, FS_Subset
<1>4. S # U
  BY <1>2
<1>5. Dots(d, a, e) = Cardinality(S) /\ Dots(d, a, b) = Cardinality(U)
  BY DEF Dots, S, U
<1> QED
  BY <1>1, <1>3, <1>4, <1>5

\* the k-th label of those of d from p on begins at r there, and at s of wire
Nth(d, wire, p, k, s, r) ==
    /\ Wired(wire, s, d, r) /\ d[r] # Dot
    /\ Dots(d, p, r - 1) = k - 1 /\ NameEnd(d, r) = NameEnd(d, p)
    /\ r = p \/ d[r - 1] = Dot

\* starts are where the labels of d from p on begin on wire
StartsAre(starts, d, wire, p) ==
    /\ starts \in Seq(Nat) /\ Len(starts) = Dots(d, p, NameEnd(d, p) - 1) + 1
    /\ \A k \in 1 .. Len(starts) : \E r \in p .. Len(d) : Nth(d, wire, p, k, starts[k], r)

(* The only label left.                                                     *)
LEMMA LastStart ==
    ASSUME NEW d \in Seq(Byte), NEW wire, NEW p \in 1 .. Len(d), d[p] # Dot,
           NEW q \in Nat, Wired(wire, q, d, p),
           NEW e \in p + 1 .. Len(d) + 1, \A i \in p .. e - 1 : d[i] # Dot,
           NameEnd(d, p) = e
    PROVE  StartsAre(<<q>>, d, wire, p)
<1>1. PICK s : s = <<q>>
  OBVIOUS
<1>2. s \in Seq(Nat) /\ Len(s) = 1 /\ s[1] = q
  BY <1>1
<1>3. p \in Nat /\ Len(d) \in Nat /\ p \in p .. Len(d)
  BY LenProperties
<1>4. e \in Int /\ p - 1 \in Int /\ e - 1 \in Int /\ \A i \in p .. p - 1 : FALSE
  BY <1>3
<1>5. Dots(d, p, e - 1) = 0
  BY <1>3, <1>4, NoDots
<1>6. Dots(d, p, p - 1) = 1 - 1
  BY <1>3, <1>4, NoDots
<1>7. Nth(d, wire, p, 1, s[1], p)
  BY <1>2, <1>6 DEF Nth
<1>8. \A k \in 1 .. 1 : k = 1
  OBVIOUS
<1>9. StartsAre(s, d, wire, p)
  BY <1>2, <1>3, <1>5, <1>7, <1>8 DEF StartsAre
<1> QED
  BY <1>1, <1>9

(* A label, and those behind the dot it ends at.                            *)
LEMMA MoreStarts ==
    ASSUME NEW d \in Seq(Byte), NEW wire, NEW p \in 1 .. Len(d), d[p] # Dot,
           NEW q \in Nat, Wired(wire, q, d, p),
           NEW e \in p + 1 .. Len(d), \A i \in p .. e - 1 : d[i] # Dot, d[e] = Dot,
           e + 1 \in 1 .. Len(d), NameEnd(d, p) = NameEnd(d, e + 1),
           NEW rest, StartsAre(rest, d, wire, e + 1)
    PROVE  StartsAre(<<q>> \o rest, d, wire, p)
<1>1. PICK s : s = <<q>> \o rest
  OBVIOUS
<1>2. PICK n \in Nat, m \in Nat : n = Len(rest) /\ m = Len(d)
  BY LenProperties DEF StartsAre
<1>3. s = <<q>> \o rest /\ n = Len(rest) /\ m = Len(d)
  BY <1>1, <1>2
<1>4. /\ s \in Seq(Nat) /\ Len(s) = n + 1
      /\ \A k \in 1 .. n + 1 : s[k] = IF k <= 1 THEN q ELSE rest[k - 1]
  <2>1. <<q>> \in Seq(Nat) /\ Len(<<q>>) = 1 /\ <<q>>[1] = q /\ rest \in Seq(Nat)
    BY DEF StartsAre
  <2>2. /\ s \in Seq(Nat) /\ Len(s) = 1 + n
        /\ \A k \in 1 .. 1 + n : s[k] = IF k <= 1 THEN <<q>>[k] ELSE rest[k - 1]
    BY <1>3, <2>1, ConcatProperties
  <2> QED
    BY <1>3, <2>1, <2>2
<1>5. p \in Int /\ e \in Int /\ p <= e /\ e < m /\ p \in p .. m
  BY <1>3
<1>6. \A b \in Int : e <= b => Dots(d, p, b) = 1 + Dots(d, e + 1, b)
  BY <1>5, DotsBehind
<1>7. Len(s) = Dots(d, p, NameEnd(d, p) - 1) + 1
  <2>1. PICK b \in Int : b = NameEnd(d, e + 1) - 1 /\ e <= b
    <3>1. NameEnd(d, e + 1) \in e + 1 .. m + 1
      BY <1>3, NameEndIs
    <3> QED
      BY <1>5, <3>1
  <2>2. Dots(d, p, b) = 1 + Dots(d, e + 1, b) /\ Dots(d, e + 1, b) \in Nat
    <3>1. e + 1 \in Int
      BY <1>5
    <3> QED
      BY <1>6, <2>1, <3>1, DotsAre
  <2>3. n = Dots(d, e + 1, b) + 1
    BY <1>3, <2>1 DEF StartsAre
  <2> QED
    BY <1>4, <2>1, <2>2, <2>3
<1>8. ASSUME NEW k \in 1 .. n + 1
      PROVE  \E r \in p .. m : Nth(d, wire, p, k, s[k], r)
  <2>1. CASE k = 1
    <3>1. p - 1 \in Int /\ \A i \in p .. p - 1 : FALSE
      BY <1>5
    <3>2. Dots(d, p, p - 1) = k - 1
      BY <1>5, <2>1, <3>1, NoDots
    <3>3. s[k] = q
      BY <1>4, <2>1
    <3>4. Nth(d, wire, p, k, s[k], p)
      BY <3>2, <3>3 DEF Nth
    <3> QED
      BY <1>5, <3>4
  <2>2. CASE k # 1
    <3>1. k - 1 \in 1 .. n /\ s[k] = rest[k - 1]
      BY <1>4, <2>2
    <3>2. PICK r \in e + 1 .. m : Nth(d, wire, e + 1, k - 1, rest[k - 1], r)
      BY <1>3, <3>1 DEF StartsAre
    <3>3. r - 1 \in Int /\ e <= r - 1 /\ e + 1 \in Int /\ r \in p .. m
      BY <1>5
    <3>4. Dots(d, p, r - 1) = 1 + Dots(d, e + 1, r - 1)
      BY <1>6, <3>3
    <3>5. Dots(d, e + 1, r - 1) = k - 1 - 1
      BY <3>2 DEF Nth
    <3>6. Dots(d, p, r - 1) = k - 1
      BY <3>1, <3>4, <3>5
    <3>7. d[r - 1] = Dot
      <4>1. CASE r = e + 1
        <5>1. r - 1 = e
          BY <1>5, <4>1
        <5> QED
          BY <5>1
      <4>2. CASE r # e + 1
        BY <3>2, <4>2 DEF Nth
      <4> QED
        BY <4>1, <4>2
    <3>8. Nth(d, wire, p, k, s[k], r)
      BY <3>1, <3>2, <3>6, <3>7 DEF Nth
    <3> QED
      BY <3>3, <3>8
  <2> QED
    BY <2>1, <2>2
<1>9. StartsAre(s, d, wire, p)
  BY <1>3, <1>4, <1>7, <1>8 DEF StartsAre
<1> QED
  BY <1>3, <1>9

LEMMA StartsRead ==
    ASSUME NEW d \in Seq(Byte), LabelsFit(d), NEW wire \in Seq(Byte)
    PROVE  \A p \in 1 .. Len(d) : \A q :
             d[p] # Dot /\ Wired(wire, q, d, p) =>
                q \in 1 .. Len(wire) /\ StartsAre(Starts(wire)[q], d, wire, p)
<1> DEFINE Read(p, q) == q \in 1 .. Len(wire) /\ StartsAre(Starts(wire)[q], d, wire, p)
           Claim(p) == \A q : d[p] # Dot /\ Wired(wire, q, d, p) => Read(p, q)
           T == {a \in Nat : a < Len(d) /\ ~Claim(Len(d) - a)}
<1>1. PICK m \in Nat, k \in Nat : m = Len(d) /\ k = Len(wire)
  BY LenProperties
<1>2. ASSUME NEW p \in 1 .. m, \A x \in p + 1 .. m : Claim(x),
             NEW q, d[p] # Dot, Wired(wire, q, d, p)
      PROVE  Read(p, q)
  <2> HIDE DEF Claim
  <2>1. PICK e \in p + 1 .. m + 1, next \in 1 .. k : Label(d, wire, p, q, e, next)
    BY <1>1, <1>2, LabelStep
  <2>2. /\ q \in 1 .. k /\ wire[q] = e - p /\ next = q + wire[q] + 1
        /\ \A i \in p .. e - 1 : d[i] # Dot
    BY <1>1, <2>1 DEF Label
  <2>3. IsStarts(Starts(wire), wire)
    BY StartsLoop
  <2>4. Starts(wire)[q] = <<q>> \o Starts(wire)[next]
    <3>1. ~Ends(wire, q)
      BY <1>1, <2>1, <2>2 DEF Ends
    <3>2. q + wire[q] = next - 1
      BY <1>1, <2>2
    <3>3. AtMost(next - 1, k) + 1 = next
      BY <1>1, <2>1 DEF AtMost
    <3>4. q \in 1 .. Len(wire) + 1
      BY <1>1, <2>2
    <3>5. Starts(wire)[q] = <<q>> \o Starts(wire)[AtMost(q + wire[q], Len(wire)) + 1]
      BY <2>3, <3>1, <3>4 DEF IsStarts
    <3> QED
      BY <1>1, <3>2, <3>3, <3>5
  <2>5. next \in 1 .. Len(wire) + 1 /\ q \in Nat /\ p \in 1 .. Len(d)
    BY <1>1, <2>2
  <2>6. CASE NameEnd(d, p) = e /\ wire[next] = 0
    <3>1. Starts(wire)[next] = <<>>
      <4>1. Ends(wire, next)
        BY <2>6 DEF Ends
      <4> QED
        BY <2>3, <2>5, <4>1 DEF IsStarts
    <3>2. Starts(wire)[q] = <<q>>
      BY <2>4, <2>5, <3>1
    <3>3. StartsAre(<<q>>, d, wire, p)
      BY <1>1, <1>2, <2>2, <2>5, <2>6, LastStart
    <3> QED
      BY <1>1, <2>2, <3>2, <3>3
  <2>7. CASE /\ e + 1 \in 1 .. m /\ d[e] = Dot /\ d[e + 1] # Dot
             /\ wire[next] # 0 /\ Wired(wire, next, d, e + 1)
             /\ NameEnd(d, p) = NameEnd(d, e + 1)
    <3>1. Claim(e + 1)
      BY <1>2, <2>1, <2>7
    <3>2. StartsAre(Starts(wire)[next], d, wire, e + 1)
      BY <2>7, <3>1 DEF Claim
    <3>3. e \in p + 1 .. Len(d)
      BY <1>1, <2>1, <2>7
    <3>4. StartsAre(<<q>> \o Starts(wire)[next], d, wire, p)
      BY <1>1, <1>2, <2>2, <2>5, <2>7, <3>2, <3>3, MoreStarts
    <3> QED
      BY <1>1, <2>2, <2>4, <3>4
  <2> QED
    BY <1>1, <2>1, <2>6, <2>7 DEF Label
<1>3. ASSUME T # {} PROVE FALSE
  <2> HIDE DEF Claim
  <2>1. PICK a \in T : \A b \in T : a <= b
    BY <1>3, SmallestOf
  <2>2. PICK p \in 1 .. m : p = m - a /\ ~Claim(p)
    BY <1>1, <2>1
  <2>3. ASSUME NEW x \in p + 1 .. m PROVE Claim(x)
    <3>1. m - x \in Nat /\ m - x < a /\ m - x < m /\ m - (m - x) = x
      BY <1>1, <2>1, <2>2
    <3>2. m - x \notin T
      BY <2>1, <3>1
    <3> QED
      BY <1>1, <3>1, <3>2
  <2>4. PICK q : d[p] # Dot /\ Wired(wire, q, d, p) /\ ~Read(p, q)
    BY <2>2 DEF Claim
  <2> HIDE DEF Read
  <2> QED
    BY <1>2, <2>3, <2>4
<1>4. ASSUME NEW p \in 1 .. m PROVE Claim(p)
  <2> HIDE DEF Claim
  <2>1. m - p \in Nat /\ m - p < m /\ m - (m - p) = p
    BY <1>1
  <2>2. m - p \notin T
    BY <1>3
  <2> QED
    BY <1>1, <2>1, <2>2
<1> QED
  BY <1>1, <1>4

LEMMA SuffixFollows ==
    ASSUME NEW wire \in Seq(Byte), NEW d \in Seq(Byte), NEW r \in 1 .. Len(d),
           NEW s \in 1 .. Len(wire), Wired(wire, s, d, r)
    PROVE  /\ SubSeq(wire, s, Len(wire)) \in Seq(Byte)
           /\ Wired(SubSeq(wire, s, Len(wire)), 1, d, r)
<1>1. PICK k \in Nat : k = Len(wire)
  BY LenProperties
<1>2. PICK t, l : t = SubSeq(wire, s, k) /\ l = Labels(d)[r] \o Root
  OBVIOUS
<1>3. /\ k = s - 1 + Len(l) /\ \A j \in 1 .. Len(l) : wire[s - 1 + j] = l[j]
  BY <1>1, <1>2 DEF Wired, Follows
<1>4. /\ t \in Seq(Byte) /\ Len(t) = k - s + 1
      /\ \A j \in 1 .. k - s + 1 : t[j] = wire[s + j - 1]
  <2>1. s \in 1 .. k /\ k \in Nat
    BY <1>1
  <2>2. s \in 1 .. k + 1 /\ k \in s - 1 .. k
    BY ONLY <2>1
  <2> QED
    BY <1>1, <1>2, <2>2, PieceOf
<1>5. s \in 1 .. k
  BY <1>1
<1>6. PICK n \in Nat : n = k - s + 1
  <2>1. k \in Nat /\ s \in 1 .. k
    BY <1>5
  <2> QED
    BY ONLY <2>1
<1>7. Len(l) = n /\ Len(t) = 1 - 1 + Len(l)
  <2>1. PICK h : h = Len(l) /\ k = s - 1 + h
    BY <1>3
  <2>2. h \in Nat
    <3>1. r \in 1 .. Len(d) + 2
      BY LenProperties
    <3>2. Labels(d)[r] \in Seq(Byte)
      BY <3>1, LabelsLoop
    <3>3. l \in Seq(Byte)
      BY <1>2, <3>2, RootIs, ConcatProperties
    <3> QED
      BY <2>1, <3>3, LenProperties
  <2> QED
    BY <1>1, <1>4, <1>6, <2>1, <2>2
<1>8. \A j \in 1 .. n : t[1 - 1 + j] = l[j]
  <2> TAKE j \in 1 .. n
  <2>1. 1 - 1 + j = j /\ s + j - 1 = s - 1 + j
    BY <1>1
  <2> QED
    BY <1>3, <1>4, <1>6, <1>7, <2>1
<1>9. Follows(t, 1, l)
  BY <1>7, <1>8 DEF Follows
<1> QED
  BY <1>1, <1>2, <1>4, <1>9 DEF Wired

(* The labels of a name that ends at its first empty label, and what is     *)
(* behind a dot of it.                                                      *)
LEMMA DotsOfPart ==
    ASSUME NEW d \in Seq(Byte), NEW f \in 0 .. Len(d), NEW i \in 0 .. f
    PROVE  DotsIn(SubSeq(d, 1, f), i) = Dots(d, 1, i)
<1>1. PICK m \in Nat : m = Len(d)
  BY LenProperties
<1>2. 1 \in 1 .. m + 1 /\ f \in 1 - 1 .. m /\ f - 1 + 1 = f
  BY <1>1
<1>3. \A j \in 1 .. f : SubSeq(d, 1, f)[j] = d[j]
  <2>1. \A j \in 1 .. f - 1 + 1 : SubSeq(d, 1, f)[j] = d[1 + j - 1]
    BY <1>1, <1>2, PieceOf
  <2>2. \A j \in 1 .. f : 1 + j - 1 = j
    OBVIOUS
  <2> QED
    BY <1>2, <2>1, <2>2
<1>4. \A j \in 1 .. i : j \in 1 .. f
  OBVIOUS
<1>5. {j \in 1 .. i : SubSeq(d, 1, f)[j] = Dot} = {j \in 1 .. i : d[j] = Dot}
  BY <1>3, <1>4
<1> QED
  BY <1>5 DEF DotsIn, Dots

LEMMA BehindDotIs ==
    ASSUME NEW d \in Seq(Byte), NEW f \in 1 .. Len(d), NEW b \in 1 .. f, d[b] = Dot
    PROVE  BehindDot(SubSeq(d, 1, f), Dots(d, 1, b)) = SubSeq(d, b + 1, f)
<1>1. PICK m \in Nat : m = Len(d)
  BY LenProperties
<1>2. PICK part : part = SubSeq(d, 1, f)
  OBVIOUS
<1>3. 1 \in 1 .. m + 1 /\ f \in 1 - 1 .. m /\ f - 1 + 1 = f
  BY <1>1
<1>4. part \in Seq(Byte) /\ Len(part) = f /\ \A j \in 1 .. f : part[j] = d[j]
  <2>1. /\ part \in Seq(Byte) /\ Len(part) = f - 1 + 1
        /\ \A j \in 1 .. f - 1 + 1 : part[j] = d[1 + j - 1]
    BY <1>1, <1>2, <1>3, PieceOf
  <2>2. \A j \in 1 .. f : 1 + j - 1 = j
    OBVIOUS
  <2> QED
    BY <1>3, <2>1, <2>2
<1>5. \A i \in 1 .. f : DotsIn(part, i) = Dots(d, 1, i)
  BY <1>2, DotsOfPart
<1> DEFINE S == {i \in 1 .. f : DotsIn(part, i) = Dots(d, 1, b)}
<1>6. S \in SUBSET Nat /\ b \in S
  BY <1>5
<1>7. ASSUME NEW i \in S PROVE b <= i
  <2>1. ASSUME i < b PROVE FALSE
    <3>1. Dots(d, 1, i) < Dots(d, 1, b)
      BY <2>1, DotsGrow
    <3>2. Dots(d, 1, i) = Dots(d, 1, b)
      BY <1>5
    <3>3. Dots(d, 1, b) \in Nat
      <4>1. 1 \in Int /\ b \in Int
        OBVIOUS
      <4> QED
        BY ONLY <4>1, DotsAre
    <3> QED
      BY <3>1, <3>2, <3>3
  <2> QED
    BY <2>1
<1>8. Least(S) = b
  <2> HIDE DEF S
  <2> QED
    BY <1>6, <1>7, LeastIsThat
<1>9. BehindDot(part, Dots(d, 1, b)) = SubSeq(part, b + 1, f)
  BY <1>4, <1>8 DEF BehindDot
<1>10. SubSeq(part, b + 1, f) = SubSeq(d, b + 1, f)
  <2>1. PICK x, y : x = SubSeq(part, b + 1, f) /\ y = SubSeq(d, b + 1, f)
    OBVIOUS
  <2>2. b + 1 \in 1 .. f + 1 /\ f \in (b + 1) - 1 .. f /\ b + 1 \in 1 .. m + 1 /\ f \in (b + 1) - 1 .. m
    BY <1>1
  <2>3. /\ x \in Seq(Byte) /\ Len(x) = f - (b + 1) + 1
        /\ \A i \in 1 .. f - (b + 1) + 1 : x[i] = part[b + 1 + i - 1]
    BY <1>4, <2>1, <2>2, PieceOf
  <2>4. /\ y \in Seq(Byte) /\ Len(y) = f - (b + 1) + 1
        /\ \A i \in 1 .. f - (b + 1) + 1 : y[i] = d[b + 1 + i - 1]
    BY <1>1, <2>1, <2>2, PieceOf
  <2>5. \A i \in 1 .. f - (b + 1) + 1 : b + 1 + i - 1 \in 1 .. f
    BY <1>1
  <2>6. \A i \in 1 .. Len(x) : x[i] = y[i]
    BY <1>4, <2>3, <2>4, <2>5
  <2>7. x = y
    BY <2>3, <2>4, <2>6, SeqEqual
  <2> QED
    BY <2>1, <2>7
<1> QED
  BY <1>2, <1>9, <1>10

\* Whatever the name, the zone is its last two labels, all of a shorter name,
\* and as much more of it as it has labels beyond MaxLabels
\* (getHostWireFromWire).
THEOREM ZonesAreFound == TextsSpec => []ZoneOfName
<1>1. text \in Seq(Bytes) => ZoneOfName
  <2> SUFFICES ASSUME text \in Seq(Bytes), LabelsFit(Domain(text)) PROVE ZoneOfName
    BY DEF ZoneOfName
  <2>1. PICK d \in Seq(Byte), wire \in Seq(Byte) : d = Domain(text) /\ wire = StringToWire(text)
    BY NameOnWire
  <2>2. PICK part : part = UpToEmptyLabel(d)
    OBVIOUS
  <2>3. PICK starts : starts = LabelStarts(wire)
    OBVIOUS
  <2>4. LabelsFit(d) /\ MaxLabels \in Nat /\ MaxLabels > 1 /\ Len(wire) \in Nat
    BY <2>1, ConversionsAssumption, LenProperties
  <2>5. ASSUME part = <<>>, Ends(wire, 1) PROVE ZoneOfName
    <3>1. starts = <<>>
      <4>1. 1 \in 1 .. Len(wire) + 1 /\ IsStarts(Starts(wire), wire)
        BY <2>4, StartsLoop
      <4> QED
        BY <2>3, <2>5, <4>1 DEF IsStarts, LabelStarts
    <3>2. AtMost(0, MaxLabels) = 0 /\ Len(starts) = 0
      BY <2>4, <3>1 DEF AtMost
    <3>3. HostWire(wire) = <<>>
      BY <2>3, <3>2 DEF HostWire
    <3>4. WireToDomain(<<>>) = <<>>
      BY DEF WireToDomain, Ends
    <3> QED
      BY <2>1, <2>2, <2>5, <3>2, <3>3, <3>4 DEF ZoneOfName
  <2>6. CASE d = <<>>
    <3>1. wire = Root /\ part = <<>>
      BY <2>1, <2>2, <2>6, NameOnWire
    <3>2. Ends(wire, 1)
      BY <3>1, RootIs DEF Ends
    <3> QED
      BY <2>5, <3>1, <3>2
  <2>7. CASE d # <<>>
    <3>1. 1 \in 1 .. Len(d) /\ Len(d) \in Nat
      BY <2>7, LenProperties, EmptySeq
    <3>2. Wired(wire, 1, d, 1) /\ part = SubSeq(d, 1, NameEnd(d, 1) - 1)
      BY <2>1, <2>2, <2>7, NameOnWire
    <3>3. CASE d[1] = Dot
      <4>1. WireToDomain(wire) = part
        BY <2>4, <3>1, <3>2, ReadBack
      <4>2. PICK e \in 1 .. Len(d) + 1 :
                e = LabelEnd(d, 1) /\ 1 \in 1 .. Len(wire) /\ wire[1] = e - 1
        BY <2>4, <3>1, <3>2, LabelOnWire
      <4>3. e = 1
        <5>1. \A i \in 1 .. e - 1 : d[i] # Dot
          BY <3>1, <4>2, LabelEndIs
        <5>2. 1 \notin 1 .. e - 1
          BY <3>3, <5>1
        <5> QED
          BY <3>1, <4>2, <5>2
      <4>4. Ends(wire, 1)
        BY <4>2, <4>3 DEF Ends
      <4>5. part = <<>>
        BY <4>1, <4>4 DEF WireToDomain
      <4> QED
        BY <2>5, <4>4, <4>5
    <3>4. CASE d[1] # Dot
      <4>1. StartsAre(starts, d, wire, 1)
        BY <2>3, <2>4, <3>1, <3>2, <3>4, StartsRead DEF LabelStarts
      <4>2. PICK f \in 1 .. Len(d) : f = NameEnd(d, 1) - 1
        <5>1. PICK e \in 1 + 1 .. Len(d) + 1, next \in 1 .. Len(wire) :
                  Label(d, wire, 1, 1, e, next)
          BY <2>4, <3>1, <3>2, <3>4, LabelStep
        <5>2. CASE NameEnd(d, 1) = e
          BY <3>1, <5>1, <5>2
        <5>3. CASE e + 1 \in 1 .. Len(d) /\ NameEnd(d, 1) = NameEnd(d, e + 1)
          <6>1. NameEnd(d, e + 1) \in e + 1 .. Len(d) + 1
            BY <5>3, NameEndIs
          <6> QED
            BY <3>1, <5>1, <5>3, <6>1
        <5> QED
          BY <5>1, <5>2, <5>3 DEF Label
      <4>3. PICK n \in Nat : n = Dots(d, 1, f) /\ Len(starts) = n + 1
        <5>1. Dots(d, 1, f) \in Nat
          <6>1. 1 \in Int /\ f \in Int
            OBVIOUS
          <6> QED
            BY ONLY <6>1, DotsAre
        <5> QED
          BY <4>1, <4>2, <5>1 DEF StartsAre
      <4>4. Len(part) = f /\ part # <<>> /\ DotsIn(part, f) = n
        <5>1. part = SubSeq(d, 1, f)
          BY <3>2, <4>2
        <5>2. 1 \in 1 .. Len(d) + 1 /\ f \in 1 - 1 .. Len(d) /\ f - 1 + 1 = f
          BY <3>1
        <5>3. part \in Seq(Byte) /\ Len(part) = f
          BY <5>1, <5>2, PieceOf
        <5>4. DotsIn(part, f) = n
          BY <4>3, <5>1, DotsOfPart
        <5> QED
          BY <4>2, <5>3, <5>4, EmptySeq
      <4>5. PICK counted \in Nat \ {0} :
                counted = AtMost(n + 1, MaxLabels) /\ counted <= n + 1
        BY <2>4, <4>3 DEF AtMost
      <4>6. HostWire(wire)
              = SubSeq(wire, IF counted > 2 THEN starts[counted - 1] ELSE 1, Len(wire))
        BY <2>3, <4>3, <4>5 DEF HostWire
      <4>7. ASSUME WireToDomain(HostWire(wire))
                     = IF counted <= 2 THEN part ELSE BehindDot(part, counted - 2)
            PROVE  ZoneOfName
        BY <2>1, <2>2, <4>4, <4>5, <4>7 DEF ZoneOfName
      <4>8. CASE counted <= 2
        <5>1. SubSeq(wire, 1, Len(wire)) = wire
          BY SubSeqFull
        <5>2. HostWire(wire) = wire
          BY <4>5, <4>6, <4>8, <5>1
        <5>3. WireToDomain(wire) = part
          BY <2>4, <3>1, <3>2, ReadBack
        <5> QED
          BY <4>7, <4>8, <5>2, <5>3
      <4>9. CASE counted > 2
        <5>1. counted - 1 \in 1 .. Len(starts)
          BY <4>3, <4>5, <4>9
        <5>2. PICK r \in 1 .. Len(d) :
                  Nth(d, wire, 1, counted - 1, starts[counted - 1], r)
          BY <4>1, <5>1 DEF StartsAre
        <5>3. PICK s : s = starts[counted - 1]
          OBVIOUS
        <5>4. /\ Wired(wire, s, d, r) /\ d[r] # Dot /\ NameEnd(d, r) = NameEnd(d, 1)
              /\ Dots(d, 1, r - 1) = counted - 1 - 1 /\ (r = 1 \/ d[r - 1] = Dot)
          BY <5>2, <5>3 DEF Nth
        <5>5. s \in 1 .. Len(wire)
          BY <2>4, <5>4, DottedBack
        <5>6. PICK host \in Seq(Byte) : host = HostWire(wire) /\ Wired(host, 1, d, r)
          <6>1. HostWire(wire) = SubSeq(wire, s, Len(wire))
            BY <4>6, <4>9, <5>3
          <6> QED
            BY <5>4, <5>5, <6>1, SuffixFollows
        <5>7. WireToDomain(host) = SubSeq(d, r, NameEnd(d, r) - 1)
          BY <2>4, <5>4, <5>6, ReadBack
        <5>8. PICK b \in 1 .. f : b = r - 1 /\ d[b] = Dot /\ Dots(d, 1, b) = counted - 2
          <6>1. r # 1
            <7>1. ASSUME r = 1 PROVE FALSE
              <8>1. \A i \in 1 .. 0 : FALSE
                OBVIOUS
              <8>2. Dots(d, 1, 0) = 0
                BY <8>1, NoDots
              <8> QED
                BY <4>9, <5>4, <7>1, <8>2
            <7> QED
              BY <7>1
          <6>2. NameEnd(d, r) \in r .. Len(d) + 1
            BY NameEndIs
          <6>3. r - 1 \in 1 .. f
            BY <3>1, <4>2, <5>4, <6>1, <6>2
          <6> QED
            BY <5>4, <6>1, <6>3
        <5>9. BehindDot(part, counted - 2) = SubSeq(d, r, f)
          <6>1. BehindDot(SubSeq(d, 1, f), Dots(d, 1, b)) = SubSeq(d, b + 1, f)
            BY <5>8, BehindDotIs
          <6>2. b + 1 = r /\ part = SubSeq(d, 1, f)
            BY <3>2, <4>2, <5>8
          <6> QED
            BY <5>8, <6>1, <6>2
        <5>10. NameEnd(d, r) - 1 = f
          BY <4>2, <5>4
        <5> QED
          BY <4>7, <4>9, <5>6, <5>7, <5>9, <5>10
      <4> QED
        BY <4>5, <4>8, <4>9
    <3> QED
      BY <3>3, <3>4
  <2> QED
    BY <2>6, <2>7
<1> QED
  BY <1>1, TextIsText, PTL
=============================================================================
