-------------------------- MODULE CacheFillProofs --------------------------
(***************************************************************************)
(* The invariants of CacheFill for any names, records, queues and notices. *)
(*                                                                         *)
(* A copy of a row that is under way may be old.  It does no harm as long  *)
(* as the id is cached, since append_record then refuses it, or a notice   *)
(* is under way that will replace it; and the last notice of an id says    *)
(* what the database has.                                                  *)
(***************************************************************************)
EXTENDS CacheFillProperties, SequenceTheorems, TLAPS

\* fills the queue or the operational thread holds
Waiting ==
    {recordQueue[i] : i \in DOMAIN recordQueue} \cup (IF hand = NoFill THEN {} ELSE {hand})

\* notices on their way or being carried out
Posted ==
    {notices[i] : i \in DOMAIN notices} \cup (IF task = NoNotice THEN {} ELSE {task})

-----------------------------------------------------------------------------
(* Sequences *)

LEMMA HeadAndTail ==
    ASSUME NEW S, NEW seq \in Seq(S), seq # <<>>
    PROVE  /\ Head(seq) \in S /\ Tail(seq) \in Seq(S)
           /\ 1 \in DOMAIN seq /\ Head(seq) = seq[1]
           /\ DOMAIN Tail(seq) = 1 .. Len(seq) - 1 /\ DOMAIN seq = 1 .. Len(seq)
           /\ \A i \in DOMAIN Tail(seq) : i + 1 \in DOMAIN seq /\ Tail(seq)[i] = seq[i + 1]
           /\ \A i \in DOMAIN seq : i = 1 \/ (i - 1 \in DOMAIN Tail(seq) /\ Tail(seq)[i - 1] = seq[i])
           /\ {seq[i] : i \in DOMAIN seq} =
                  {Tail(seq)[i] : i \in DOMAIN Tail(seq)} \cup {Head(seq)}
<1>1. Len(seq) \in Nat \ {0} /\ DOMAIN seq = 1 .. Len(seq)
  BY EmptySeq, LenProperties
<1>2. /\ Head(seq) = seq[1] /\ Tail(seq) \in Seq(S) /\ Len(Tail(seq)) = Len(seq) - 1
      /\ \A i \in 1 .. Len(Tail(seq)) : Tail(seq)[i] = seq[i + 1]
  BY HeadTailProperties
<1>3. DOMAIN Tail(seq) = 1 .. Len(seq) - 1
  BY <1>2, LenProperties
<1>4. Head(seq) \in S
  BY <1>1, <1>2, ElementOfSeq
<1>5. \A i \in DOMAIN Tail(seq) : i + 1 \in DOMAIN seq /\ Tail(seq)[i] = seq[i + 1]
  BY <1>1, <1>2, <1>3
<1>6. \A i \in DOMAIN seq :
          i = 1 \/ (i - 1 \in DOMAIN Tail(seq) /\ Tail(seq)[i - 1] = seq[i])
  <2>1. ASSUME NEW i \in DOMAIN seq, i # 1
        PROVE  i - 1 \in 1 .. Len(seq) - 1 /\ (i - 1) + 1 = i
    BY <1>1, <2>1
  <2> QED
    BY <1>3, <1>5, <2>1
<1>7. 1 \in DOMAIN seq
  BY <1>1
<1>8. ASSUME NEW i \in DOMAIN seq
      PROVE  seq[i] \in {Tail(seq)[j] : j \in DOMAIN Tail(seq)} \cup {Head(seq)}
  <2>1. CASE i = 1
    BY <1>2, <2>1
  <2>2. CASE i - 1 \in DOMAIN Tail(seq) /\ Tail(seq)[i - 1] = seq[i]
    BY <2>2, Zenon
  <2> QED
    BY <1>6, <2>1, <2>2
<1>9. ASSUME NEW x \in {Tail(seq)[j] : j \in DOMAIN Tail(seq)} \cup {Head(seq)}
      PROVE  x \in {seq[i] : i \in DOMAIN seq}
  <2>1. CASE x = Head(seq)
    BY <1>2, <1>7, <2>1, Zenon
  <2>2. ASSUME NEW j \in DOMAIN Tail(seq), x = Tail(seq)[j]
        PROVE  x \in {seq[i] : i \in DOMAIN seq}
    BY <1>5, <2>2, Zenon
  <2> QED
    BY <2>1, <2>2
<1>10. {seq[i] : i \in DOMAIN seq} =
           {Tail(seq)[i] : i \in DOMAIN Tail(seq)} \cup {Head(seq)}
  BY <1>8, <1>9, Zenon
<1> QED
  BY <1>1, <1>2, <1>3, <1>4, <1>5, <1>6, <1>7, <1>10

LEMMA Appending ==
    ASSUME NEW S, NEW seq \in Seq(S), NEW x \in S
    PROVE  /\ Append(seq, x) \in Seq(S)
           /\ DOMAIN Append(seq, x) = 1 .. Len(seq) + 1 /\ DOMAIN seq = 1 .. Len(seq)
           /\ Len(seq) \in Nat
           /\ \A i \in DOMAIN seq : Append(seq, x)[i] = seq[i]
           /\ Append(seq, x)[Len(seq) + 1] = x
           /\ {Append(seq, x)[i] : i \in DOMAIN Append(seq, x)} =
                  {seq[i] : i \in DOMAIN seq} \cup {x}
<1>1. /\ Append(seq, x) \in Seq(S) /\ Len(Append(seq, x)) = Len(seq) + 1
      /\ \A i \in 1 .. Len(seq) : Append(seq, x)[i] = seq[i]
      /\ Append(seq, x)[Len(seq) + 1] = x
  BY AppendProperties
<1>2. Len(seq) \in Nat /\ DOMAIN seq = 1 .. Len(seq)
  BY LenProperties
<1>3. DOMAIN Append(seq, x) = 1 .. Len(seq) + 1
  BY <1>1, LenProperties
<1>4. 1 .. Len(seq) + 1 = (1 .. Len(seq)) \cup {Len(seq) + 1}
  BY <1>2
<1>5. {Append(seq, x)[i] : i \in DOMAIN Append(seq, x)} =
          {seq[i] : i \in DOMAIN seq} \cup {x}
  BY <1>1, <1>2, <1>3, <1>4
<1> QED
  BY <1>1, <1>2, <1>3, <1>5

-----------------------------------------------------------------------------
(* Types *)

LEMMA Contents ==
    /\ Versions \subseteq Nat /\ 1 \in Versions /\ Future \notin Versions
    /\ Gone \notin Versions /\ Gone # Future /\ Gone \in Nat /\ Future \in Nat
    /\ \A v \in Versions : Future < v /\ v < Gone
BY FillAssumption DEF FillAssumption, Versions, Gone, Future

LEMMA PutKeeps ==
    ASSUME Cache!Consistent, NEW id \in Ids, NEW v \in Versions, AppendRecord(id, v)
    PROVE  Cache!Consistent'
BY FillAssumption DEF FillAssumption, AppendRecord, Cache!Consistent, Cache!Put,
    Cache!WithId, Cache!Record

LEMMA DropKeeps ==
    ASSUME Cache!Consistent, NEW id \in Ids, DeleteRecord(id)
    PROVE  Cache!Consistent'
BY DEF DeleteRecord, Cache!Consistent, Cache!Drop, Cache!WithId, IsCached

LEMMA ReviseKeeps ==
    ASSUME Cache!Consistent, NEW id \in Ids, NEW v \in Versions, Cache!Revise(id, v)
    PROVE  Cache!Consistent'
BY DEF Cache!Consistent, Cache!Revise, Cache!WithId, Cache!Record

LEMMA RowsAreFills == ASSUME TypeOK, NEW k PROVE RowsOf(k) \subseteq Fill
BY DEF TypeOK, RowsOf, Live, Fill

QueryTypes ==
    /\ pc \in {"idle", "counting", "reading", "queueing", "deleting", "appending"}
    /\ wanted \in Keys \cup {NoKey} /\ asked \in Keys \cup {NoKey}
    /\ fell \in BOOLEAN /\ lacked \in BOOLEAN
    /\ wanted # NoKey <=> (pc \in {"counting", "reading", "queueing"})

LEMMA NothingReadTypes ==
    ASSUME TypeOK, pc \in {"counting", "reading"}, NEW failed \in BOOLEAN,
           NothingRead(failed)
    PROVE  QueryTypes' /\ pc' \in {"idle", "counting"}
<1>. wanted \in Keys /\ Fallback[wanted] \in Keys \cup {NoKey}
  BY FillAssumption DEF TypeOK, FillAssumption
<1>1. CASE Done
  BY <1>1 DEF Done, QueryTypes
<1>2. CASE ~Done
  BY <1>2 DEF NothingRead, QueryTypes, TypeOK
<1> QED
  BY <1>1, <1>2

LEMMA QueryStepTypes ==
    ASSUME TypeOK,
           \/ \E k \in Keys : Miss(k)
           \/ Count \/ ReadRows \/ ReadNothing
    PROVE  TypeOK'
<1>1. ASSUME NEW k \in Keys, Miss(k) PROVE TypeOK'
  <2>1. fell' \in BOOLEAN /\ lacked' \in BOOLEAN
    BY <1>1, Zenon DEF Miss
  <2>2. /\ wanted' = k /\ asked' = k /\ k # NoKey /\ pc = "idle"
        /\ pc' \in {"reading", "counting"}
    BY <1>1, FillAssumption DEF Miss, FillAssumption
  <2> QED
    BY <1>1, <2>1, <2>2 DEF Miss, TypeOK, history, Cache!Consistent
<1>2. CASE Count
  <2>1. QueryTypes' /\ pc' \in {"idle", "counting", "reading"}
    BY <1>2, NothingReadTypes DEF Count, query, QueryTypes, TypeOK
  <2> QED
    BY <1>2, <2>1 DEF Count, TypeOK, QueryTypes, history, Cache!Consistent
<1>3. CASE ReadRows
  <2>1. rows' \subseteq Fill
    BY <1>3, RowsAreFills DEF ReadRows
  <2>2. /\ QueryTypes'
        /\ rows' # {} <=> (pc' = "queueing")
        /\ pc' \in {"idle", "counting", "queueing"}
    BY <1>3, NothingReadTypes DEF ReadRows, query, QueryTypes, TypeOK
  <2> QED
    BY <1>3, <2>1, <2>2 DEF ReadRows, TypeOK, QueryTypes, history, Cache!Consistent
<1>4. CASE ReadNothing
  <2>1. QueryTypes' /\ pc' \in {"idle", "counting"}
    BY <1>4, NothingReadTypes DEF ReadNothing
  <2> QED
    BY <1>4, <2>1 DEF ReadNothing, TypeOK, QueryTypes, history, Cache!Consistent
<1> QED
  BY <1>1, <1>2, <1>3, <1>4

LEMMA FillStepTypes ==
    ASSUME TypeOK,
           \/ \E f \in rows : AddQueueForRecord(f)
           \/ PopRecord \/ AppendFill
    PROVE  TypeOK'
<1>1. ASSUME NEW f \in rows, AddQueueForRecord(f) PROVE TypeOK'
  <2>1. recordQueue' \in Seq(Fill)
    BY <1>1, Appending DEF AddQueueForRecord, TypeOK
  <2>2. /\ QueryTypes'
        /\ rows' # {} <=> (pc' = "queueing")
        /\ pc' \in {"idle", "queueing"} /\ rows' \subseteq Fill
    BY <1>1 DEF AddQueueForRecord, Done, query, QueryTypes, TypeOK
  <2>3. UNCHANGED <<db, cache, hand, task, notices, overtaken, dropped, seeded>>
    BY <1>1 DEF AddQueueForRecord, history
  <2> QED
    BY <1>1, <2>1, <2>2, <2>3 DEF TypeOK, QueryTypes, Cache!Consistent
<1>2. CASE PopRecord
  <2>1. hand' \in Fill /\ recordQueue' \in Seq(Fill)
    BY <1>2, HeadAndTail DEF PopRecord, TypeOK
  <2> QED
    BY <1>2, <2>1 DEF PopRecord, TypeOK, worker, query, history, Cache!Consistent
<1>3. CASE AppendFill
  <2>1. hand \in Fill /\ hand.id \in Ids /\ hand.value \in Versions
    BY <1>3 DEF AppendFill, TypeOK, Fill
  <2>2. Cache!Consistent'
    BY <1>3, <2>1, PutKeeps DEF AppendFill, TypeOK
  <2>3. dropped' \subseteq Ids
    BY <1>3, <2>1 DEF AppendFill, TypeOK
  <2> QED
    BY <1>3, <2>2, <2>3 DEF AppendFill, TypeOK, worker, query
<1> QED
  BY <1>1, <1>2, <1>3

LEMMA NoticeFields ==
    \A n \in Notice : n.id \in Ids /\ n.value \in Versions /\ n.op \in {"add", "update", "delete"}
BY DEF Notice

LEMMA KeysOf ==
    ASSUME NEW id \in Ids
    PROVE  Owner[id] \in Keys /\ Seeds(id) \subseteq Keys
BY FillAssumption DEF FillAssumption, Seeds

LEMMA SyncStepTypes ==
    ASSUME TypeOK,
           \/ \E n \in Notice : SyncAdd(n) \/ SyncUpdate(n) \/ SyncReplace(n) \/ SyncDelete(n)
           \/ ReplaceDelete \/ ReplaceAppend \/ LoseNotice
    PROVE  TypeOK'
<1>1. ASSUME NEW n \in Notice, SyncAdd(n) PROVE TypeOK'
  <2>1. notices' \in Seq(Notice)
    BY <1>1, HeadAndTail DEF SyncAdd, Take, TypeOK
  <2>2. Cache!Consistent'
    BY <1>1, NoticeFields, PutKeeps DEF SyncAdd, TypeOK
  <2> QED
    BY <1>1, <2>1, <2>2, NoticeFields, KeysOf DEF SyncAdd, TypeOK, worker, query
<1>2. ASSUME NEW n \in Notice, SyncUpdate(n) PROVE TypeOK'
  <2>1. notices' \in Seq(Notice)
    BY <1>2, HeadAndTail DEF SyncUpdate, Take, TypeOK
  <2>2. Cache!Consistent'
    BY <1>2, NoticeFields, ReviseKeeps DEF SyncUpdate, TypeOK
  <2> QED
    BY <1>2, <2>1, <2>2 DEF SyncUpdate, TypeOK, worker, query, history
<1>3. ASSUME NEW n \in Notice, SyncReplace(n) PROVE TypeOK'
  <2>1. notices' \in Seq(Notice) /\ pc = "idle"
    BY <1>3, HeadAndTail DEF SyncReplace, Take, TypeOK
  <2>2. n # NoNotice
    BY FillAssumption DEF FillAssumption
  <2> QED
    BY <1>3, <2>1, <2>2 DEF SyncReplace, TypeOK, query, history, Cache!Consistent
<1>4. ASSUME NEW n \in Notice, SyncDelete(n) PROVE TypeOK'
  <2>1. notices' \in Seq(Notice)
    BY <1>4, HeadAndTail DEF SyncDelete, Take, TypeOK
  <2>2. Cache!Consistent'
    BY <1>4, NoticeFields, DropKeeps DEF SyncDelete, TypeOK
  <2> QED
    BY <1>4, <2>1, <2>2, NoticeFields DEF SyncDelete, TypeOK, worker, query
<1>5. CASE ReplaceDelete
  <2>1. task \in Notice
    BY <1>5 DEF ReplaceDelete, TypeOK
  <2>2. Cache!Consistent'
    BY <1>5, <2>1, NoticeFields, DropKeeps DEF ReplaceDelete, TypeOK
  <2> QED
    BY <1>5, <2>1, <2>2 DEF ReplaceDelete, TypeOK, query
<1>6. CASE ReplaceAppend
  <2>1. task \in Notice
    BY <1>6 DEF ReplaceAppend, TypeOK
  <2>2. Cache!Consistent'
    BY <1>6, <2>1, NoticeFields, PutKeeps DEF ReplaceAppend, TypeOK
  <2>3. dropped' \subseteq Ids /\ overtaken' \subseteq Ids /\ seeded' \subseteq Keys
    BY <1>6, <2>1, NoticeFields, KeysOf DEF ReplaceAppend, TypeOK
  <2> QED
    BY <1>6, <2>2, <2>3 DEF ReplaceAppend, TypeOK, query
<1>7. CASE LoseNotice
  <2>1. notices' \in Seq(Notice) /\ Head(notices).id \in Ids
    BY <1>7, HeadAndTail, NoticeFields DEF LoseNotice, TypeOK
  <2> QED
    BY <1>7, <2>1 DEF LoseNotice, TypeOK, worker, query, Cache!Consistent
<1> QED
  BY <1>1, <1>2, <1>3, <1>4, <1>5, <1>6, <1>7

\* the notice an edit posts
NewNotice(id, v, op) ==
    [op |-> op, id |-> id, value |-> IF v = Gone THEN db[id] ELSE v]

LEMMA ControlPlaneEdits ==
    ASSUME TypeOK, NEW id \in Ids, Create(id) \/ Change(id) \/ Remove(id)
    PROVE  \E v \in Versions \cup {Gone}, op \in {"add", "update", "delete"} :
               /\ Edit(id, v, op) /\ db[id] < v /\ db[id] # Gone
               /\ op = "add" => v = 1
               /\ op = "delete" => v = Gone
               /\ v = Gone => op = "delete"
               /\ op # "add" => Live(id)
               /\ NewNotice(id, v, op) \in Notice
<1>1. CASE Create(id)
  <2>1. Edit(id, 1, "add") /\ db[id] < 1 /\ db[id] # Gone /\ 1 # Gone /\ 1 \in Versions
    BY <1>1, Contents DEF Create, Future
  <2>2. NewNotice(id, 1, "add") \in Notice
    BY <2>1 DEF NewNotice, Notice
  <2> QED
    BY <2>1, <2>2
<1>2. CASE Change(id)
  <2>1. /\ Edit(id, db[id] + 1, "update") /\ db[id] < db[id] + 1
        /\ db[id] \in Versions /\ db[id] + 1 \in Versions
        /\ db[id] # Gone /\ db[id] + 1 # Gone
    BY <1>2, FillAssumption, Contents DEF Change, Versions, Gone, FillAssumption
  <2>2. NewNotice(id, db[id] + 1, "update") \in Notice
    BY <2>1 DEF NewNotice, Notice
  <2> QED
    BY <2>1, <2>2 DEF Live
<1>3. CASE Remove(id)
  <2>1. Edit(id, Gone, "delete") /\ db[id] < Gone /\ db[id] # Gone /\ db[id] \in Versions
    BY <1>3, Contents DEF Remove, Live
  <2>2. NewNotice(id, Gone, "delete") \in Notice
    BY <2>1 DEF NewNotice, Notice
  <2> QED
    BY <2>1, <2>2 DEF Live
<1> QED
  BY <1>1, <1>2, <1>3

LEMMA EditTypes ==
    ASSUME TypeOK, NEW id \in Ids, NEW v \in Versions \cup {Gone},
           NEW op, NewNotice(id, v, op) \in Notice, Edit(id, v, op)
    PROVE  TypeOK'
<1>1. notices' \in Seq(Notice)
  BY Appending DEF Edit, NewNotice, TypeOK
<1>2. db' \in [Ids -> Versions \cup {Future, Gone}]
  BY DEF Edit, TypeOK
<1>3. lacked' \in BOOLEAN
  BY DEF Edit, TypeOK
<1> QED
  BY <1>1, <1>2, <1>3 DEF Edit, TypeOK, history, Cache!Consistent

(* TypeOK for any keys, ids, queue and notices: each step keeps the types   *)
(* and where the worker is agrees with what it holds.                       *)
THEOREM FillTypes == Spec => []TypeOK
<1>1. Init => TypeOK
  <2> SUFFICES ASSUME Init PROVE TypeOK
    OBVIOUS
  <2>1. db \in [Ids -> Versions \cup {Future, Gone}]
    BY Contents DEF Init
  <2>2. /\ recordQueue \in Seq(Fill) /\ notices \in Seq(Notice)
        /\ Cache!Consistent
    BY EmptySeq DEF Init, Cache!Consistent
  <2> QED
    BY <2>1, <2>2 DEF Init, TypeOK
<1>2. TypeOK /\ [Next]_vars => TypeOK'
  <2> SUFFICES ASSUME TypeOK, [Next]_vars PROVE TypeOK'
    OBVIOUS
  <2>1. CASE Worker
    <3>1. CASE \E k \in Keys : Hit(k)
      BY <3>1 DEF Hit, vars, TypeOK, Cache!Consistent
    <3> QED
      BY <2>1, <3>1, QueryStepTypes, FillStepTypes, SyncStepTypes DEF Worker
  <2>2. CASE Operational
    BY <2>2, FillStepTypes DEF Operational
  <2>3. CASE ControlPlane
    BY <2>3, ControlPlaneEdits, EditTypes, SyncStepTypes DEF ControlPlane
  <2>4. CASE UNCHANGED vars
    BY <2>4 DEF vars, TypeOK, Cache!Consistent
  <2> QED
    BY <2>1, <2>2, <2>3, <2>4 DEF Next
<1> QED
  BY <1>1, <1>2, PTL DEF Spec

-----------------------------------------------------------------------------
(* The fallback to DEFAULT *)

QueryInv ==
    /\ wanted # NoKey => fell \/ asked = wanted
    /\ wanted # NoKey /\ RowsOf(wanted) = {} => lacked
    /\ fell => lacked

LEMMA NothingReadQueries ==
    ASSUME TypeOK, QueryInv, pc \in {"counting", "reading"}, UNCHANGED db,
           NEW failed \in BOOLEAN, NothingRead(failed),
           failed \/ RowsOf(asked) = {}
    PROVE  QueryInv'
<1>1. CASE Done
  BY <1>1, FillAssumption DEF Done, QueryInv
<1>2. CASE ~Done
  <2>1. /\ ~fell /\ wanted # NoKey /\ fell' /\ wanted' = wanted
        /\ lacked' <=> lacked \/ failed
    BY <1>2 DEF NothingRead, TypeOK
  <2>2. lacked'
    BY <2>1 DEF QueryInv
  <2> QED
    BY <2>1, <2>2 DEF QueryInv
<1> QED
  BY <1>1, <1>2

LEMMA QuerySteps ==
    ASSUME TypeOK, QueryInv, [Next]_vars
    PROVE  QueryInv'
<1>1. ASSUME NEW k \in Keys, Miss(k) PROVE QueryInv'
  <2>1. /\ wanted' = k /\ asked' = k /\ ~fell' /\ db' = db
        /\ lacked' <=> RowsOf(k) = {}
    BY <1>1 DEF Miss
  <2>2. RowsOf(wanted)' = RowsOf(k)
    BY <2>1 DEF RowsOf, Live
  <2> QED
    BY <2>1, <2>2 DEF QueryInv
<1>2. CASE Count
  <2>1. CASE RowsOf(asked) # {}
    BY <1>2, <2>1 DEF Count, query, QueryInv, RowsOf, Live
  <2>2. CASE RowsOf(asked) = {}
    BY <1>2, <2>2, NothingReadQueries DEF Count
  <2> QED
    BY <2>1, <2>2
<1>3. CASE ReadRows
  <2>1. CASE RowsOf(asked) # {}
    BY <1>3, <2>1 DEF ReadRows, query, QueryInv, RowsOf, Live
  <2>2. CASE RowsOf(asked) = {}
    BY <1>3, <2>2, NothingReadQueries DEF ReadRows
  <2> QED
    BY <2>1, <2>2
<1>4. CASE ReadNothing
  BY <1>4, NothingReadQueries DEF ReadNothing
<1>5. ASSUME NEW f \in rows, AddQueueForRecord(f) PROVE QueryInv'
  <2>1. CASE Done
    BY <2>1 DEF Done, QueryInv
  <2>2. CASE UNCHANGED query
    BY <1>5, <2>2 DEF AddQueueForRecord, query, QueryInv, RowsOf, Live
  <2> QED
    BY <1>5, <2>1, <2>2 DEF AddQueueForRecord
<1>6. ASSUME NEW id \in Ids, NEW v, NEW op, Edit(id, v, op) PROVE QueryInv'
  <2>1. /\ UNCHANGED <<wanted, asked, fell>>
        /\ lacked' <=> lacked \/ (wanted # NoKey /\ RowsOf(wanted)' = {})
    BY <1>6 DEF Edit, TypeOK
  <2> QED
    BY <2>1 DEF QueryInv
<1>7. CASE UNCHANGED <<db, query>>
  BY <1>7 DEF query, QueryInv, RowsOf, Live
<1>8. ASSUME NEW n \in Notice, SyncAdd(n) \/ SyncUpdate(n) \/ SyncReplace(n) \/ SyncDelete(n)
      PROVE  QueryInv'
  BY <1>7, <1>8 DEF SyncAdd, SyncUpdate, SyncReplace, SyncDelete, worker
<1>9. CASE \/ \E k \in Keys : Hit(k)
           \/ ReplaceDelete \/ ReplaceAppend \/ Operational \/ LoseNotice
           \/ UNCHANGED vars
  BY <1>7, <1>9
  DEF Hit, ReplaceDelete, ReplaceAppend, Operational, PopRecord, AppendFill,
      LoseNotice, vars, worker, query
<1> QED
  BY <1>1, <1>2, <1>3, <1>4, <1>5, <1>6, <1>8, <1>9, ControlPlaneEdits
  DEF Next, Worker, ControlPlane, Create, Change, Remove

(* FallbackOnlyIfLacking for any keys and fallbacks: until DEFAULT's turn   *)
(* the worker reads for the key that was wanted, and whenever that key has  *)
(* no row the query has noted it.                                           *)
THEOREM FillFallsBackOnlyIfLacking == Spec => []FallbackOnlyIfLacking
<1>1. Init => QueryInv
  BY DEF Init, QueryInv
<1>2. TypeOK /\ QueryInv /\ [Next]_vars => QueryInv'
  BY QuerySteps
<1>3. QueryInv => FallbackOnlyIfLacking
  BY DEF QueryInv, FallbackOnlyIfLacking
<1> QED
  BY <1>1, <1>2, <1>3, FillTypes, PTL DEF Spec

-----------------------------------------------------------------------------
(* What the steps do to the fills and notices under way, as sets, and to   *)
(* the cache.                                                              *)

LEMMA UnderWay ==
    ASSUME TypeOK
    PROVE  /\ Waiting \subseteq Fill /\ Posted \subseteq Notice
           /\ \A id : InFlight(id) <=> \E f \in Waiting : f.id = id
           /\ \A id : Notified(id) <=> \E n \in Posted : n.id = id
<1>1. /\ \A i \in DOMAIN recordQueue : recordQueue[i] \in Fill
      /\ \A i \in DOMAIN notices : notices[i] \in Notice
  BY ElementOfSeq, LenProperties DEF TypeOK
<1>2. Waiting \subseteq Fill /\ Posted \subseteq Notice
  BY <1>1 DEF Waiting, Posted, TypeOK
<1>3. \A id : InFlight(id) <=> \E f \in Waiting : f.id = id
  BY DEF InFlight, Waiting
<1>4. \A id : Notified(id) <=> \E n \in Posted : n.id = id
  BY DEF Notified, Posted
<1> QED
  BY <1>2, <1>3, <1>4

LEMMA PushEffect ==
    ASSUME TypeOK, NEW f \in rows, AddQueueForRecord(f)
    PROVE  Waiting' = Waiting \cup {f} /\ rows' \subseteq rows /\ Posted' = Posted
<1>1. {Append(recordQueue, f)[i] : i \in DOMAIN Append(recordQueue, f)} =
          {recordQueue[i] : i \in DOMAIN recordQueue} \cup {f}
  BY Appending DEF TypeOK
<1>2. /\ recordQueue' = Append(recordQueue, f) /\ rows' \subseteq rows
      /\ hand' = hand /\ notices' = notices /\ task' = task
  BY DEF AddQueueForRecord
<1>3. {recordQueue'[i] : i \in DOMAIN recordQueue'} =
          {recordQueue[i] : i \in DOMAIN recordQueue} \cup {f}
  BY <1>1, <1>2, Zenon
<1> QED
  BY <1>2, <1>3 DEF Waiting, Posted

LEMMA PopEffect ==
    ASSUME TypeOK, PopRecord
    PROVE  Waiting' = Waiting /\ Posted' = Posted
<1>1. /\ hand = NoFill /\ hand' = Head(recordQueue) /\ recordQueue' = Tail(recordQueue)
      /\ notices' = notices /\ task' = task
  BY DEF PopRecord, worker
<1>2. /\ Head(recordQueue) \in Fill
      /\ {recordQueue[i] : i \in DOMAIN recordQueue} =
             {Tail(recordQueue)[i] : i \in DOMAIN Tail(recordQueue)} \cup {Head(recordQueue)}
  BY HeadAndTail DEF PopRecord, TypeOK
<1>3. hand' # NoFill
  BY <1>1, <1>2, FillAssumption DEF FillAssumption
<1>4. {recordQueue[i] : i \in DOMAIN recordQueue} =
          {recordQueue'[i] : i \in DOMAIN recordQueue'} \cup {hand'}
  BY <1>1, <1>2, Zenon
<1> QED
  BY <1>1, <1>3, <1>4 DEF Waiting, Posted

LEMMA AppendFillEffect ==
    ASSUME TypeOK, AppendFill
    PROVE  Waiting = Waiting' \cup {hand} /\ Posted' = Posted /\ hand \in Fill
BY DEF AppendFill, Waiting, Posted, TypeOK, worker

\* with what the last notice of an id says
Announces(n) == n.op = "delete" \/ n.value = db[n.id]

LatestInv ==
    /\ \A i \in DOMAIN notices :
           (\A j \in DOMAIN notices : j > i => notices[j].id # notices[i].id)
               => Announces(notices[i])
    /\ task # NoNotice /\ (\A j \in DOMAIN notices : notices[j].id # task.id)
           => Announces(task) \/ task.id \in overtaken

\* the head of the notices goes
LEMMA HeadGoes ==
    ASSUME TypeOK, LatestInv, notices # <<>>, notices' = Tail(notices), UNCHANGED db
    PROVE  /\ \A i \in DOMAIN notices' :
                  (\A j \in DOMAIN notices' : j > i => notices'[j].id # notices'[i].id)
                      => Announces(notices[i])'
           /\ \/ \E j \in DOMAIN notices' : notices'[j].id = Head(notices).id
              \/ Announces(Head(notices))
           /\ {notices[i] : i \in DOMAIN notices} =
                  {notices'[i] : i \in DOMAIN notices'} \cup {Head(notices)}
           /\ Head(notices) \in Notice
<1>. DEFINE S == Tail(notices)
<1>1. /\ Head(notices) \in Notice
      /\ 1 \in DOMAIN notices /\ Head(notices) = notices[1]
      /\ DOMAIN S = 1 .. Len(notices) - 1 /\ DOMAIN notices = 1 .. Len(notices)
      /\ \A i \in DOMAIN S : i + 1 \in DOMAIN notices /\ S[i] = notices[i + 1]
      /\ \A i \in DOMAIN notices : i = 1 \/ (i - 1 \in DOMAIN S /\ S[i - 1] = notices[i])
      /\ {notices[i] : i \in DOMAIN notices} = {S[i] : i \in DOMAIN S} \cup {Head(notices)}
  BY HeadAndTail DEF TypeOK
<1>2. ASSUME NEW i \in DOMAIN S, \A j \in DOMAIN S : j > i => S[j].id # S[i].id
      PROVE  Announces(notices[i + 1])
  <2>1. i + 1 \in DOMAIN notices /\ i \in Nat
    BY <1>1
  <2>2. ASSUME NEW j \in DOMAIN notices, j > i + 1
        PROVE  notices[j].id # notices[i + 1].id
    <3>1. j # 1 /\ j - 1 > i
      BY <1>1, <2>1, <2>2
    <3> QED
      BY <1>1, <1>2, <3>1
  <2> QED
    BY <2>1, <2>2 DEF LatestInv
<1>3. ASSUME \A j \in DOMAIN S : S[j].id # Head(notices).id
      PROVE  Announces(Head(notices))
  <2>1. ASSUME NEW j \in DOMAIN notices, j > 1 PROVE notices[j].id # notices[1].id
    BY <1>1, <1>3, <2>1
  <2> QED
    BY <1>1, <2>1 DEF LatestInv
<1>4. \A n : Announces(n) => n.op = "delete" \/ n.value = db'[n.id]
  BY DEF Announces
<1>5. ASSUME NEW i \in DOMAIN S, \A j \in DOMAIN S : j > i => S[j].id # S[i].id
      PROVE  S[i].op = "delete" \/ S[i].value = db'[S[i].id]
  BY <1>1, <1>2, <1>4, <1>5
<1>. HIDE DEF S
<1>6. \A i \in DOMAIN notices' :
          (\A j \in DOMAIN notices' : j > i => notices'[j].id # notices'[i].id)
              => Announces(notices[i])'
  BY <1>5 DEF Announces, S
<1>7. \/ \E j \in DOMAIN notices' : notices'[j].id = Head(notices).id
      \/ Announces(Head(notices))
  BY <1>3 DEF S
<1>8. notices' = S
  BY DEF S
<1>9. {notices[i] : i \in DOMAIN notices} =
          {notices'[i] : i \in DOMAIN notices'} \cup {Head(notices)}
  <2>1. \A n : (\E i \in DOMAIN notices : n = notices[i])
                   <=> n = Head(notices) \/ \E i \in DOMAIN S : n = S[i]
    BY <1>1
  <2>2. \A n : (\E i \in DOMAIN notices : n = notices[i])
                   <=> n = Head(notices) \/ \E i \in DOMAIN notices' : n = notices'[i]
    BY <1>8, <2>1, Zenon
  <2> QED
    BY <2>2, Zenon
<1> QED
  BY <1>1, <1>6, <1>7, <1>9, Zenon

LEMMA TakeEffect ==
    ASSUME TypeOK, LatestInv, NEW n \in Notice, NEW op, Take(op, n), UNCHANGED <<db, task>>
    PROVE  /\ n \in Posted /\ Posted = Posted' \cup {n} /\ LatestInv'
           /\ \/ \E m \in Posted' : m.id = n.id
              \/ Announces(n)
           /\ n.op = op /\ rows = {}
<1>1. /\ notices # <<>> /\ n = Head(notices) /\ notices' = Tail(notices)
      /\ task = NoNotice /\ task' = NoNotice /\ n.op = op /\ rows = {}
  BY DEF Take, TypeOK
<1>2. /\ \/ \E j \in DOMAIN notices' : notices'[j].id = n.id
         \/ Announces(n)
      /\ {notices[i] : i \in DOMAIN notices} =
             {notices'[i] : i \in DOMAIN notices'} \cup {n}
  BY <1>1, HeadGoes
<1>3. LatestInv'
  BY <1>1, HeadGoes DEF LatestInv
<1>4. Posted = Posted' \cup {n}
  BY <1>1, <1>2 DEF Posted
<1>5. (\E j \in DOMAIN notices' : notices'[j].id = n.id) => \E m \in Posted' : m.id = n.id
  BY DEF Posted
<1> QED
  BY <1>1, <1>2, <1>3, <1>4, <1>5

LEMMA SyncReplaceEffect ==
    ASSUME TypeOK, LatestInv, NEW n \in Notice, SyncReplace(n)
    PROVE  Posted' = Posted /\ LatestInv' /\ task' = n /\ n.op = "update"
<1>1. /\ notices # <<>> /\ n = Head(notices) /\ notices' = Tail(notices)
      /\ task = NoNotice /\ task' = n /\ n.op = "update" /\ n # NoNotice /\ db' = db
  BY FillAssumption DEF SyncReplace, Take, TypeOK, FillAssumption
<1>2. /\ \/ \E j \in DOMAIN notices' : notices'[j].id = n.id
         \/ Announces(n)
      /\ {notices[i] : i \in DOMAIN notices} =
             {notices'[i] : i \in DOMAIN notices'} \cup {n}
  BY <1>1, HeadGoes
<1>3. Announces(n) => Announces(task)'
  BY <1>1 DEF Announces
<1>4. LatestInv'
  BY <1>1, <1>2, <1>3, HeadGoes DEF LatestInv
<1> QED
  BY <1>1, <1>2, <1>4 DEF Posted

LEMMA ReplaceAppendEffect ==
    ASSUME TypeOK, LatestInv, ReplaceAppend
    PROVE  /\ Posted = Posted' \cup {task} /\ LatestInv' /\ task \in Notice
           /\ \/ \E m \in Posted' : m.id = task.id
              \/ Announces(task) \/ task.id \in overtaken
           /\ rows = {}
<1>1. /\ task # NoNotice /\ task \in Notice /\ task' = NoNotice
      /\ UNCHANGED <<notices, db>> /\ rows = {}
  BY DEF ReplaceAppend, TypeOK
<1>2. LatestInv'
  BY <1>1 DEF LatestInv, Announces
<1>3. Posted = Posted' \cup {task}
  BY <1>1 DEF Posted
<1>4. (\E j \in DOMAIN notices : notices[j].id = task.id) => \E m \in Posted' : m.id = task.id
  BY <1>1 DEF Posted
<1> QED
  BY <1>1, <1>2, <1>3, <1>4 DEF LatestInv

LEMMA LoseEffect ==
    ASSUME TypeOK, LatestInv, LoseNotice
    PROVE  /\ Head(notices) \in Notice /\ Head(notices) \in Posted
           /\ Posted = Posted' \cup {Head(notices)} /\ LatestInv'
<1>1. /\ notices # <<>> /\ notices' = Tail(notices) /\ UNCHANGED <<db, task>>
      /\ overtaken' = overtaken \cup {Head(notices).id}
  BY DEF LoseNotice, worker
<1>2. {notices[i] : i \in DOMAIN notices} =
          {notices'[i] : i \in DOMAIN notices'} \cup {Head(notices)}
  BY <1>1, HeadGoes
<1>3. ASSUME task # NoNotice, \A j \in DOMAIN notices' : notices'[j].id # task.id
      PROVE  Announces(task) \/ task.id \in overtaken'
  <2>1. CASE task.id = Head(notices).id
    BY <1>1, <2>1
  <2>2. CASE task.id # Head(notices).id
    <3>1. \A j \in DOMAIN notices : notices[j].id # task.id
      BY <1>2, <1>3, <2>2
    <3> QED
      BY <1>1, <1>3, <3>1 DEF LatestInv
  <2> QED
    BY <2>1, <2>2
<1>4. LatestInv'
  BY <1>1, <1>3, HeadGoes DEF LatestInv, Announces
<1> QED
  BY <1>1, <1>2, <1>4, HeadGoes DEF Posted

LEMMA EditEffect ==
    ASSUME TypeOK, LatestInv, NEW id \in Ids, NEW v \in Versions \cup {Gone},
           NEW op, NewNotice(id, v, op) \in Notice, Edit(id, v, op),
           v = Gone => op = "delete"
    PROVE  Posted' = Posted \cup {NewNotice(id, v, op)} /\ LatestInv'
<1>. DEFINE new == NewNotice(id, v, op)
            S == Append(notices, new)
<1>1. /\ notices' = S /\ task' = task /\ overtaken' = overtaken
      /\ db' = [db EXCEPT ![id] = v]
  BY DEF Edit, NewNotice, history
<1>2. /\ DOMAIN S = 1 .. Len(notices) + 1 /\ DOMAIN notices = 1 .. Len(notices)
      /\ Len(notices) \in Nat
      /\ \A i \in DOMAIN notices : S[i] = notices[i]
      /\ S[Len(notices) + 1] = new
      /\ {S[i] : i \in DOMAIN S} = {notices[i] : i \in DOMAIN notices} \cup {new}
  BY Appending DEF TypeOK
<1>3. new.id = id /\ new.op = op /\ (op # "delete" => new.value = v)
  BY DEF NewNotice
<1>4. \A i \in DOMAIN notices : notices[i] \in Notice
  BY ElementOfSeq, <1>2 DEF TypeOK
<1>5. db \in [Ids -> Versions \cup {Future, Gone}]
  BY DEF TypeOK
<1>. HIDE DEF new, S
<1>6. \A n \in Notice : n.id # id /\ Announces(n) => n.op = "delete" \/ n.value = db'[n.id]
  BY <1>1, <1>5, NoticeFields DEF Announces
<1>7. ASSUME NEW i \in DOMAIN S, \A j \in DOMAIN S : j > i => S[j].id # S[i].id
      PROVE  S[i].op = "delete" \/ S[i].value = db'[S[i].id]
  <2>1. CASE i = Len(notices) + 1
    BY <1>1, <1>2, <1>3, <1>5, <2>1
  <2>2. CASE i \in DOMAIN notices
    <3>1. Len(notices) + 1 \in DOMAIN S /\ Len(notices) + 1 > i
      BY <1>2, <2>2
    <3>2. S[i].id # id
      BY <1>2, <1>3, <1>7, <3>1
    <3>3. \A j \in DOMAIN notices : j > i => notices[j].id # notices[i].id
      BY <1>2, <1>7, <2>2
    <3>4. Announces(notices[i])
      BY <2>2, <3>3 DEF LatestInv
    <3> QED
      BY <1>2, <1>4, <1>6, <2>2, <3>2, <3>4
  <2> QED
    BY <1>2, <2>1, <2>2
<1>8. ASSUME task # NoNotice, \A j \in DOMAIN S : S[j].id # task.id
      PROVE  task.op = "delete" \/ task.value = db'[task.id] \/ task.id \in overtaken
  <2>1. task.id # id /\ task \in Notice
    BY <1>2, <1>3, <1>8 DEF TypeOK
  <2>2. \A j \in DOMAIN notices : notices[j].id # task.id
    BY <1>2, <1>8
  <2>3. Announces(task) \/ task.id \in overtaken
    BY <1>8, <2>2 DEF LatestInv
  <2> QED
    BY <1>6, <2>1, <2>3
<1>9. LatestInv'
  BY <1>1, <1>7, <1>8 DEF LatestInv, Announces
<1>10. Posted' = Posted \cup {new}
  BY <1>1, <1>2 DEF Posted
<1> QED
  BY <1>9, <1>10 DEF new

LEMMA LatestSteps ==
    ASSUME TypeOK, LatestInv, [Next]_vars
    PROVE  LatestInv'
<1>1. CASE UNCHANGED <<db, task, notices, overtaken>>
  BY <1>1 DEF LatestInv, Announces
<1>2. ASSUME NEW n \in Notice, SyncAdd(n) \/ SyncUpdate(n) \/ SyncDelete(n) PROVE LatestInv'
  BY <1>2, TakeEffect DEF SyncAdd, SyncUpdate, SyncDelete, worker
<1>3. CASE ReplaceDelete \/ Operational \/ \E f \in rows : AddQueueForRecord(f)
  BY <1>1, <1>3
  DEF ReplaceDelete, Operational, PopRecord, AppendFill, AddQueueForRecord, worker, history
<1>4. CASE \/ \E k \in Keys : Hit(k) \/ Miss(k)
           \/ Count \/ ReadRows \/ ReadNothing \/ UNCHANGED vars
  BY <1>1, <1>4 DEF Hit, Miss, Count, ReadRows, ReadNothing, vars, history
<1> QED
  BY <1>2, <1>3, <1>4, SyncReplaceEffect, ReplaceAppendEffect, LoseEffect,
     EditEffect, ControlPlaneEdits
  DEF Next, Worker, ControlPlane

LEMMA UnderWayNext ==
    /\ \A id : InFlight(id)' <=> \E f \in Waiting' : f.id = id
    /\ \A id : Notified(id)' <=> \E n \in Posted' : n.id = id
    /\ \A id : IsCached(id)' <=> \E r \in cache' : r.id = id
BY DEF InFlight, Waiting, Notified, Posted, IsCached, Cache!WithId

LEMMA Cached ==
    ASSUME TypeOK
    PROVE  /\ \A id : IsCached(id) <=> \E r \in cache : r.id = id
           /\ \A r \in cache : r.id \in Ids /\ r.key \in Keys /\ r.value \in Versions
           /\ \A r, q \in cache : r.id = q.id => r = q
BY DEF TypeOK, Cache!Consistent, Cache!Record, IsCached, Cache!WithId

LEMMA AppendStores ==
    ASSUME NEW id \in Ids, NEW v \in Versions, AppendRecord(id, v)
    PROVE  /\ CanStore(id) => /\ ~IsCached(id)
                              /\ cache' = cache \cup {[id |-> id, key |-> Owner[id], value |-> v]}
           /\ ~CanStore(id) => cache' = cache
BY DEF AppendRecord, Cache!Put, IsCached

LEMMA DeleteDrops ==
    ASSUME TypeOK, NEW id \in Ids, DeleteRecord(id)
    PROVE  cache' = {r \in cache : r.id # id}
<1>1. CASE IsCached(id)
  <2>1. PICK q \in cache : q.id = id /\ cache' = cache \ {q}
    BY <1>1 DEF DeleteRecord, Cache!Drop, Cache!WithId
  <2> QED
    BY <2>1, Cached
<1>2. CASE ~IsCached(id)
  BY <1>2, Cached DEF DeleteRecord
<1> QED
  BY <1>1, <1>2

LEMMA ReviseReplaces ==
    ASSUME TypeOK, NEW id \in Ids, NEW v \in Versions, Cache!Revise(id, v)
    PROVE  \E q \in cache :
               /\ q.id = id
               /\ cache' = {r \in cache : r.id # id} \cup {[id |-> id, key |-> q.key, value |-> v]}
<1>1. PICK q \in cache :
          /\ q.id = id
          /\ cache' = (cache \ {q}) \cup {[id |-> id, key |-> q.key, value |-> v]}
  BY DEF Cache!Revise, Cache!WithId
<1>2. cache \ {q} = {r \in cache : r.id # id}
  BY <1>1, Cached
<1> QED
  BY <1>1, <1>2

-----------------------------------------------------------------------------
(* No copy is newer than the row *)

VersionInv ==
    /\ \A r \in cache : r.key = Owner[r.id] /\ r.value <= db[r.id]
    /\ \A f \in Waiting \cup rows : f.value <= db[f.id]
    /\ \A n \in Posted : /\ n.value <= db[n.id]
                         /\ n.op = "add" => n.value = 1
                         /\ n.op = "delete" => db[n.id] = Gone
    /\ task # NoNotice => task.op = "update"

LEMMA OlderCopies ==
    ASSUME VersionInv, UNCHANGED db,
           \A r \in cache' : r \in cache \/ (r.key = Owner[r.id] /\ r.value <= db[r.id]),
           \A f \in Waiting' \cup rows' : f \in Waiting \cup rows \/ f.value <= db[f.id],
           Posted' \subseteq Posted,
           task' \in {task, NoNotice} \/ task'.op = "update"
    PROVE  VersionInv'
BY DEF VersionInv

LEMMA VersionSteps ==
    ASSUME TypeOK, LatestInv, VersionInv, [Next]_vars
    PROVE  VersionInv'
<1>1. CASE UNCHANGED <<db, cache, recordQueue, hand, task, notices>> /\ rows' \in {rows, RowsOf(asked)}
  <2>1. \A f \in RowsOf(asked) : f.value <= db[f.id]
    BY Contents DEF RowsOf, Live, Versions
  <2> QED
    BY <1>1, <2>1, OlderCopies DEF Waiting, Posted
<1>2. ASSUME NEW f \in rows, AddQueueForRecord(f) PROVE VersionInv'
  BY <1>2, PushEffect, OlderCopies DEF AddQueueForRecord
<1>3. CASE PopRecord
  BY <1>3, PopEffect, OlderCopies DEF PopRecord, worker
<1>4. CASE AppendFill
  <2>1. hand \in Fill /\ hand \in Waiting /\ Waiting' \subseteq Waiting /\ Posted' = Posted
    BY <1>4, AppendFillEffect
  <2>2. hand.id \in Ids /\ hand.value \in Versions /\ hand.value <= db[hand.id]
    BY <2>1 DEF Fill, VersionInv
  <2>3. \A r \in cache' : r \in cache \/ (r.key = Owner[r.id] /\ r.value <= db[r.id])
    BY <1>4, <2>2, AppendStores DEF AppendFill
  <2> QED
    BY <1>4, <2>1, <2>3, OlderCopies DEF AppendFill, worker
<1>5. ASSUME NEW n \in Notice, SyncAdd(n) PROVE VersionInv'
  <2>1. n \in Posted /\ Posted' \subseteq Posted
    BY <1>5, TakeEffect DEF SyncAdd, worker
  <2>2. \A r \in cache' : r \in cache \/ (r.key = Owner[r.id] /\ r.value <= db[r.id])
    BY <1>5, <2>1, NoticeFields, AppendStores DEF SyncAdd, VersionInv
  <2> QED
    BY <1>5, <2>1, <2>2, OlderCopies DEF SyncAdd, worker, Waiting
<1>6. ASSUME NEW n \in Notice, SyncUpdate(n) PROVE VersionInv'
  <2>1. n \in Posted /\ Posted' \subseteq Posted
    BY <1>6, TakeEffect DEF SyncUpdate, worker
  <2>2. PICK q \in cache :
            /\ q.id = n.id
            /\ cache' = {r \in cache : r.id # n.id}
                           \cup {[id |-> n.id, key |-> q.key, value |-> n.value]}
    BY <1>6, NoticeFields, ReviseReplaces DEF SyncUpdate
  <2>3. \A r \in cache' : r \in cache \/ (r.key = Owner[r.id] /\ r.value <= db[r.id])
    BY <2>1, <2>2 DEF VersionInv
  <2> QED
    BY <1>6, <2>1, <2>3, OlderCopies DEF SyncUpdate, worker, Waiting
<1>7. ASSUME NEW n \in Notice, SyncReplace(n) PROVE VersionInv'
  BY <1>7, SyncReplaceEffect, OlderCopies DEF SyncReplace, Waiting
<1>8. ASSUME NEW n \in Notice, SyncDelete(n) PROVE VersionInv'
  <2>1. Posted' \subseteq Posted /\ cache' \subseteq cache
    BY <1>8, TakeEffect, NoticeFields, DeleteDrops DEF SyncDelete, worker
  <2> QED
    BY <1>8, <2>1, OlderCopies DEF SyncDelete, worker, Waiting
<1>9. CASE ReplaceDelete
  <2>1. cache' \subseteq cache
    BY <1>9, NoticeFields, DeleteDrops DEF ReplaceDelete, TypeOK
  <2> QED
    BY <1>9, <2>1, OlderCopies DEF ReplaceDelete, Waiting, Posted
<1>10. CASE ReplaceAppend
  <2>1. task \in Posted /\ Posted' \subseteq Posted /\ task \in Notice
    BY <1>10, ReplaceAppendEffect
  <2>2. \A r \in cache' : r \in cache \/ (r.key = Owner[r.id] /\ r.value <= db[r.id])
    BY <1>10, <2>1, NoticeFields, AppendStores DEF ReplaceAppend, VersionInv
  <2> QED
    BY <1>10, <2>1, <2>2, OlderCopies DEF ReplaceAppend, Waiting
<1>11. CASE LoseNotice
  BY <1>11, LoseEffect, OlderCopies DEF LoseNotice, worker, Waiting
<1>12. ASSUME NEW id \in Ids, Create(id) \/ Change(id) \/ Remove(id) PROVE VersionInv'
  <2>1. PICK v \in Versions \cup {Gone}, op \in {"add", "update", "delete"} :
            /\ Edit(id, v, op) /\ db[id] < v /\ db[id] # Gone
            /\ op = "add" => v = 1
            /\ op = "delete" => v = Gone
            /\ v = Gone => op = "delete"
            /\ NewNotice(id, v, op) \in Notice
    BY <1>12, ControlPlaneEdits
  <2>2. /\ Posted' = Posted \cup {NewNotice(id, v, op)}
        /\ db' = [db EXCEPT ![id] = v] /\ UNCHANGED <<cache, rows, task>>
        /\ Waiting' = Waiting
    BY <2>1, EditEffect DEF Edit, Waiting
  <2>3. ASSUME NEW i \in Ids PROVE db[i] \in Nat /\ db'[i] \in Nat /\ db[i] <= db'[i]
    <3>1. db[i] \in Nat /\ db[id] \in Nat /\ v \in Nat
      BY Contents DEF TypeOK
    <3>2. db'[i] = IF i = id THEN v ELSE db[i]
      BY <2>2 DEF TypeOK
    <3> QED
      BY <2>1, <3>1, <3>2
  <2>8. \A x \in Versions : \A i \in Ids : x <= db[i] => x <= db'[i]
    <3>1. \A x, y, z \in Nat : x <= y /\ y <= z => x <= z
      OBVIOUS
    <3> QED
      BY <2>3, <3>1, Contents
  <2>9. /\ \A i \in Ids : db[i] = Gone => db'[i] = Gone
        /\ db'[id] = v
    BY <2>1, <2>2 DEF TypeOK
  <2>4. /\ NewNotice(id, v, op).id = id /\ NewNotice(id, v, op).op = op
        /\ NewNotice(id, v, op).value = IF v = Gone THEN db[id] ELSE v
    BY DEF NewNotice
  <2>5. \A r \in cache : r.key = Owner[r.id] /\ r.value <= db'[r.id]
    BY <2>8, Cached DEF VersionInv
  <2>6. \A f \in Waiting \cup rows : f.value <= db'[f.id]
    BY <2>8, UnderWay DEF VersionInv, TypeOK, Fill
  <2>7. ASSUME NEW n \in Posted
        PROVE  /\ n.value <= db'[n.id]
               /\ n.op = "add" => n.value = 1
               /\ n.op = "delete" => db'[n.id] = Gone
    BY <2>7, <2>8, <2>9, UnderWay, NoticeFields DEF VersionInv
  <2> QED
    <3>1. /\ NewNotice(id, v, op).value <= db'[id]
          /\ op = "add" => NewNotice(id, v, op).value = 1
          /\ op = "delete" => db'[id] = Gone
      BY <2>1, <2>3, <2>4, <2>9, Contents
    <3>2. \A n \in Posted' :
              /\ n.value <= db'[n.id]
              /\ n.op = "add" => n.value = 1
              /\ n.op = "delete" => db'[n.id] = Gone
      BY <2>2, <2>4, <2>7, <3>1
    <3>3. /\ \A r \in cache' : r.key = Owner[r.id] /\ r.value <= db'[r.id]
          /\ \A f \in Waiting' \cup rows' : f.value <= db'[f.id]
      BY <2>2, <2>5, <2>6, Zenon
    <3>4. task' # NoNotice => task'.op = "update"
      BY <2>2 DEF VersionInv
    <3> QED
      BY <3>2, <3>3, <3>4 DEF VersionInv
<1>13. CASE \/ \E k \in Keys : Hit(k) \/ Miss(k)
            \/ Count \/ ReadRows \/ ReadNothing \/ UNCHANGED vars
  BY <1>1, <1>13 DEF Hit, Miss, Count, ReadRows, ReadNothing, vars
<1> QED
  BY <1>2, <1>3, <1>4, <1>5, <1>6, <1>7, <1>8, <1>9, <1>10, <1>11, <1>12, <1>13
  DEF Next, Worker, Operational, ControlPlane

-----------------------------------------------------------------------------
(* Stale records *)

\* no copy of id is old, but for those append_record will refuse
Fresh(id) ==
    /\ \A r \in cache : r.id = id => r.value = db[id]
    /\ \A f \in Waiting : f.id = id => f.value = db[id] \/ IsCached(id)
    /\ \A f \in rows : f.id = id => f.value = db[id]

StaleInv == \A id \in Ids \ overtaken : Notified(id) \/ Fresh(id)

\* nothing of id changes but that copies of it may go
LEMMA StaysFresh ==
    ASSUME NEW id, Fresh(id), UNCHANGED db,
           \A r \in cache' : r.id = id => r \in cache,
           IsCached(id) => IsCached(id)',
           \A f \in Waiting' : f.id = id => f \in Waiting \/ f \in rows,
           \A f \in rows' : f.id = id => f \in rows
    PROVE  Fresh(id)'
BY DEF Fresh

LEMMA StaleSteps ==
    ASSUME TypeOK, LatestInv, VersionInv, StaleInv, [Next]_vars,
           NEW id \in Ids \ overtaken'
    PROVE  Notified(id)' \/ Fresh(id)'
<1>. DEFINE Goal == Notified(id)' \/ Fresh(id)'
<1>1. CASE /\ UNCHANGED <<db, cache, recordQueue, hand, task, notices, overtaken>>
           /\ rows' \in {rows, RowsOf(asked)}
  <2>1. Notified(id) \/ Fresh(id)
    BY <1>1 DEF StaleInv
  <2>2. Notified(id) => Notified(id)'
    BY <1>1 DEF Notified
  <2>3. \A f \in RowsOf(asked) : f.value = db[f.id]
    BY DEF RowsOf
  <2>4. Fresh(id) => Fresh(id)'
    BY <1>1, <2>3 DEF Fresh, Waiting, IsCached, Cache!WithId
  <2> QED
    BY <2>1, <2>2, <2>4
<1>2. ASSUME NEW f \in rows, AddQueueForRecord(f) PROVE Goal
  <2>1. Notified(id) \/ Fresh(id)
    BY <1>2 DEF StaleInv, AddQueueForRecord, history
  <2>2. /\ Waiting' = Waiting \cup {f} /\ rows' \subseteq rows /\ Posted' = Posted
        /\ cache' = cache /\ db' = db
    BY <1>2, PushEffect DEF AddQueueForRecord
  <2> QED
    BY <2>1, <2>2, UnderWay, UnderWayNext, Cached, StaysFresh
<1>3. CASE PopRecord
  <2>1. Notified(id) \/ Fresh(id)
    BY <1>3 DEF StaleInv, PopRecord, history
  <2>2. Waiting' = Waiting /\ Posted' = Posted /\ UNCHANGED <<cache, db, rows>>
    BY <1>3, PopEffect DEF PopRecord, worker
  <2> QED
    BY <2>1, <2>2, UnderWay, UnderWayNext, Cached, StaysFresh
<1>4. CASE AppendFill
  <2>1. Notified(id) \/ Fresh(id)
    BY <1>4 DEF StaleInv, AppendFill
  <2>2. /\ Waiting = Waiting' \cup {hand} /\ Posted' = Posted /\ hand \in Fill
        /\ hand.id \in Ids /\ hand.value \in Versions
        /\ db' = db /\ rows' = rows
    BY <1>4, AppendFillEffect DEF AppendFill, worker, Fill
  <2>3. Notified(id) => Notified(id)'
    BY <2>2, UnderWay, UnderWayNext
  <2>4. ASSUME Fresh(id), CanStore(hand.id) PROVE Fresh(id)'
    <3>1. /\ ~IsCached(hand.id)
          /\ cache' = cache \cup {[id |-> hand.id, key |-> Owner[hand.id], value |-> hand.value]}
      BY <1>4, <2>2, <2>4, AppendStores DEF AppendFill
    <3>2. hand.id = id => hand.value = db[id]
      BY <2>2, <2>4, <3>1 DEF Fresh
    <3>3. IsCached(id) => IsCached(id)'
      BY <3>1, Cached, UnderWayNext
    <3> QED
      BY <2>2, <2>4, <3>1, <3>2, <3>3 DEF Fresh
  <2>5. ASSUME Fresh(id), ~CanStore(hand.id) PROVE Fresh(id)'
    <3>1. cache' = cache
      BY <1>4, <2>2, <2>5, AppendStores DEF AppendFill
    <3> QED
      BY <2>2, <2>5, <3>1, Cached, UnderWayNext, StaysFresh
  <2> QED
    BY <2>1, <2>3, <2>4, <2>5
<1>5. ASSUME NEW n \in Notice, SyncAdd(n) PROVE Goal
  <2>1. Notified(id) \/ Fresh(id)
    BY <1>5 DEF StaleInv, SyncAdd
  <2>2. /\ n \in Posted /\ Posted = Posted' \cup {n} /\ n.op = "add" /\ rows = {}
        /\ (\E m \in Posted' : m.id = n.id) \/ n.value = db[n.id]
        /\ db' = db /\ rows' = {} /\ Waiting' = Waiting
        /\ AppendRecord(n.id, n.value)
    BY <1>5, TakeEffect DEF SyncAdd, worker, Waiting, Announces
  <2>3. /\ CanStore(n.id) => /\ ~IsCached(n.id)
                             /\ cache' = cache \cup {[id |-> n.id, key |-> Owner[n.id], value |-> n.value]}
        /\ ~CanStore(n.id) => cache' = cache
    BY <2>2, NoticeFields, AppendStores
  <2>4. CASE id # n.id
    <3>1. Notified(id) => Notified(id)'
      BY <2>2, <2>4, UnderWay, UnderWayNext
    <3>2. (\A r \in cache' : r.id = id => r \in cache) /\ (IsCached(id) => IsCached(id)')
      BY <2>3, <2>4, Cached, UnderWayNext
    <3>3. Fresh(id) => Fresh(id)'
      BY <2>2, <3>2, StaysFresh
    <3> QED
      BY <2>1, <3>1, <3>3
  <2>5. CASE id = n.id /\ \E m \in Posted' : m.id = n.id
    BY <2>5, UnderWayNext
  <2>6. CASE id = n.id /\ n.value = db[n.id]
    <3>1. db[id] = 1
      BY <2>2, <2>6 DEF VersionInv
    <3>2. \A x \in Versions : x <= db[id] => x = db[id]
      BY <3>1 DEF Versions
    <3>3. \A r \in cache' : r.id = id => r.value = db[id]
      BY <2>3, <2>6, <3>2, Cached DEF VersionInv
    <3>4. \A f \in Waiting : f.id = id => f.value = db[id]
      BY <3>2, UnderWay DEF VersionInv, Fill
    <3> QED
      BY <2>2, <3>3, <3>4 DEF Fresh
  <2> QED
    BY <2>2, <2>4, <2>5, <2>6
<1>6. ASSUME NEW n \in Notice, SyncUpdate(n) PROVE Goal
  <2>1. Notified(id) \/ Fresh(id)
    BY <1>6 DEF StaleInv, SyncUpdate, history
  <2>2. /\ Posted = Posted' \cup {n} /\ n.op = "update" /\ rows = {}
        /\ (\E m \in Posted' : m.id = n.id) \/ n.value = db[n.id]
        /\ db' = db /\ rows' = {} /\ Waiting' = Waiting
    BY <1>6, TakeEffect DEF SyncUpdate, worker, Waiting, Announces
  <2>3. PICK q \in cache :
            /\ q.id = n.id
            /\ cache' = {r \in cache : r.id # n.id}
                           \cup {[id |-> n.id, key |-> q.key, value |-> n.value]}
    BY <1>6, NoticeFields, ReviseReplaces DEF SyncUpdate
  <2>4. CASE id # n.id
    <3>1. Notified(id) => Notified(id)'
      BY <2>2, <2>4, UnderWay, UnderWayNext
    <3>2. (\A r \in cache' : r.id = id => r \in cache) /\ (IsCached(id) => IsCached(id)')
      BY <2>3, <2>4, Cached, UnderWayNext
    <3>3. Fresh(id) => Fresh(id)'
      BY <2>2, <3>2, StaysFresh
    <3> QED
      BY <2>1, <3>1, <3>3
  <2>5. CASE id = n.id /\ \E m \in Posted' : m.id = n.id
    BY <2>5, UnderWayNext
  <2>6. CASE id = n.id /\ n.value = db[n.id]
    <3>1. \A r \in cache' : r.id = id => r.value = db[id]
      BY <2>3, <2>6
    <3>2. \E r \in cache' : r.id = id
      <4>1. [id |-> n.id, key |-> q.key, value |-> n.value] \in cache'
        BY <2>3
      <4> QED
        BY <2>6, <4>1
    <3>3. IsCached(id)'
      BY <3>2, UnderWayNext
    <3> QED
      BY <2>2, <3>1, <3>3 DEF Fresh
  <2> QED
    BY <2>2, <2>4, <2>5, <2>6
<1>7. ASSUME NEW n \in Notice, SyncReplace(n) PROVE Goal
  <2>1. Notified(id) \/ Fresh(id)
    BY <1>7 DEF StaleInv, SyncReplace, history
  <2>2. Posted' = Posted /\ UNCHANGED <<db, cache, rows>> /\ Waiting' = Waiting
    BY <1>7, SyncReplaceEffect DEF SyncReplace, Waiting
  <2> QED
    BY <2>1, <2>2, UnderWay, UnderWayNext, Cached, StaysFresh
<1>8. ASSUME NEW n \in Notice, SyncDelete(n) PROVE Goal
  <2>1. /\ Posted = Posted' \cup {n} /\ rows = {}
        /\ db' = db /\ rows' = {} /\ Waiting' = Waiting
        /\ overtaken' = IF InFlight(n.id) THEN overtaken \cup {n.id} ELSE overtaken
        /\ cache' = {r \in cache : r.id # n.id}
    BY <1>8, TakeEffect, NoticeFields, DeleteDrops DEF SyncDelete, worker, Waiting
  <2>2. Notified(id) \/ Fresh(id)
    BY <2>1 DEF StaleInv
  <2>3. CASE id # n.id
    <3>1. Notified(id) => Notified(id)'
      BY <2>1, <2>3, UnderWay, UnderWayNext
    <3>2. IsCached(id) => IsCached(id)'
      BY <2>1, <2>3, Cached, UnderWayNext
    <3>3. Fresh(id) => Fresh(id)'
      BY <2>1, <3>2, StaysFresh
    <3> QED
      BY <2>2, <3>1, <3>3
  <2>4. CASE id = n.id
    <3>1. \A f \in Waiting' : f.id # id
      BY <2>1, <2>4, UnderWay
    <3> QED
      BY <2>1, <2>4, <3>1 DEF Fresh
  <2> QED
    BY <2>3, <2>4
<1>9. CASE ReplaceDelete
  <2>1. /\ task \in Notice /\ task \in Posted /\ Posted' = Posted
        /\ Waiting' = Waiting /\ UNCHANGED <<db, rows, overtaken>>
        /\ cache' = {r \in cache : r.id # task.id}
    BY <1>9, NoticeFields, DeleteDrops DEF ReplaceDelete, TypeOK, Waiting, Posted
  <2>2. Notified(id) \/ Fresh(id)
    BY <2>1 DEF StaleInv
  <2>3. CASE id # task.id
    <3>1. Notified(id) => Notified(id)'
      BY <2>1, UnderWay, UnderWayNext
    <3>2. IsCached(id) => IsCached(id)'
      BY <2>1, <2>3, Cached, UnderWayNext
    <3>3. Fresh(id) => Fresh(id)'
      BY <2>1, <3>2, StaysFresh
    <3> QED
      BY <2>2, <3>1, <3>3
  <2>4. CASE id = task.id
    BY <2>1, <2>4, UnderWayNext
  <2> QED
    BY <2>3, <2>4
<1>10. CASE ReplaceAppend
  <2>1. /\ task \in Notice /\ task \in Posted /\ Posted = Posted' \cup {task} /\ rows = {}
        /\ \/ \E m \in Posted' : m.id = task.id
           \/ Announces(task) \/ task.id \in overtaken
        /\ rows' = {} /\ db' = db /\ Waiting' = Waiting
        /\ AppendRecord(task.id, task.value)
        /\ overtaken \subseteq overtaken'
    BY <1>10, ReplaceAppendEffect DEF ReplaceAppend, Waiting
  <2>2. /\ CanStore(task.id) =>
              /\ ~IsCached(task.id)
              /\ cache' = cache \cup {[id |-> task.id, key |-> Owner[task.id], value |-> task.value]}
        /\ ~CanStore(task.id) => cache' = cache
    BY <2>1, NoticeFields, AppendStores
  <2>3. Notified(id) \/ Fresh(id)
    BY <2>1 DEF StaleInv
  <2>4. CASE id # task.id
    <3>1. Notified(id) => Notified(id)'
      BY <2>1, <2>4, UnderWay, UnderWayNext
    <3>2. (\A r \in cache' : r.id = id => r \in cache) /\ (IsCached(id) => IsCached(id)')
      BY <2>2, <2>4, Cached, UnderWayNext
    <3>3. Fresh(id) => Fresh(id)'
      BY <2>1, <3>2, StaysFresh
    <3> QED
      BY <2>3, <3>1, <3>3
  <2>5. CASE id = task.id /\ \E m \in Posted' : m.id = task.id
    BY <2>5, UnderWayNext
  <2>6. CASE id = task.id /\ Announces(task) /\ CanStore(task.id)
    <3>1. task.op = "update"
      BY <1>10 DEF VersionInv, ReplaceAppend, TypeOK
    <3>2. task.value = db[id]
      BY <2>6, <3>1 DEF Announces
    <3>3. \A r \in cache' : r.id = id => r.value = db[id]
      BY <2>2, <2>6, <3>2, Cached
    <3>4. \E r \in cache' : r.id = id
      <4>1. [id |-> task.id, key |-> Owner[task.id], value |-> task.value] \in cache'
        BY <2>2, <2>6
      <4> QED
        BY <2>6, <4>1
    <3> QED
      BY <2>1, <3>3, <3>4, UnderWayNext DEF Fresh
  <2>7. CASE id = task.id /\ ~CanStore(task.id)
    <3>1. ~IsCached(id) /\ ~InFlight(id)
      BY <1>10, <2>7 DEF ReplaceAppend
    <3>2. cache' = cache
      BY <2>2, <2>7
    <3> QED
      BY <2>1, <3>1, <3>2, UnderWay, Cached DEF Fresh
  <2> QED
    BY <2>1, <2>4, <2>5, <2>6, <2>7
<1>11. CASE LoseNotice
  <2>1. /\ Posted = Posted' \cup {Head(notices)} /\ Waiting' = Waiting
        /\ UNCHANGED <<db, cache, rows>>
        /\ overtaken' = overtaken \cup {Head(notices).id}
    BY <1>11, LoseEffect DEF LoseNotice, worker, Waiting
  <2>2. Notified(id) \/ Fresh(id)
    BY <2>1 DEF StaleInv
  <2> QED
    BY <2>1, <2>2, UnderWay, UnderWayNext, Cached, StaysFresh
<1>12. ASSUME NEW i \in Ids, Create(i) \/ Change(i) \/ Remove(i) PROVE Goal
  <2>1. PICK v \in Versions \cup {Gone}, op \in {"add", "update", "delete"} :
            /\ Edit(i, v, op)
            /\ v = Gone => op = "delete"
            /\ NewNotice(i, v, op) \in Notice
    BY <1>12, ControlPlaneEdits
  <2>2. /\ Posted' = Posted \cup {NewNotice(i, v, op)}
        /\ db' = [db EXCEPT ![i] = v] /\ UNCHANGED <<cache, rows, overtaken>>
        /\ Waiting' = Waiting
    BY <2>1, EditEffect DEF Edit, Waiting, history
  <2>6. NewNotice(i, v, op).id = i
    BY DEF NewNotice
  <2>3. Notified(id) \/ Fresh(id)
    BY <2>2 DEF StaleInv
  <2>4. CASE id = i
    BY <2>2, <2>4, <2>6, UnderWayNext
  <2>5. CASE id # i
    <3>1. Notified(id) => Notified(id)'
      BY <2>2, UnderWay, UnderWayNext
    <3>2. db'[id] = db[id]
      BY <2>2, <2>5 DEF TypeOK
    <3>3. Fresh(id) => Fresh(id)'
      BY <2>2, <3>2, Cached, UnderWayNext DEF Fresh
    <3> QED
      BY <2>3, <3>1, <3>3
  <2> QED
    BY <2>4, <2>5
<1>13. CASE \/ \E k \in Keys : Hit(k) \/ Miss(k)
            \/ Count \/ ReadRows \/ ReadNothing \/ UNCHANGED vars
  BY <1>1, <1>13 DEF Hit, Miss, Count, ReadRows, ReadNothing, vars, history
<1> QED
  BY <1>2, <1>3, <1>4, <1>5, <1>6, <1>7, <1>8, <1>9, <1>10, <1>11, <1>12, <1>13
  DEF Next, Worker, Operational, ControlPlane

(* StaleOnlyIfOvertaken for any names, records and queues: a copy that is   *)
(* not the row is of an id whose last notice is still to be applied, or the *)
(* id is cached and append_record will refuse the copy.                     *)
THEOREM FillStaleOnlyIfOvertaken == Spec => []StaleOnlyIfOvertaken
<1>. DEFINE Inv == LatestInv /\ VersionInv /\ StaleInv
<1>1. Init => Inv
  <2> SUFFICES ASSUME Init PROVE Inv
    OBVIOUS
  <2>1. Waiting = {} /\ Posted = {} /\ cache = {} /\ rows = {} /\ task = NoNotice
    BY DEF Init, Waiting, Posted
  <2>2. LatestInv
    BY DEF Init, LatestInv
  <2> QED
    BY <2>1, <2>2 DEF VersionInv, StaleInv, Fresh
<1>2. TypeOK /\ Inv /\ [Next]_vars => Inv'
  <2> SUFFICES ASSUME TypeOK, Inv, [Next]_vars PROVE Inv'
    OBVIOUS
  <2>1. LatestInv'
    BY LatestSteps
  <2>2. VersionInv'
    BY VersionSteps
  <2>3. StaleInv'
    BY StaleSteps DEF StaleInv
  <2> QED
    BY <2>1, <2>2, <2>3
<1>3. TypeOK /\ StaleInv => StaleOnlyIfOvertaken
  BY Cached DEF StaleInv, Fresh, StaleOnlyIfOvertaken
<1>. HIDE DEF Inv
<1>4. Spec => [](TypeOK /\ Inv)
  BY <1>1, <1>2, FillTypes, PTL DEF Spec
<1>5. TypeOK /\ Inv => StaleOnlyIfOvertaken
  BY <1>3 DEF Inv
<1> QED
  BY <1>4, <1>5, PTL

-----------------------------------------------------------------------------
(* Complete answers *)

Covered(id) ==
    \/ ~Live(id) \/ IsCached(id) \/ InFlight(id) \/ Read(id) \/ Notified(id)
    \/ id \in dropped

Full(k) == \A id \in Ids : Owner[id] = k => Covered(id)

Untouched(k) ==
    /\ \A id \in Ids : Owner[id] = k => ~InFlight(id) /\ ~Read(id)
    /\ Of(k) = {} \/ k \in seeded

CompleteInv == \A k \in Keys : Full(k) \/ Untouched(k)

LEMMA StaysCovered ==
    ASSUME TypeOK, LatestInv, VersionInv, [Next]_vars, NEW id \in Ids, Covered(id)
    PROVE  Covered(id)'
<1>1. CASE UNCHANGED <<db, cache, recordQueue, hand, task, notices, dropped>> /\ rows \subseteq rows'
  BY <1>1 DEF Covered, Live, IsCached, Cache!WithId, InFlight, Read, Notified
<1>2. ASSUME NEW f \in rows, AddQueueForRecord(f) PROVE Covered(id)'
  <2>1. Waiting' = Waiting \cup {f} /\ Posted' = Posted /\ UNCHANGED <<db, cache, dropped>>
    BY <1>2, PushEffect DEF AddQueueForRecord, history
  <2>2. Read(id) => Read(id)' \/ f.id = id
    BY <1>2 DEF AddQueueForRecord, Read
  <2>3. f.id = id => InFlight(id)'
    BY <2>1, UnderWayNext
  <2> QED
    BY <2>1, <2>2, <2>3, UnderWay, UnderWayNext, Cached DEF Covered, Live
<1>3. CASE PopRecord
  <2>1. Waiting' = Waiting /\ Posted' = Posted /\ UNCHANGED <<db, cache, rows, dropped>>
    BY <1>3, PopEffect DEF PopRecord, worker, history
  <2> QED
    BY <2>1, UnderWay, UnderWayNext, Cached DEF Covered, Live, Read
<1>4. CASE AppendFill
  <2>1. /\ Waiting = Waiting' \cup {hand} /\ Posted' = Posted /\ hand \in Fill
        /\ hand.id \in Ids /\ hand.value \in Versions
        /\ UNCHANGED <<db, rows>>
        /\ dropped' = IF CanStore(hand.id) \/ IsCached(hand.id) THEN dropped
                      ELSE dropped \cup {hand.id}
    BY <1>4, AppendFillEffect DEF AppendFill, worker, Fill
  <2>2. /\ CanStore(hand.id) =>
              cache' = cache \cup {[id |-> hand.id, key |-> Owner[hand.id], value |-> hand.value]}
        /\ ~CanStore(hand.id) => cache' = cache
    BY <1>4, <2>1, AppendStores DEF AppendFill
  <2>3. \A i : IsCached(i) => IsCached(i)'
    BY <2>2, Cached, UnderWayNext
  <2>4. CanStore(hand.id) => \E r \in cache' : r.id = hand.id
    <3>1. CanStore(hand.id) =>
              [id |-> hand.id, key |-> Owner[hand.id], value |-> hand.value] \in cache'
      BY <2>2
    <3>2. [id |-> hand.id, key |-> Owner[hand.id], value |-> hand.value].id = hand.id
      OBVIOUS
    <3> QED
      BY <3>1, <3>2, Zenon
  <2>5. InFlight(id) => InFlight(id)' \/ hand.id = id
    BY <2>1, UnderWay, UnderWayNext
  <2>6. hand.id = id => IsCached(id)' \/ id \in dropped'
    BY <2>1, <2>3, <2>4, UnderWayNext
  <2>7. Notified(id) => Notified(id)'
    BY <2>1, UnderWay, UnderWayNext
  <2> QED
    BY <2>1, <2>3, <2>5, <2>6, <2>7 DEF Covered, Live, Read
<1>5. ASSUME NEW n \in Notice, SyncAdd(n) PROVE Covered(id)'
  <2>1. /\ Posted = Posted' \cup {n} /\ Waiting' = Waiting /\ UNCHANGED <<db, rows>>
        /\ dropped' = IF CanStore(n.id) \/ IsCached(n.id) THEN dropped
                      ELSE dropped \cup {n.id}
        /\ AppendRecord(n.id, n.value)
    BY <1>5, TakeEffect DEF SyncAdd, worker, Waiting
  <2>2. /\ CanStore(n.id) =>
              cache' = cache \cup {[id |-> n.id, key |-> Owner[n.id], value |-> n.value]}
        /\ ~CanStore(n.id) => cache' = cache
    BY <2>1, NoticeFields, AppendStores
  <2>3. \A i : IsCached(i) => IsCached(i)'
    BY <2>2, Cached, UnderWayNext
  <2>4. CanStore(n.id) => IsCached(n.id)'
    <3>1. CanStore(n.id) => [id |-> n.id, key |-> Owner[n.id], value |-> n.value] \in cache'
      BY <2>2
    <3>2. [id |-> n.id, key |-> Owner[n.id], value |-> n.value].id = n.id
      OBVIOUS
    <3> QED
      BY <3>1, <3>2, UnderWayNext, Zenon
  <2>5. Notified(id) => Notified(id)' \/ n.id = id
    BY <2>1, UnderWay, UnderWayNext
  <2>6. n.id = id => IsCached(id)' \/ id \in dropped'
    BY <2>1, <2>3, <2>4
  <2>7. InFlight(id) => InFlight(id)'
    BY <2>1, UnderWay, UnderWayNext
  <2> QED
    BY <2>1, <2>3, <2>5, <2>6, <2>7 DEF Covered, Live, Read
<1>6. ASSUME NEW n \in Notice, SyncUpdate(n) PROVE Covered(id)'
  <2>1. /\ Posted = Posted' \cup {n} /\ Waiting' = Waiting /\ UNCHANGED <<db, rows, dropped>>
    BY <1>6, TakeEffect DEF SyncUpdate, worker, Waiting, history
  <2>2. PICK q \in cache :
            /\ q.id = n.id
            /\ cache' = {r \in cache : r.id # n.id}
                           \cup {[id |-> n.id, key |-> q.key, value |-> n.value]}
    BY <1>6, NoticeFields, ReviseReplaces DEF SyncUpdate
  <2>3. \E r \in cache' : r.id = n.id
    <3>1. [id |-> n.id, key |-> q.key, value |-> n.value] \in cache'
      BY <2>2
    <3> QED
      BY <3>1
  <2>4. IsCached(id) \/ n.id = id => IsCached(id)'
    BY <2>2, <2>3, Cached, UnderWayNext
  <2>5. Notified(id) => Notified(id)' \/ n.id = id
    BY <2>1, UnderWay, UnderWayNext
  <2>6. InFlight(id) => InFlight(id)'
    BY <2>1, UnderWay, UnderWayNext
  <2> QED
    BY <2>1, <2>4, <2>5, <2>6 DEF Covered, Live, Read
<1>7. ASSUME NEW n \in Notice, SyncReplace(n) PROVE Covered(id)'
  <2>1. Posted' = Posted /\ UNCHANGED <<db, cache, rows, dropped>> /\ Waiting' = Waiting
    BY <1>7, SyncReplaceEffect DEF SyncReplace, Waiting, history
  <2> QED
    BY <2>1, UnderWay, UnderWayNext, Cached DEF Covered, Live, Read
<1>8. ASSUME NEW n \in Notice, SyncDelete(n) PROVE Covered(id)'
  <2>1. /\ n \in Posted /\ Posted = Posted' \cup {n} /\ n.op = "delete"
        /\ Waiting' = Waiting /\ UNCHANGED <<db, rows, dropped>>
        /\ cache' = {r \in cache : r.id # n.id}
    BY <1>8, TakeEffect, NoticeFields, DeleteDrops DEF SyncDelete, worker, Waiting
  <2>2. n.id = id => ~Live(id)'
    BY <2>1, Contents DEF VersionInv, Live
  <2>3. /\ IsCached(id) => IsCached(id)' \/ n.id = id
        /\ Notified(id) => Notified(id)' \/ n.id = id
        /\ InFlight(id) => InFlight(id)'
    BY <2>1, UnderWay, UnderWayNext, Cached
  <2> QED
    BY <2>1, <2>2, <2>3 DEF Covered, Live, Read
<1>9. CASE ReplaceDelete
  <2>1. /\ task \in Notice /\ task \in Posted /\ Posted' = Posted
        /\ Waiting' = Waiting /\ UNCHANGED <<db, rows, dropped>>
        /\ cache' = {r \in cache : r.id # task.id}
    BY <1>9, NoticeFields, DeleteDrops DEF ReplaceDelete, TypeOK, Waiting, Posted
  <2>2. /\ IsCached(id) => IsCached(id)' \/ Notified(id)'
        /\ Notified(id) => Notified(id)'
        /\ InFlight(id) => InFlight(id)'
    BY <2>1, UnderWay, UnderWayNext, Cached
  <2> QED
    BY <2>1, <2>2 DEF Covered, Live, Read
<1>10. CASE ReplaceAppend
  <2>1. /\ task \in Notice /\ Posted = Posted' \cup {task}
        /\ UNCHANGED <<db, rows>> /\ Waiting' = Waiting
        /\ AppendRecord(task.id, task.value)
        /\ dropped' = IF CanStore(task.id) THEN dropped ELSE dropped \cup {task.id}
    BY <1>10, ReplaceAppendEffect DEF ReplaceAppend, Waiting
  <2>2. /\ CanStore(task.id) =>
              cache' = cache \cup {[id |-> task.id, key |-> Owner[task.id], value |-> task.value]}
        /\ ~CanStore(task.id) => cache' = cache
    BY <2>1, NoticeFields, AppendStores
  <2>3. IsCached(id) => IsCached(id)'
    BY <2>2, Cached, UnderWayNext
  <2>4. CanStore(task.id) => \E r \in cache' : r.id = task.id
    <3>1. CanStore(task.id) =>
              [id |-> task.id, key |-> Owner[task.id], value |-> task.value] \in cache'
      BY <2>2
    <3>2. [id |-> task.id, key |-> Owner[task.id], value |-> task.value].id = task.id
      OBVIOUS
    <3> QED
      BY <3>1, <3>2, Zenon
  <2>5. Notified(id) => Notified(id)' \/ task.id = id
    BY <2>1, UnderWay, UnderWayNext
  <2>6. task.id = id => IsCached(id)' \/ id \in dropped'
    BY <2>1, <2>4, UnderWayNext
  <2>7. InFlight(id) => InFlight(id)'
    BY <2>1, UnderWay, UnderWayNext
  <2> QED
    BY <2>1, <2>3, <2>5, <2>6, <2>7 DEF Covered, Live, Read
<1>11. CASE LoseNotice
  <2>1. /\ Posted = Posted' \cup {Head(notices)} /\ Waiting' = Waiting
        /\ UNCHANGED <<db, cache, rows>>
        /\ dropped' = dropped \cup {Head(notices).id}
    BY <1>11, LoseEffect DEF LoseNotice, worker, Waiting
  <2>2. /\ Notified(id) => Notified(id)' \/ id \in dropped'
        /\ IsCached(id) => IsCached(id)'
        /\ InFlight(id) => InFlight(id)'
    BY <2>1, UnderWay, UnderWayNext, Cached
  <2> QED
    BY <2>1, <2>2 DEF Covered, Live, Read
<1>12. ASSUME NEW i \in Ids, Create(i) \/ Change(i) \/ Remove(i) PROVE Covered(id)'
  <2>1. PICK v \in Versions \cup {Gone}, op \in {"add", "update", "delete"} :
            /\ Edit(i, v, op)
            /\ v = Gone => op = "delete"
            /\ NewNotice(i, v, op) \in Notice
    BY <1>12, ControlPlaneEdits
  <2>2. /\ Posted' = Posted \cup {NewNotice(i, v, op)}
        /\ db' = [db EXCEPT ![i] = v] /\ UNCHANGED <<cache, rows, dropped>>
        /\ Waiting' = Waiting
    BY <2>1, EditEffect DEF Edit, Waiting, history
  <2>3. NewNotice(i, v, op).id = i
    BY DEF NewNotice
  <2>4. id = i => Notified(id)'
    BY <2>2, <2>3, UnderWayNext
  <2>5. id # i => (Live(id)' <=> Live(id))
    BY <2>2 DEF Live, TypeOK
  <2>6. /\ Notified(id) => Notified(id)'
        /\ IsCached(id) => IsCached(id)'
        /\ InFlight(id) => InFlight(id)'
    BY <2>2, UnderWay, UnderWayNext, Cached
  <2> QED
    BY <2>2, <2>4, <2>5, <2>6 DEF Covered, Read
<1>13. CASE \/ \E k \in Keys : Hit(k) \/ Miss(k)
            \/ Count \/ ReadRows \/ ReadNothing \/ UNCHANGED vars
  <2>1. CASE ReadRows
    BY <1>1, <2>1 DEF ReadRows, TypeOK, history
  <2> QED
    BY <1>1, <1>13, <2>1 DEF Hit, Miss, Count, ReadNothing, vars, history
<1> QED
  BY <1>2, <1>3, <1>4, <1>5, <1>6, <1>7, <1>8, <1>9, <1>10, <1>11, <1>12, <1>13
  DEF Next, Worker, Operational, ControlPlane

LEMMA StaysUntouched ==
    ASSUME TypeOK, NEW k, Untouched(k), rows' \subseteq rows, Waiting' \subseteq Waiting \cup rows,
           Of(k) = {} => Of(k)' = {} \/ k \in seeded',
           k \in seeded => Of(k)' = {} \/ k \in seeded'
    PROVE  Untouched(k)'
<1>1. ASSUME NEW id \in Ids, Owner[id] = k PROVE ~InFlight(id)' /\ ~Read(id)'
  BY <1>1, UnderWay, UnderWayNext DEF Untouched, Read
<1> QED
  BY <1>1 DEF Untouched

LEMMA UntouchedSteps ==
    ASSUME TypeOK, LatestInv, VersionInv, [Next]_vars, NEW k \in Keys, Untouched(k)
    PROVE  Full(k)' \/ Untouched(k)'
<1>. DEFINE Goal == Full(k)' \/ Untouched(k)'
<1>1. CASE UNCHANGED <<cache, recordQueue, hand, rows, seeded>>
  BY <1>1, StaysUntouched DEF Waiting, Of
<1>2. CASE ReadRows
  <2>1. rows' = RowsOf(asked) /\ UNCHANGED <<db, cache, recordQueue, hand, seeded>>
    BY <1>2 DEF ReadRows, history
  <2>2. CASE asked = k
    <3>1. ASSUME NEW id \in Ids, Owner[id] = k, Live(id)' PROVE Read(id)'
      <4>1. [id |-> id, value |-> db[id]] \in rows'
        BY <2>1, <2>2, <3>1 DEF RowsOf, Live
      <4> QED
        BY <4>1 DEF Read
    <3> QED
      BY <3>1 DEF Full, Covered
  <2>3. CASE asked # k
    <3>1. \A f \in rows' : Owner[f.id] # k
      BY <2>1, <2>3 DEF RowsOf
    <3> QED
      BY <2>1, <3>1 DEF Untouched, InFlight, Read, Of
  <2> QED
    BY <2>2, <2>3
<1>3. ASSUME NEW f \in rows, AddQueueForRecord(f) PROVE Goal
  BY <1>3, PushEffect, StaysUntouched DEF AddQueueForRecord, Of, history
<1>4. CASE PopRecord
  BY <1>4, PopEffect, StaysUntouched DEF PopRecord, Of, worker, history
<1>5. CASE AppendFill
  <2>1. /\ Waiting = Waiting' \cup {hand} /\ UNCHANGED <<rows, seeded>>
        /\ hand.id \in Ids /\ hand.value \in Versions
    BY <1>5, AppendFillEffect DEF AppendFill, worker, Fill
  <2>2. Owner[hand.id] # k
    BY <2>1, UnderWay DEF Untouched
  <2>3. \A r \in cache' : r.key = k => r \in cache
    BY <1>5, <2>1, <2>2, AppendStores DEF AppendFill
  <2>4. Of(k) = {} => Of(k)' = {}
    BY <2>3 DEF Of
  <2> QED
    BY <2>1, <2>4, StaysUntouched
<1>6. ASSUME NEW n \in Notice, SyncAdd(n) PROVE Goal
  <2>1. /\ Waiting' = Waiting /\ rows' = rows /\ seeded' = seeded \cup Seeds(n.id)
        /\ AppendRecord(n.id, n.value)
    BY <1>6 DEF SyncAdd, worker, Waiting
  <2>2. Of(k) = {} => Of(k)' = {} \/ k \in seeded'
    <3>1. CASE CanStore(n.id) /\ Owner[n.id] = k
      BY <2>1, <3>1 DEF Seeds
    <3>2. CASE ~(CanStore(n.id) /\ Owner[n.id] = k)
      <4>1. \A r \in cache' : r.key = k => r \in cache
        BY <2>1, <3>2, NoticeFields, AppendStores
      <4> QED
        BY <4>1 DEF Of
    <3> QED
      BY <3>1, <3>2
  <2> QED
    BY <2>1, <2>2, StaysUntouched
<1>7. ASSUME NEW n \in Notice, SyncUpdate(n) PROVE Goal
  <2>1. Waiting' = Waiting /\ UNCHANGED <<rows, seeded>>
    BY <1>7 DEF SyncUpdate, worker, Waiting, history
  <2>2. PICK q \in cache :
            cache' = {r \in cache : r.id # n.id}
                       \cup {[id |-> n.id, key |-> q.key, value |-> n.value]}
    BY <1>7, NoticeFields, ReviseReplaces DEF SyncUpdate
  <2>3. Of(k) = {} => Of(k)' = {}
    BY <2>2 DEF Of
  <2> QED
    BY <2>1, <2>3, StaysUntouched
<1>8. ASSUME NEW n \in Notice, DeleteRecord(n.id), Waiting' = Waiting, rows' = rows,
             seeded' = seeded \ Emptied(n.id)
      PROVE  Goal
  <2>1. cache' = {r \in cache : r.id # n.id}
    BY <1>8, NoticeFields, DeleteDrops
  <2>2. Of(k) = {} => Of(k)' = {}
    BY <2>1 DEF Of
  <2>3. k \in Emptied(n.id) => Of(k)' = {}
    BY <2>1 DEF Emptied, Of, Cache!WithId
  <2> QED
    BY <1>8, <2>2, <2>3, StaysUntouched
<1>9. ASSUME NEW n \in Notice, SyncDelete(n) PROVE Goal
  BY <1>8, <1>9 DEF SyncDelete, worker, Waiting
<1>10. CASE ReplaceDelete
  BY <1>8, <1>10 DEF ReplaceDelete, TypeOK, Waiting
<1>11. CASE ReplaceAppend
  <2>1. /\ Waiting' = Waiting /\ rows' = rows /\ seeded' = seeded \cup Seeds(task.id)
        /\ AppendRecord(task.id, task.value) /\ task \in Notice
    BY <1>11 DEF ReplaceAppend, TypeOK, Waiting
  <2>2. Of(k) = {} => Of(k)' = {} \/ k \in seeded'
    <3>1. CASE CanStore(task.id) /\ Owner[task.id] = k
      BY <2>1, <3>1 DEF Seeds
    <3>2. CASE ~(CanStore(task.id) /\ Owner[task.id] = k)
      <4>1. \A r \in cache' : r.key = k => r \in cache
        BY <2>1, <3>2, NoticeFields, AppendStores
      <4> QED
        BY <4>1 DEF Of
    <3> QED
      BY <3>1, <3>2
  <2> QED
    BY <2>1, <2>2, StaysUntouched
<1>12. CASE \/ \E x \in Keys : Hit(x) \/ Miss(x)
            \/ Count \/ ReadNothing \/ UNCHANGED vars \/ ControlPlane
            \/ \E n \in Notice : SyncReplace(n)
  BY <1>1, <1>12
  DEF Hit, Miss, Count, ReadNothing, vars, history, ControlPlane, Create, Change,
      Remove, Edit, LoseNotice, SyncReplace, worker
<1> QED
  BY <1>2, <1>3, <1>4, <1>5, <1>6, <1>7, <1>9, <1>10, <1>11, <1>12
  DEF Next, Worker, Operational

(* CompleteUnlessSeeded for any names, records and queues: a name is either *)
(* known in full to the cache and what is on its way there, or no fill of   *)
(* it is under way and what is cached came by notices.                      *)
THEOREM FillCompleteUnlessSeeded == Spec => []CompleteUnlessSeeded
<1>. DEFINE Inv == LatestInv /\ VersionInv
<1>1. Init => Inv
  <2> SUFFICES ASSUME Init PROVE Inv
    OBVIOUS
  <2>1. Waiting = {} /\ Posted = {} /\ cache = {} /\ rows = {} /\ task = NoNotice
    BY DEF Init, Waiting, Posted
  <2> QED
    BY <2>1 DEF Init, LatestInv, VersionInv
<1>2. TypeOK /\ Inv /\ [Next]_vars => Inv'
  BY LatestSteps, VersionSteps
<1>3. Init => CompleteInv
  BY DEF Init, CompleteInv, Untouched, InFlight, Read, Of
<1>4. TypeOK /\ Inv /\ CompleteInv /\ [Next]_vars => CompleteInv'
  <2> SUFFICES ASSUME TypeOK, Inv, CompleteInv, [Next]_vars, NEW k \in Keys
               PROVE  Full(k)' \/ Untouched(k)'
    BY DEF CompleteInv
  <2>1. CASE Full(k)
    BY <2>1, StaysCovered DEF Full
  <2>2. CASE Untouched(k)
    BY <2>2, UntouchedSteps
  <2> QED
    BY <2>1, <2>2 DEF CompleteInv
<1>5. CompleteInv => CompleteUnlessSeeded
  <2> SUFFICES ASSUME CompleteInv, NEW id \in Ids, Live(id), Of(Owner[id]) # {}
               PROVE  \/ IsCached(id) \/ InFlight(id) \/ Read(id) \/ Notified(id)
                      \/ id \in dropped \/ Owner[id] \in seeded
    BY DEF CompleteUnlessSeeded
  <2> QED
    BY KeysOf DEF CompleteInv, Full, Covered, Untouched
<1>. HIDE DEF Inv
<1> QED
  BY <1>1, <1>2, <1>3, <1>4, <1>5, FillTypes, PTL DEF Spec
=============================================================================
