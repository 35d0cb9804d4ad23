---------------------------- MODULE RecordStore ----------------------------
(***************************************************************************)
(* What the record cache promises, apart from how it stores anything: a    *)
(* set of records, no two with one id.  A record keeps the key it was      *)
(* added under for life, changes its content only through Revise, and      *)
(* leaves only through Drop (delete_record_from_uuid) or DropSome          *)
(* (delete_record).                                                        *)
(***************************************************************************)
CONSTANTS Keys, Ids, Values

VARIABLE store

Record == [id : Ids, key : Keys, value : Values]

WithId(id) == {r \in store : r.id = id}

(* One record per id: an update or a delete by id means one record. *)
Consistent ==
    /\ store \subseteq Record
    /\ \A r, q \in store : r.id = q.id => r = q

Init == store = {}

Put(k, id, v) ==
    /\ WithId(id) = {}
    /\ store' = store \cup {[id |-> id, key |-> k, value |-> v]}

Revise(id, v) ==
    \E r \in WithId(id) :
        store' = (store \ {r}) \cup {[id |-> id, key |-> r.key, value |-> v]}

Drop(id) ==
    \E r \in WithId(id) : store' = store \ {r}

\* delete_record takes one chain away, so every record it drops has one key
DropSome(k) ==
    \E D \in SUBSET {r \in store : r.key = k} : store' = store \ D

Next ==
    \/ \E k \in Keys, id \in Ids, v \in Values : Put(k, id, v)
    \/ \E id \in Ids, v \in Values : Revise(id, v)
    \/ \E id \in Ids : Drop(id)
    \/ \E k \in Keys : DropSome(k)

Spec == Init /\ [][Next]_store
=============================================================================
