--------------------------- MODULE SyncProperties ---------------------------
(***************************************************************************)
(* What the control plane may conclude from an answer.  Core.cpp:317-323   *)
(* says 0 = Success, 1 = Not Found, 2 = Error.                             *)
(***************************************************************************)
EXTENDS SyncRequests

(* Each cache holds an id at most once and no value that does not fit, and *)
(* every request gets one of the three answers.                            *)
TypeOK ==
    /\ records \subseteq [id : Ids, key : Keys, value : Values \ Oversized]
    /\ entries \subseteq [id : Ids, key : EntryKeys, value : Values \ Oversized]
    /\ \A r, q \in records : r.id = q.id => r = q
    /\ \A r, q \in entries : r.id = q.id => r = q
    /\ Cardinality(records) <= MaxRecords /\ Cardinality(entries) <= MaxRecords
    /\ reply \in {"0", "1", "400"}

(* An update may delete before it appends.  It never loses the record it   *)
(* was to change, and stores one that was not cached: unless the new value *)
(* is too large for a slot, or the cache has no room for the record.       *)
UpdateLosesNothing ==
    [][request'.family = "record" /\ request'.op = "update" /\ reply' = "0" =>
        \/ \E r \in WithId(records', request'.id) : r.value = request'.value
        \/ request'.value \in Oversized
        \/ WithId(records, request'.id) = {} /\ ~HasRoom(records, request'.id)]_vars

(* An update of an entry that names the group it is cached in leaves it    *)
(* cached, with the country and the address of the request.                *)
EntryUpdateTakes ==
    [][request'.family = "entry" /\ request'.op = "update" /\ reply' = "0" =>
        \/ Item(request'.id, request'.key, request'.value) \in entries'
        \/ InGroup(request'.id, request'.key[1]) = {} /\ ~HasRoom(entries, request'.id)]_vars

-----------------------------------------------------------------------------
(* Core.cpp:320-322, "0 = Success", "1 = Not Found", "2 = Error": after an  *)
(* add or an update that is answered "0" the record is in the cache as the *)
(* request gave it, and a delete that is answered "0" found its record.    *)
SuccessMeansCarriedOut ==
    [][request'.family = "record" /\ reply' = "0" =>
        IF request'.op = "delete" THEN WithId(records, request'.id) # {}
        ELSE Item(request'.id, request'.key, request'.value) \in records']_vars

(* Core.cpp:293, "1-3 - Ip Group Entry Delete": a delete that names a      *)
(* cached entry with all its parameters takes it out of the cache.         *)
EntryDeleteCarriedOut ==
    [][request'.family = "entry" /\ request'.op = "delete" /\ request'.fields = "all"
        => ~\E e \in entries' : e.id = request'.id /\ e.key = request'.key]_vars
=============================================================================
