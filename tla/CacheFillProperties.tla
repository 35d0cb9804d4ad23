------------------------ MODULE CacheFillProperties ------------------------
(***************************************************************************)
(* What the cache shows of the database while fills, updates and deletions *)
(* overtake one another.                                                   *)
(***************************************************************************)
EXTENDS CacheFill

(* The variables' types, and where the worker can be. *)
TypeOK ==
    /\ db \in [Ids -> Versions \cup {Future, Gone}]
    /\ Cache!Consistent
    /\ recordQueue \in Seq(Fill) /\ hand \in Fill \cup {NoFill}
    /\ pc \in {"idle", "counting", "reading", "queueing", "deleting", "appending"}
    /\ wanted \in Keys \cup {NoKey} /\ asked \in Keys \cup {NoKey}
    /\ fell \in BOOLEAN /\ lacked \in BOOLEAN
    /\ wanted # NoKey <=> (pc \in {"counting", "reading", "queueing"})
    /\ rows \subseteq Fill /\ task \in Notice \cup {NoNotice}
    /\ rows # {} <=> (pc = "queueing")
    /\ task # NoNotice <=> (pc \in {"deleting", "appending"})
    /\ notices \in Seq(Notice)
    /\ overtaken \subseteq Ids /\ dropped \subseteq Ids /\ seeded \subseteq Keys

(* A cached record is the row of the database unless its notice is still   *)
(* under way, was lost, or met one of the two races the code leaves open:  *)
(* a delete that came while a fill of the record was queued, and an update *)
(* whose append was refused because a fill got in between its delete and   *)
(* its append.  In particular a fill never undoes an update: the update    *)
(* of an uncached record stores it, and append_record then refuses the     *)
(* older copy.                                                             *)
StaleOnlyIfOvertaken ==
    \A r \in cache :
        r.value = db[r.id] \/ Notified(r.id) \/ r.id \in overtaken

(* A name that is answered from the cache is answered in full, except for  *)
(* records that are on their way to the cache, that append_record refused  *)
(* or whose notice was lost, and except for names whose first record came  *)
(* by a Sync notice: those stay partial.                                   *)
CompleteUnlessSeeded ==
    \A id \in Ids :
        Live(id) /\ Of(Owner[id]) # {} =>
            \/ IsCached(id) \/ InFlight(id) \/ Read(id) \/ Notified(id)
            \/ id \in dropped \/ Owner[id] \in seeded

(* A query of a country is answered with DEFAULT's entries only if the     *)
(* country had no entry in the database at some time during the query, or  *)
(* a read of the database failed: counting and reading in two queries      *)
(* loses no country that has entries throughout.                           *)
FallbackOnlyIfLacking == fell => lacked

(* Every row a query read is cached in the end, refused by the cache, or   *)
(* deleted meanwhile: none is lost between the worker's queueing, the      *)
(* operational thread's pop and its append.                                *)
FillCompletes ==
    \A id \in Ids : Read(id) ~> (IsCached(id) \/ id \in dropped \/ ~Live(id))
=============================================================================
