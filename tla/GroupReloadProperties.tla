----------------------- MODULE GroupReloadProperties -----------------------
(***************************************************************************)
(* How far the entries in memory may be from the database.                 *)
(***************************************************************************)
EXTENDS GroupReload

Vectored == UNION {{group_entries[c][i] : i \in DOMAIN group_entries[c]} : c \in Countries}

\* every id stands once in the vector of its country, at its index
VectorsExact ==
    /\ Vectored = DOMAIN entries
    /\ \A c \in Countries : \A i \in DOMAIN group_entries[c] :
           LET id == group_entries[c][i]
           IN  entries[id] = [countryCode |-> c, indexInVector |-> i - 1]

\* the rows a successful second query would read that are in memory already
ReadAgain == \E r \in rows : r.version > since /\ r.id \in DOMAIN entries

(* Vectors and indices go out of step in one way only: incrementalAdded    *)
(* reads an entry that is in memory, since it was changed or since a full  *)
(* load left the version behind it, and pushes it a second time            *)
(* (Group.cpp:389).  Loading, and removing from any place of a vector      *)
(* (Group.cpp:301-325), keep them exact.                                   *)
VectorsDamagedOnlyByReading ==
    [][VectorsExact /\ ~VectorsExact' => IncrementalAdded(TRUE) /\ ReadAgain]_vars

-----------------------------------------------------------------------------

\* the entry is in memory although it was removed, and its removal will not be
\* read again
Lingers(id) ==
    /\ id \in DOMAIN entries /\ ~HasRow(id)
    /\ ~\E l \in log : l.id = id /\ l.removed /\ l.version > version
    /\ ~\E i \in DOMAIN todo : todo[i].id = id /\ todo[i].removed

(* A removed entry stays for good, until a full reload, only if the        *)
(* removal came between the two queries of an incremental reload, or the   *)
(* first query failed: the second one then moves the version past it       *)
(* (Group.cpp:288, 391).  A damaged vector may also bring one back         *)
(* (Group.cpp:319).                                                        *)
LingersOnlyIfPassed ==
    [][\A id \in Ids : VectorsExact /\ ~Lingers(id) /\ Lingers(id)' =>
         /\ pc = "removing"
         /\ \E l \in log : l.id = id /\ l.removed /\ l.version > seen]_vars

\* the entry is not in memory as its row has it, and will not be read again
Missing(id) ==
    \E r \in rows :
        /\ r.id = id
        /\ r.version <= IF pc = "idle" THEN version ELSE since
        /\ id \in DOMAIN entries => entries[id].countryCode # r.country

(* An added or changed entry is missed for good, until a full reload, only *)
(* if the second query failed after the first had moved the version        *)
(* (Group.cpp:279-282, 340).                                               *)
MissingOnlyIfFailed ==
    [][\A id \in Ids : ~Missing(id) /\ Missing(id)' =>
         pc = "removing" /\ version > since /\ IncrementalAdded(FALSE)]_vars
=============================================================================
