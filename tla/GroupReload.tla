---------------------------- MODULE GroupReload ----------------------------
(***************************************************************************)
(* Group: the copy of an ip group's entries that a server keeps in memory  *)
(* and how it follows the database.  All three maps are per group and a    *)
(* call touches one group, so this is one group.  A version is a time      *)
(* uuid; versions are numbered in their order, and TimeOf gives the time   *)
(* part, which two of them may share.                                      *)
(*                                                                         *)
(* An incremental reload asks twice, for the log of versions and then for  *)
(* the entries, and the database may change in between.  Nothing calls     *)
(* this class yet.                                                         *)
(***************************************************************************)
EXTENDS Integers, Sequences, FiniteSets, SequencesExt

CONSTANTS
    Ids,         \* uuids of entries, never used again
    Countries,   \* location_code
    NoCountry,   \* the empty code of an entry that operator[] makes
    MaxVersion,  \* bound: edits of the group
    TimeOf       \* version |-> its time_and_version

Versions == 1 .. MaxVersion
Unversioned == 0       \* the least time uuid, which initIpGroups starts with

ASSUME GroupAssumption ==
    /\ NoCountry \notin Countries
    /\ MaxVersion \in Nat \ {0}
    /\ TimeOf \in [0 .. MaxVersion -> Nat]
    /\ \A v, w \in 0 .. MaxVersion : v <= w => TimeOf[v] <= TimeOf[w]
    /\ TimeOf[1] > TimeOf[0]

Row == [id : Ids, country : Countries, version : Versions]
LogRow == [id : Ids, version : Versions, removed : BOOLEAN]

VARIABLES
    rows,           \* edgeon.ip_group_entries
    log,            \* edgeon.ip_group_versions
    latest,         \* the version given out last
    version,        \* groups[g].version
    group_entries,  \* group_entries[g]: country |-> ids
    entries,        \* entries[g]: id |-> countryCode and indexInVector
    pc,             \* where the caller of Group is
    since,          \* v: the version an incremental reload started from
    todo,           \* the log rows of the first query, not handled yet
    seen            \* the last version the first query saw; for the properties only

database == <<rows, log, latest>>
loaded == <<group_entries, entries>>
vars == <<rows, log, latest, version, group_entries, entries, pc, since, todo, seen>>

Nothing == [id \in {} |-> Unversioned]   \* an empty map

Init ==
    /\ rows = {} /\ log = {} /\ latest = Unversioned
    /\ version = Unversioned
    /\ group_entries = [c \in Countries |-> <<>>] /\ entries = Nothing
    /\ pc = "start" /\ since = Unversioned /\ todo = <<>> /\ seen = Unversioned

-----------------------------------------------------------------------------
(* A result of a query *)

\* "version > ?" needs the rows ordered by version, so they come in this order:
\* the row at place i has i - 1 before it
InOrder(S) ==
    [i \in 1 .. Cardinality(S) |->
        CHOOSE r \in S : Cardinality({s \in S : s.version < r.version}) = i - 1]

\* rows are pushed at the end of the vector of their country
Pushed(vectors, read) ==
    [c \in Countries |->
        LET mine == InOrder({r \in read : r.country = c})
        IN  vectors[c] \o [i \in DOMAIN mine |-> mine[i].id]]

\* and entries[g][id] is written with the place it got there
Indexed(vectors, known, read) ==
    LET now == Pushed(vectors, read)
        row(id) == CHOOSE r \in read : r.id = id
        place(id) == CHOOSE i \in DOMAIN now[row(id).country] :
                        /\ i > Len(vectors[row(id).country])
                        /\ now[row(id).country][i] = id IN
    [id \in DOMAIN known \cup {r.id : r \in read} |->
        IF \E r \in read : r.id = id
        THEN [countryCode |-> row(id).country, indexInVector |-> place(id) - 1]
        ELSE known[id]]

\* initIpEntries and fullReload compare the time only, so of two rows of one
\* time the first decides
LaterByTime(v, read) ==
    LET later == {r.version : r \in {r \in read : TimeOf[r.version] > TimeOf[v]}}
        last == {b \in later : \A c \in later : TimeOf[c] <= TimeOf[b]}
    IN  IF later = {} THEN v ELSE CHOOSE b \in last : \A c \in last : b <= c

Later(v, w) == IF v < w THEN w ELSE v

-----------------------------------------------------------------------------
(* Group *)

InitIpGroups ==
    /\ pc = "start"
    /\ version' = Unversioned
    /\ pc' = "loading"
    /\ UNCHANGED <<database, loaded, since, todo, seen>>

\* a query that fails loads nothing
InitIpEntries(ok) ==
    LET read == IF ok THEN rows ELSE {} IN
    /\ pc = "loading"
    /\ group_entries' = Pushed(group_entries, read)
    /\ entries' = Indexed(group_entries, entries, read)
    /\ version' = LaterByTime(version, read)
    /\ pc' = "idle"
    /\ UNCHANGED <<database, since, todo, seen>>

\* the maps are cleared only when the query has succeeded
FullReload ==
    LET none == [c \in Countries |-> <<>>] IN
    /\ pc = "idle"
    /\ group_entries' = Pushed(none, rows)
    /\ entries' = Indexed(none, Nothing, rows)
    /\ version' = LaterByTime(version, rows)
    /\ UNCHANGED <<database, pc, since, todo, seen>>

\* the first query of incrementalReload
IncrementalReload(ok) ==
    /\ pc = "idle"
    /\ since' = version
    /\ todo' = IF ok THEN InOrder({l \in log : l.version > version}) ELSE <<>>
    /\ seen' = IF ok THEN latest ELSE version
    /\ pc' = "removing"
    /\ UNCHANGED <<database, loaded, version>>

VectorOf(c) == IF c \in Countries THEN group_entries[c] ELSE <<>>
Inside(entry) == entry.indexInVector < Len(VectorOf(entry.countryCode))

\* the last id of the vector takes the place of the removed one
OutOfVector(entry) ==
    IF Inside(entry)
    THEN LET c == entry.countryCode
             vector == group_entries[c]
         IN  [group_entries EXCEPT ![c] =
                 Front([vector EXCEPT ![entry.indexInVector + 1] = Last(vector)])]
    ELSE group_entries

\* mutant: the entry that takes the place keeps its old index
IncrementalRemovedOnly(id) ==
    /\ group_entries' = OutOfVector(entries[id])
    /\ entries' = [i \in DOMAIN entries \ {id} |-> entries[i]]

\* and learns its index; that makes an entry if the vector kept the id of one
\* that is gone, here without moving the map entry_it points into
IncrementalRemoved(id) ==
    LET index == entries[id].indexInVector
        vector == VectorOf(entries[id].countryCode)
        moved == IF Inside(entries[id]) /\ index # Len(vector) - 1 THEN {Last(vector)} ELSE {}
    IN  /\ group_entries' = OutOfVector(entries[id])
        /\ entries' = [i \in (DOMAIN entries \cup moved) \ {id} |->
               [countryCode |-> IF i \in DOMAIN entries THEN entries[i].countryCode
                                ELSE NoCountry,
                indexInVector |-> IF i \in moved THEN index ELSE entries[i].indexInVector]]

\* mutant: a removal moves the version only
TakeVersionOnly ==
    /\ pc = "removing" /\ todo # <<>>
    /\ version' = Later(version, Head(todo).version)
    /\ todo' = Tail(todo)
    /\ UNCHANGED <<database, loaded, pc, since, seen>>

\* a row of the log: a removal is carried out, every row moves the version
TakeVersion ==
    /\ pc = "removing" /\ todo # <<>>
    /\ LET l == Head(todo) IN
       /\ IF l.removed /\ l.id \in DOMAIN entries THEN IncrementalRemoved(l.id)
          ELSE UNCHANGED loaded
       /\ version' = Later(version, l.version)
    /\ todo' = Tail(todo)
    /\ UNCHANGED <<database, pc, since, seen>>

\* mutant: the entries are asked for from the version the removals led to
IncrementalAddedSinceNow(ok) ==
    LET read == IF ok THEN {r \in rows : r.version > version} ELSE {} IN
    /\ pc = "removing" /\ todo = <<>>
    /\ group_entries' = Pushed(group_entries, read)
    /\ entries' = Indexed(group_entries, entries, read)
    /\ version' = Max({version} \cup {r.version : r \in read})
    /\ pc' = "idle"
    /\ UNCHANGED <<database, since, todo, seen>>

\* the second query, from the version the reload started from
IncrementalAdded(ok) ==
    LET read == IF ok THEN {r \in rows : r.version > since} ELSE {} IN
    /\ pc = "removing" /\ todo = <<>>
    /\ group_entries' = Pushed(group_entries, read)
    /\ entries' = Indexed(group_entries, entries, read)
    /\ version' = Max({version} \cup {r.version : r \in read})
    /\ pc' = "idle"
    /\ UNCHANGED <<database, since, todo, seen>>

-----------------------------------------------------------------------------
(* The control plane, outside this repository: every edit of a row gets    *)
(* the next version and a row in the log.                                  *)

Edit(id, new, removed) ==
    /\ latest < MaxVersion
    /\ latest' = latest + 1
    /\ rows' = {r \in rows : r.id # id} \cup new
    /\ log' = log \cup {[id |-> id, version |-> latest + 1, removed |-> removed]}
    /\ UNCHANGED <<version, loaded, pc, since, todo, seen>>

HasRow(id) == \E r \in rows : r.id = id
AsRow(id, c) == [id |-> id, country |-> c, version |-> latest + 1]

Create(id, c) == ~(\E l \in log : l.id = id) /\ Edit(id, {AsRow(id, c)}, FALSE)
Change(id, c) == HasRow(id) /\ Edit(id, {AsRow(id, c)}, FALSE)
Delete(id) == HasRow(id) /\ Edit(id, {}, TRUE)

-----------------------------------------------------------------------------

Server ==
    \/ InitIpGroups \/ FullReload \/ TakeVersion
    \/ \E ok \in BOOLEAN : InitIpEntries(ok) \/ IncrementalReload(ok) \/ IncrementalAdded(ok)

ControlPlane ==
    \E id \in Ids : Delete(id) \/ \E c \in Countries : Create(id, c) \/ Change(id, c)

Next == Server \/ ControlPlane

Spec == Init /\ [][Next]_vars
=============================================================================
