------------------------- MODULE GroupReloadProofs -------------------------
(***************************************************************************)
(* How far the entries in memory may be from the database, for any         *)
(* entries, countries, edits and times.                                    *)
(*                                                                         *)
(* The rows of the database never share an id or a version, and a removed  *)
(* id has no row.  While the log is worked through, what it had above the  *)
(* version of the group is still to be handled.                            *)
(***************************************************************************)
EXTENDS GroupReloadProperties, FiniteSetTheorems, SequenceTheorems,
        WellFoundedInduction, TLAPS

\* rows of the database, or of a result
Distinct(read) ==
    /\ read \subseteq Row /\ IsFiniteSet(read)
    /\ \A r, s \in read : r.id = s.id \/ r.version = s.version => r = s

DatabaseInv ==
    /\ Distinct(rows)
    /\ log \subseteq LogRow /\ IsFiniteSet(log)
    /\ latest \in 0 .. MaxVersion
    /\ \A r \in rows : r.version <= latest
    /\ \A l \in log : l.version <= latest
    /\ \A l, k \in log : l.version = k.version => l = k
    /\ \A l \in log : l.removed => ~HasRow(l.id)

Vectors == [Countries -> Seq(Ids)]
Entry == [countryCode : Countries \cup {NoCountry}, indexInVector : Nat]

MemoryInv ==
    /\ group_entries \in Vectors
    /\ DOMAIN entries \subseteq Ids /\ entries \in [DOMAIN entries -> Entry]
    /\ version \in 0 .. latest /\ since \in 0 .. latest /\ seen \in 0 .. latest

ReloadInv ==
    /\ pc \in {"start", "loading", "idle", "removing"}
    /\ pc \in {"start", "loading"} =>
           /\ entries = Nothing /\ group_entries = [c \in Countries |-> <<>>]
           /\ version = Unversioned /\ since = Unversioned
    /\ todo \in Seq(log)
    /\ pc # "removing" => todo = <<>>
    /\ \A i \in DOMAIN todo : todo[i].version <= seen
    /\ pc = "removing" =>
           \A l \in log : version < l.version /\ l.version <= seen =>
               \E i \in DOMAIN todo : todo[i] = l

Inv == DatabaseInv /\ MemoryInv /\ ReloadInv

-----------------------------------------------------------------------------
(* Sets of versions *)

LEMMA Least ==
    ASSUME NEW T \in SUBSET Nat, T # {}
    PROVE  \E m \in T : \A n \in T : m <= n
<1> DEFINE R == OpToRel(<, Nat)
<1>1. \A x, y \in Nat : x < y => <<x, y>> \in R
  BY DEF OpToRel
<1>2. IsWellFoundedOn(R, Nat)
  BY NatLessThanWellFounded
<1> HIDE DEF R
<1>3. PICK m \in T : \A n \in T : ~(<<n, m>> \in R)
  BY <1>2, WFMin
<1>4. ASSUME NEW n \in T PROVE m <= n
  <2>1. n \in Nat /\ m \in Nat
    OBVIOUS
  <2>2. ~(n < m)
    BY <1>1, <1>3, <2>1
  <2> QED BY <2>1, <2>2
<1> QED BY <1>4

LEMMA Greatest ==
    ASSUME NEW N \in Nat, NEW T \in SUBSET (0 .. N), T # {}
    PROVE  \E m \in T : \A t \in T : t <= m
<1>1. PICK V : V = {N - t : t \in T}
  OBVIOUS
<1>2. V \in SUBSET Nat /\ V # {}
  <2>1. \A t \in T : N - t \in Nat
    OBVIOUS
  <2> QED BY <1>1, <2>1
<1>3. PICK v \in V : \A w \in V : v <= w
  BY <1>2, Least
<1>4. PICK m \in T : v = N - m
  BY <1>1
<1>5. ASSUME NEW t \in T PROVE t <= m
  <2>1. v <= N - t
    BY <1>1, <1>3
  <2>2. t \in Int /\ m \in Int
    OBVIOUS
  <2> QED BY <1>4, <2>1, <2>2
<1> QED BY <1>5

LEMMA MaxFacts ==
    ASSUME NEW N \in Nat, NEW T \in SUBSET (0 .. N), T # {}
    PROVE  Max(T) \in T /\ \A t \in T : t <= Max(T)
<1>1. \E m \in T : \A t \in T : m >= t
  BY Greatest
<1> QED BY <1>1 DEF Max

LEMMA LaterByTimeFacts ==
    ASSUME NEW N \in 0 .. MaxVersion, NEW v \in 0 .. N, NEW read,
           \A r \in read : r.version \in 1 .. N
    PROVE  /\ LaterByTime(v, read) \in 0 .. N
           /\ read = {} => LaterByTime(v, read) = v
<1> DEFINE later == {r.version : r \in {r \in read : TimeOf[r.version] > TimeOf[v]}}
           last == {b \in later : \A c \in later : TimeOf[c] <= TimeOf[b]}
<1>1. N \in Nat /\ MaxVersion \in Nat /\ v \in Nat
  BY GroupAssumption
<1>2. later \in SUBSET (0 .. N)
  OBVIOUS
<1>3. read = {} => later = {}
  OBVIOUS
<1>4. LaterByTime(v, read) =
          IF later = {} THEN v ELSE CHOOSE b \in last : \A c \in last : b <= c
  BY DEF LaterByTime
<1>5. ASSUME later # {}
      PROVE  (CHOOSE b \in last : \A c \in last : b <= c) \in 0 .. N
  <2> HIDE DEF later
  <2>1. PICK m \in later : \A c \in later : c <= m
    BY <1>1, <1>2, <1>5, Greatest
  <2>2. \A c \in later : c \in 0 .. MaxVersion
    BY <1>1, <1>2
  <2>3. m \in last
    BY <2>1, <2>2, GroupAssumption
  <2>4. last \in SUBSET Nat
    <3>1. \A b \in last : b \in later
      OBVIOUS
    <3>2. \A b \in later : b \in Nat
      BY <1>1, <1>2
    <3> QED BY <3>1, <3>2
  <2>5. \E b \in last : \A c \in last : b <= c
    BY <2>3, <2>4, Least
  <2>6. last \subseteq 0 .. N
    BY <1>2
  <2> HIDE DEF last
  <2> QED BY <2>5, <2>6
<1> QED BY <1>3, <1>4, <1>5

-----------------------------------------------------------------------------
(* Results of queries *)

(* A result in order has each of its rows at one place.                    *)
LEMMA InOrderFacts ==
    ASSUME NEW S, IsFiniteSet(S), \A r \in S : r.version \in Nat,
           \A r, s \in S : r.version = s.version => r = s
    PROVE  /\ InOrder(S) \in Seq(S)
           /\ DOMAIN InOrder(S) = 1 .. Len(InOrder(S))
           /\ Len(InOrder(S)) = Cardinality(S)
           /\ \A r \in S : \E i \in DOMAIN InOrder(S) : InOrder(S)[i] = r
           /\ \A i, j \in DOMAIN InOrder(S) : InOrder(S)[i] = InOrder(S)[j] => i = j
<1> DEFINE before(r) == {s \in S : s.version < r.version}
<1>1. PICK n \in Nat : n = Cardinality(S)
  BY FS_CardinalityType
<1>2. PICK place : place = [r \in S |-> Cardinality(before(r)) + 1]
  OBVIOUS
<1>3. ASSUME NEW r \in S
      PROVE  IsFiniteSet(before(r)) /\ place[r] \in 1 .. n
  <2>1. before(r) \in SUBSET S /\ r \notin before(r)
    OBVIOUS
  <2>2. /\ IsFiniteSet(before(r)) /\ Cardinality(before(r)) <= n
        /\ Cardinality(before(r)) = n => before(r) = S
    BY <1>1, <2>1, FS_Subset
  <2>3. Cardinality(before(r)) \in Nat
    BY <2>2, FS_CardinalityType
  <2>4. Cardinality(before(r)) # n
    BY <2>1, <2>2
  <2>5. place[r] = Cardinality(before(r)) + 1
    BY <1>2
  <2> HIDE DEF before
  <2> QED BY <1>1, <2>2, <2>3, <2>4, <2>5
<1>4. ASSUME NEW r \in S, NEW s \in S, r.version < s.version
      PROVE  place[r] # place[s]
  <2>1. before(r) \in SUBSET before(s) /\ r \in before(s) /\ r \notin before(r)
    BY <1>4
  <2>2. Cardinality(before(r)) # Cardinality(before(s))
    <3>1. IsFiniteSet(before(s)) /\ before(r) # before(s)
      BY <1>3, <2>1
    <3> HIDE DEF before
    <3> QED BY <2>1, <3>1, FS_Subset
  <2>3. Cardinality(before(r)) \in Nat /\ Cardinality(before(s)) \in Nat
    BY <1>3, FS_CardinalityType
  <2>4. place[r] = Cardinality(before(r)) + 1 /\ place[s] = Cardinality(before(s)) + 1
    BY <1>2
  <2> HIDE DEF before
  <2> QED BY <2>2, <2>3, <2>4
<1>5. ASSUME NEW r \in S, NEW s \in S, place[r] = place[s]
      PROVE  r = s
  <2>1. ~(r.version < s.version) /\ ~(s.version < r.version)
    BY <1>4, <1>5
  <2> QED BY <2>1
<1>6. place \in Injection(S, 1 .. n)
  <2>1. place \in [S -> 1 .. n]
    BY <1>2, <1>3
  <2> QED BY <1>5, <2>1 DEF Injection, IsInjective
<1>7. \A i \in 1 .. n : \E r \in S : place[r] = i
  <2>1. IsFiniteSet(1 .. n) /\ Cardinality(1 .. n) = n
    BY FS_Interval
  <2>2. place \in Surjection(S, 1 .. n)
    BY <1>1, <1>6, <2>1, FS_Injection
  <2> QED BY <2>2 DEF Surjection
<1>8. PICK o : o = InOrder(S)
  OBVIOUS
<1>9. o = [i \in 1 .. n |-> CHOOSE r \in S : Cardinality(before(r)) = i - 1]
  BY <1>1, <1>8 DEF InOrder
<1>10. \A r \in S : place[r] = Cardinality(before(r)) + 1 /\ Cardinality(before(r)) \in Nat
  BY <1>2, <1>3, FS_CardinalityType
<1> HIDE DEF before
<1>11. ASSUME NEW i \in 1 .. n
       PROVE  o[i] \in S /\ place[o[i]] = i
  <2>1. \A r \in S : Cardinality(before(r)) = i - 1 <=> place[r] = i
    BY <1>10
  <2>2. \E r \in S : Cardinality(before(r)) = i - 1
    BY <1>7, <2>1
  <2>3. o[i] = CHOOSE r \in S : Cardinality(before(r)) = i - 1
    BY <1>9
  <2> QED BY <2>1, <2>2, <2>3
<1>12. o \in [1 .. n -> S]
  BY <1>9, <1>11
<1>13. o \in Seq(S) /\ Len(o) = n /\ DOMAIN o = 1 .. n
  <2>1. o \in Seq(S)
    BY <1>12, SeqDef
  <2>2. DOMAIN o = 1 .. Len(o) /\ Len(o) \in Nat /\ DOMAIN o = 1 .. n
    BY <1>12, <2>1, LenProperties
  <2>3. ASSUME NEW k \in Nat, NEW m \in Nat, 1 .. k = 1 .. m
        PROVE  k = m
    <3>1. (k >= 1 => k \in 1 .. m) /\ (m >= 1 => m \in 1 .. k)
      BY <2>3
    <3> QED BY <3>1
  <2>4. Len(o) = n
    BY <2>2, <2>3
  <2> QED BY <2>1, <2>2, <2>4
<1>14. ASSUME NEW r \in S
       PROVE  \E i \in 1 .. n : o[i] = r
  <2>1. place[r] \in 1 .. n
    BY <1>3
  <2>2. o[place[r]] = r
    BY <1>5, <1>11, <2>1
  <2> QED BY <2>1, <2>2
<1>15. \A i, j \in 1 .. n : o[i] = o[j] => i = j
  BY <1>11
<1> QED BY <1>1, <1>8, <1>13, <1>14, <1>15

\* w is v with the ids of S behind it, each once
Behind(v, S, w) ==
    /\ w \in Seq(Ids) /\ Len(v) <= Len(w)
    /\ \A i \in 1 .. Len(v) : w[i] = v[i]
    /\ \A r \in S : \E i \in Len(v) + 1 .. Len(w) : w[i] = r.id
    /\ \A i \in Len(v) + 1 .. Len(w) : \E r \in S : r.id = w[i]
    /\ \A i, j \in Len(v) + 1 .. Len(w) : w[i] = w[j] => i = j

\* the ids of rows, in their order
IdsOf(mine, ids) ==
    ids \in [DOMAIN mine -> Ids] /\ \A i \in DOMAIN mine : ids[i] = mine[i].id

LEMMA BehindVector ==
    ASSUME NEW v \in Seq(Ids), NEW S, Distinct(S), NEW mine, mine = InOrder(S),
           NEW ids, IdsOf(mine, ids), NEW w, w = v \o ids
    PROVE  Behind(v, S, w)
<1>1. /\ mine \in Seq(S) /\ DOMAIN mine = 1 .. Len(mine)
      /\ \A r \in S : \E i \in DOMAIN mine : mine[i] = r
      /\ \A i, j \in DOMAIN mine : mine[i] = mine[j] => i = j
  <2>1. /\ IsFiniteSet(S) /\ \A r \in S : r.version \in Nat
        /\ \A r, s \in S : r.version = s.version => r = s
    BY DEF Distinct, Row, Versions
  <2> QED BY <2>1, InOrderFacts
<1>2. PICK n \in Nat : n = Len(mine) /\ DOMAIN mine = 1 .. n
  BY <1>1, LenProperties
<1>3. \A i \in 1 .. n : mine[i] \in S /\ ids[i] = mine[i].id /\ ids[i] \in Ids
  <2>1. \A i \in 1 .. n : mine[i] \in S
    BY <1>1, <1>2, ElementOfSeq
  <2> QED BY <1>2, <2>1 DEF IdsOf
<1>4. ids \in Seq(Ids) /\ Len(ids) = n
  <2>1. ids \in [1 .. n -> Ids]
    BY <1>2 DEF IdsOf
  <2> QED BY <2>1, SeqDef
<1>5. PICK m \in Nat : m = Len(v)
  BY LenProperties
<1>6. /\ w \in Seq(Ids) /\ Len(w) = m + n
      /\ \A i \in 1 .. m : w[i] = v[i]
      /\ \A i \in 1 .. n : w[m + i] = ids[i]
  <2>1. w = v \o ids
    OBVIOUS
  <2>2. /\ w \in Seq(Ids) /\ Len(w) = m + n
        /\ \A i \in 1 .. m + n : w[i] = IF i <= m THEN v[i] ELSE ids[i - m]
    <3>1. /\ v \o ids \in Seq(Ids) /\ Len(v \o ids) = Len(v) + Len(ids)
          /\ \A i \in 1 .. Len(v) + Len(ids) :
                 (v \o ids)[i] = IF i <= Len(v) THEN v[i] ELSE ids[i - Len(v)]
      BY ONLY v \in Seq(Ids), <1>4, ConcatProperties
    <3> QED BY ONLY <1>4, <1>5, <2>1, <3>1
  <2>3. ASSUME NEW i \in 1 .. n PROVE w[m + i] = ids[i]
    <3>1. m + i \in 1 .. m + n /\ ~(m + i <= m) /\ (m + i) - m = i
      BY <1>2, <1>5
    <3> QED BY <2>2, <3>1
  <2>4. \A i \in 1 .. m : i \in 1 .. m + n /\ i <= m
    BY <1>2, <1>5
  <2> QED BY <2>2, <2>3, <2>4
<1>7. ASSUME NEW r \in S PROVE \E i \in m + 1 .. m + n : w[i] = r.id
  <2>1. PICK i \in 1 .. n : mine[i] = r
    BY <1>1, <1>2
  <2>2. m + i \in m + 1 .. m + n
    BY <1>2, <1>5
  <2> QED BY <1>3, <1>6, <2>1, <2>2
<1>8. ASSUME NEW i \in m + 1 .. m + n
      PROVE  i - m \in 1 .. n /\ w[i] = mine[i - m].id /\ mine[i - m] \in S
  <2>1. i - m \in 1 .. n /\ m + (i - m) = i
    BY <1>2, <1>5
  <2> QED BY <1>3, <1>6, <2>1
<1>9. ASSUME NEW i \in m + 1 .. m + n, NEW j \in m + 1 .. m + n, w[i] = w[j]
       PROVE  i = j
  <2>1. mine[i - m] = mine[j - m]
    <3>1. \A r, s \in S : r.id = s.id => r = s
      BY DEF Distinct
    <3>2. /\ w[i] = mine[i - m].id /\ mine[i - m] \in S
          /\ w[j] = mine[j - m].id /\ mine[j - m] \in S
      BY ONLY <1>8, i \in m + 1 .. m + n, j \in m + 1 .. m + n
    <3> QED BY ONLY <3>1, <3>2, <1>9
  <2>2. i - m = j - m
    BY <1>1, <1>2, <1>8, <2>1
  <2> QED BY <1>5, <2>2
<1>10. m <= m + n
  BY <1>2, <1>5
<1>11. \A i \in m + 1 .. m + n : \E r \in S : r.id = w[i]
  BY ONLY <1>8
<1>12. \A i, j \in m + 1 .. m + n : w[i] = w[j] => i = j
  BY ONLY <1>9
<1>13. Len(v) = m /\ Len(w) = m + n
  BY ONLY <1>5, <1>6
<1> QED BY ONLY <1>6, <1>7, <1>10, <1>11, <1>12, <1>13 DEF Behind

Of(c, read) == {r \in read : r.country = c}

LEMMA PushedFacts ==
    ASSUME NEW vectors \in Vectors, NEW read, Distinct(read)
    PROVE  /\ Pushed(vectors, read) \in Vectors
           /\ \A c \in Countries : Behind(vectors[c], Of(c, read), Pushed(vectors, read)[c])
<1>1. PICK now : now = Pushed(vectors, read)
  OBVIOUS
<1>2. now = [c \in Countries |-> vectors[c] \o
                 [i \in DOMAIN InOrder(Of(c, read)) |-> InOrder(Of(c, read))[i].id]]
  BY <1>1 DEF Pushed, Of
<1>3. ASSUME NEW c \in Countries
      PROVE  Behind(vectors[c], Of(c, read), now[c])
  <2>1. vectors[c] \in Seq(Ids)
    BY DEF Vectors
  <2>2. Distinct(Of(c, read))
    <3>1. Of(c, read) \in SUBSET read
      BY DEF Of
    <3>2. IsFiniteSet(Of(c, read))
      BY <3>1, FS_Subset DEF Distinct
    <3> QED BY <3>1, <3>2 DEF Distinct
  <2>3. PICK S, mine, ids, v, w :
            /\ S = Of(c, read) /\ mine = InOrder(S) /\ ids = [i \in DOMAIN mine |-> mine[i].id]
            /\ v = vectors[c] /\ w = now[c]
    OBVIOUS
  <2>4. w = v \o ids
    BY <1>2, <2>3
  <2>5. v \in Seq(Ids) /\ Distinct(S) /\ mine = InOrder(S)
    BY <2>1, <2>2, <2>3
  <2>6. IdsOf(mine, ids)
    <3>1. /\ IsFiniteSet(S) /\ \A r \in S : r.version \in Nat /\ r.id \in Ids
          /\ \A r, s \in S : r.version = s.version => r = s
      BY <2>5 DEF Distinct, Row, Versions
    <3>2. mine \in Seq(S) /\ DOMAIN mine = 1 .. Len(mine)
      BY ONLY <2>5, <3>1, InOrderFacts
    <3>3. \A i \in DOMAIN mine : mine[i] \in S
      BY <3>2, ElementOfSeq
    <3> QED BY <2>3, <3>1, <3>3 DEF IdsOf
  <2>7. Behind(v, S, w)
    BY ONLY <2>4, <2>5, <2>6, BehindVector
  <2> QED BY ONLY <2>3, <2>7
<1>4. now \in Vectors
  BY <1>2, <1>3 DEF Vectors, Behind
<1> QED BY <1>1, <1>3, <1>4

\* what Indexed gives: the rows of the result at their new places
IndexedBy(vectors, known, read, now, index) ==
    /\ index \in [DOMAIN index -> Entry]
    /\ DOMAIN index = DOMAIN known \cup {r.id : r \in read} /\ DOMAIN index \subseteq Ids
    /\ \A r \in read :
           /\ index[r.id].countryCode = r.country
           /\ index[r.id].indexInVector + 1 \in Len(vectors[r.country]) + 1 .. Len(now[r.country])
           /\ now[r.country][index[r.id].indexInVector + 1] = r.id
    /\ \A id \in DOMAIN known : (\A r \in read : r.id # id) => index[id] = known[id]

Known(known) == DOMAIN known \subseteq Ids /\ known \in [DOMAIN known -> Entry]

LEMMA IndexedFacts ==
    ASSUME NEW vectors \in Vectors, NEW known, Known(known), NEW read, Distinct(read),
           NEW now, now = Pushed(vectors, read)
    PROVE  IndexedBy(vectors, known, read, now, Indexed(vectors, known, read))
<1>1. PICK index : index = Indexed(vectors, known, read)
  OBVIOUS
<1> DEFINE row(id) == CHOOSE r \in read : r.id = id
           place(id) == CHOOSE i \in DOMAIN now[row(id).country] :
                           /\ i > Len(vectors[row(id).country])
                           /\ now[row(id).country][i] = id
<1>2. index = [id \in DOMAIN known \cup {r.id : r \in read} |->
                 IF \E r \in read : r.id = id
                 THEN [countryCode |-> row(id).country, indexInVector |-> place(id) - 1]
                 ELSE known[id]]
  BY <1>1 DEF Indexed
<1>3. DOMAIN index = DOMAIN known \cup {r.id : r \in read}
  BY <1>2
<1>4. \A r \in read : r \in Row /\ r.id \in Ids /\ r.country \in Countries
  BY DEF Distinct, Row
<1>5. ASSUME NEW r \in read
      PROVE  /\ index[r.id] \in Entry
             /\ index[r.id].countryCode = r.country
             /\ index[r.id].indexInVector + 1 \in Len(vectors[r.country]) + 1 .. Len(now[r.country])
             /\ now[r.country][index[r.id].indexInVector + 1] = r.id
  <2>1. row(r.id) = r
    BY DEF Distinct
  <2>2. PICK v, w, c : c = r.country /\ v = vectors[c] /\ w = now[c]
    OBVIOUS
  <2>3. /\ v \in Seq(Ids) /\ w \in Seq(Ids)
        /\ \E i \in Len(v) + 1 .. Len(w) : w[i] = r.id
    <3>1. now \in Vectors /\ Behind(v, Of(c, read), w)
      BY <1>4, <2>2, PushedFacts
    <3>2. r \in Of(c, read)
      BY <2>2 DEF Of
    <3> QED BY <1>4, <2>2, <3>1, <3>2 DEF Vectors, Behind
  <2>4. PICK m \in Nat, n \in Nat : m = Len(v) /\ n = Len(w) /\ DOMAIN w = 1 .. n
    BY <2>3, LenProperties
  <2>5. PICK p : p = CHOOSE i \in DOMAIN w : i > m /\ w[i] = r.id
    OBVIOUS
  <2>6. place(r.id) = p
    BY <2>1, <2>2, <2>4, <2>5
  <2>7. p \in 1 .. n /\ p > m /\ w[p] = r.id
    <3>1. \E i \in DOMAIN w : i > m /\ w[i] = r.id
      BY <2>3, <2>4
    <3>2. p \in DOMAIN w /\ p > m /\ w[p] = r.id
      BY ONLY <2>5, <3>1
    <3> QED BY <2>4, <3>2
  <2> HIDE DEF place, row
  <2>8. index[r.id] = [countryCode |-> c, indexInVector |-> p - 1]
    BY <1>2, <2>1, <2>2, <2>6
  <2>9. p - 1 \in Nat /\ (p - 1) + 1 = p /\ p \in m + 1 .. n
    BY <2>4, <2>7
  <2>10. index[r.id] \in Entry
    BY <1>4, <2>2, <2>8, <2>9 DEF Entry
  <2>11. index[r.id].countryCode = c /\ index[r.id].indexInVector + 1 = p
    BY <2>8, <2>9
  <2> QED BY ONLY <2>2, <2>4, <2>7, <2>9, <2>10, <2>11
<1>6. ASSUME NEW id \in DOMAIN known, \A r \in read : r.id # id
      PROVE  index[id] = known[id] /\ index[id] \in Entry
  <2>1. id \in DOMAIN index /\ ~\E r \in read : r.id = id
    BY <1>3, <1>6
  <2>2. index[id] = known[id]
    BY <1>2, <1>3, <2>1
  <2> QED BY <2>2 DEF Known
<1>7. index \in [DOMAIN index -> Entry]
  <2>1. \A id \in DOMAIN index : index[id] \in Entry
    BY <1>3, <1>5, <1>6
  <2>2. index = [id \in DOMAIN index |-> index[id]]
    BY <1>2
  <2> QED BY <2>1, <2>2
<1>8. DOMAIN index \subseteq Ids
  BY <1>3, <1>4 DEF Known
<1> QED BY <1>1, <1>3, <1>5, <1>6, <1>7, <1>8 DEF IndexedBy

-----------------------------------------------------------------------------
(* Vectors and indices *)

Exact(vectors, known) ==
    /\ UNION {{vectors[c][i] : i \in DOMAIN vectors[c]} : c \in Countries} = DOMAIN known
    /\ \A c \in Countries : \A i \in DOMAIN vectors[c] :
           known[vectors[c][i]] = [countryCode |-> c, indexInVector |-> i - 1]

LEMMA ExactIs ==
    VectorsExact <=> Exact(group_entries, entries)
  BY DEF VectorsExact, Vectored, Exact

\* in a form without sets of sets
Placed(vectors, known) ==
    \A id \in DOMAIN known : \E c \in Countries : \E i \in DOMAIN vectors[c] : vectors[c][i] = id
Counted(vectors, known, c) ==
    \A i \in DOMAIN vectors[c] :
        /\ vectors[c][i] \in DOMAIN known
        /\ known[vectors[c][i]] = [countryCode |-> c, indexInVector |-> i - 1]

LEMMA ExactFacts ==
    ASSUME NEW vectors, NEW known
    PROVE  Exact(vectors, known) <=>
               Placed(vectors, known) /\ \A c \in Countries : Counted(vectors, known, c)
<1>1. PICK V : V = UNION {{vectors[c][i] : i \in DOMAIN vectors[c]} : c \in Countries}
  OBVIOUS
<1>2. \A id : id \in V <=> \E c \in Countries : \E i \in DOMAIN vectors[c] : vectors[c][i] = id
  BY <1>1
<1>3. Exact(vectors, known) <=>
          /\ V = DOMAIN known
          /\ \A c \in Countries : \A i \in DOMAIN vectors[c] :
                 known[vectors[c][i]] = [countryCode |-> c, indexInVector |-> i - 1]
  BY <1>1 DEF Exact
<1>4. ASSUME Exact(vectors, known)
      PROVE  Placed(vectors, known) /\ \A c \in Countries : Counted(vectors, known, c)
  <2>1. Placed(vectors, known)
    BY ONLY <1>2, <1>3, <1>4 DEF Placed
  <2>2. ASSUME NEW c \in Countries, NEW i \in DOMAIN vectors[c]
        PROVE  vectors[c][i] \in DOMAIN known
    BY ONLY <1>2, <1>3, <1>4, c \in Countries, i \in DOMAIN vectors[c]
  <2> QED BY <1>3, <1>4, <2>1, <2>2 DEF Counted
<1>5. ASSUME Placed(vectors, known), \A c \in Countries : Counted(vectors, known, c)
      PROVE  Exact(vectors, known)
  <2>1. \A id : id \in V => id \in DOMAIN known
    BY ONLY <1>2, <1>5 DEF Counted
  <2>2. \A id \in DOMAIN known : id \in V
    BY ONLY <1>2, <1>5 DEF Placed
  <2> QED BY <1>3, <1>5, <2>1, <2>2 DEF Counted
<1> QED BY <1>4, <1>5

(* Rows that are not in memory yet leave the vectors exact.                *)
LEMMA LoadExact ==
    ASSUME NEW vectors \in Vectors, NEW known, Known(known), NEW read, Distinct(read),
           Exact(vectors, known), \A r \in read : r.id \notin DOMAIN known
    PROVE  Exact(Pushed(vectors, read), Indexed(vectors, known, read))
<1>1. PICK now, index : now = Pushed(vectors, read) /\ index = Indexed(vectors, known, read)
  OBVIOUS
<1>2. now \in Vectors /\ IndexedBy(vectors, known, read, now, index)
  BY <1>1, PushedFacts, IndexedFacts
<1>3. \A r \in read : r.id \in Ids /\ r.country \in Countries
  BY DEF Distinct, Row
<1>4. ASSUME NEW c \in Countries
      PROVE  /\ Len(vectors[c]) \in Nat /\ DOMAIN vectors[c] = 1 .. Len(vectors[c])
             /\ Len(now[c]) \in Nat /\ DOMAIN now[c] = 1 .. Len(now[c])
             /\ Behind(vectors[c], Of(c, read), now[c])
  <2>1. vectors[c] \in Seq(Ids) /\ now[c] \in Seq(Ids)
    BY <1>2 DEF Vectors
  <2>2. Behind(vectors[c], Of(c, read), now[c])
    BY <1>1, PushedFacts
  <2> QED BY <2>1, <2>2, LenProperties
<1>5. Placed(now, index)
  <2>1. ASSUME NEW id \in DOMAIN known
        PROVE  \E c \in Countries : \E i \in DOMAIN now[c] : now[c][i] = id
    <3>1. Placed(vectors, known)
      BY ExactFacts
    <3>2. PICK c \in Countries : \E i \in DOMAIN vectors[c] : vectors[c][i] = id
      BY <3>1 DEF Placed
    <3>3. PICK i \in DOMAIN vectors[c] : vectors[c][i] = id
      BY <3>2
    <3>4. i \in DOMAIN now[c] /\ now[c][i] = id
      BY <1>4, <3>3 DEF Behind
    <3> QED BY <3>4
  <2>2. ASSUME NEW r \in read
        PROVE  \E i \in DOMAIN now[r.country] : now[r.country][i] = r.id
    <3>1. PICK c \in Countries : c = r.country
      BY <1>3
    <3>2. PICK v, w, S : v = vectors[c] /\ w = now[c] /\ S = Of(c, read)
      OBVIOUS
    <3>3. r \in S /\ Behind(v, S, w) /\ DOMAIN w = 1 .. Len(w) /\ Len(v) \in Nat
      BY <1>4, <3>1, <3>2 DEF Of
    <3>4. PICK i \in Len(v) + 1 .. Len(w) : w[i] = r.id
      BY <3>3 DEF Behind
    <3>5. i \in DOMAIN w
      BY <3>3, <3>4
    <3> QED BY <3>1, <3>2, <3>4, <3>5
  <2>3. \A id \in DOMAIN index : id \in DOMAIN known \/ \E r \in read : r.id = id
    BY <1>2 DEF IndexedBy
  <2> QED BY <1>3, <2>1, <2>2, <2>3 DEF Placed
<1>6. ASSUME NEW c \in Countries, NEW i \in DOMAIN now[c]
      PROVE  /\ now[c][i] \in DOMAIN index
             /\ index[now[c][i]] = [countryCode |-> c, indexInVector |-> i - 1]
  <2>1. PICK v, w, S, id : v = vectors[c] /\ w = now[c] /\ S = Of(c, read) /\ id = w[i]
    OBVIOUS
  <2>2. PICK m \in Nat, n \in Nat : /\ m = Len(v) /\ n = Len(w) /\ DOMAIN v = 1 .. m
                                    /\ DOMAIN w = 1 .. n /\ Behind(v, S, w)
    BY <1>4, <2>1
  <2>3. i \in 1 .. n
    BY <2>1, <2>2
  <2>4. CASE i <= m
    <3>1. i \in DOMAIN v /\ id = v[i]
      BY <2>1, <2>2, <2>3, <2>4 DEF Behind
    <3>2. Counted(vectors, known, c)
      BY ExactFacts
    <3>3. /\ id \in DOMAIN known
          /\ known[id] = [countryCode |-> c, indexInVector |-> i - 1]
      BY <2>1, <3>1, <3>2 DEF Counted
    <3>4. index[id] = known[id] /\ id \in DOMAIN index
      BY <1>2, <3>3 DEF IndexedBy
    <3> QED BY <2>1, <3>3, <3>4
  <2>5. CASE ~(i <= m)
    <3>1. i \in m + 1 .. n
      BY <2>3, <2>5
    <3>2. PICK r \in S : r.id = id
      BY <2>1, <2>2, <3>1 DEF Behind
    <3>3. r \in read /\ r.country = c
      BY <2>1, <3>2 DEF Of
    <3>4. PICK k, e : e = index[id] /\ k = e.indexInVector
      OBVIOUS
    <3>5. id \in DOMAIN index /\ e \in Entry
      BY <1>2, <3>2, <3>3, <3>4 DEF IndexedBy
    <3>6. e.countryCode = c /\ k + 1 \in m + 1 .. n /\ w[k + 1] = id
      BY <1>2, <2>1, <2>2, <3>2, <3>3, <3>4 DEF IndexedBy
    <3>7. k \in Nat
      BY <3>4, <3>5 DEF Entry
    <3>8. k + 1 = i
      BY <2>1, <2>2, <3>1, <3>6 DEF Behind
    <3>9. k = i - 1
      BY <3>7, <3>8
    <3>10. e = [countryCode |-> c, indexInVector |-> i - 1]
      BY <3>4, <3>5, <3>6, <3>9 DEF Entry
    <3> QED BY <2>1, <3>4, <3>5, <3>10
  <2> QED BY <2>4, <2>5
<1>7. \A c \in Countries : Counted(now, index, c)
  BY <1>6 DEF Counted
<1> QED BY <1>1, <1>5, <1>7, ExactFacts

-----------------------------------------------------------------------------
(* Removing an entry *)

\* w is v, n long, with the last id at place p
Shortened(v, n, p, w) ==
    /\ w \in Seq(Ids) /\ DOMAIN w = 1 .. n - 1
    /\ \A i \in 1 .. n - 1 : w[i] = IF i = p THEN v[n] ELSE v[i]

LEMMA FrontFacts ==
    ASSUME NEW v \in Seq(Ids), NEW n \in Nat, n = Len(v), NEW p \in 1 .. n,
           NEW w, w = Front([v EXCEPT ![p] = Last(v)])
    PROVE  Shortened(v, n, p, w)
<1>1. n \in 1 .. n /\ n - 1 \in Nat
  OBVIOUS
<1>2. v[n] \in Ids
  BY <1>1, ElementOfSeq
<1>3. PICK u : u = [v EXCEPT ![p] = v[n]]
  OBVIOUS
<1>4. /\ u \in Seq(Ids) /\ Len(u) = n
      /\ \A i \in 1 .. n : u[i] = IF i = p THEN v[n] ELSE v[i]
  BY <1>2, <1>3, ExceptSeq
<1>5. w = SubSeq(u, 1, n - 1)
  BY <1>3, <1>4 DEF Front, Last
<1>6. \A i \in 1 .. n - 1 : u[i] \in Ids
  BY <1>4, ElementOfSeq
<1>7. /\ SubSeq(u, 1, n - 1) \in Seq(Ids)
      /\ Len(SubSeq(u, 1, n - 1)) = n - 1
      /\ \A i \in 1 .. n - 1 : SubSeq(u, 1, n - 1)[i] = u[i]
  BY <1>1, <1>6, SubSeqProperties
<1>8. w \in Seq(Ids) /\ Len(w) = n - 1
  BY ONLY <1>5, <1>7
<1>9. ASSUME NEW i \in 1 .. n - 1 PROVE w[i] = IF i = p THEN v[n] ELSE v[i]
  <2>1. i \in 1 .. n
    OBVIOUS
  <2> QED BY <1>4, <1>5, <1>7, <2>1
<1> QED BY <1>8, <1>9, LenProperties DEF Shortened

\* the ids whose index a removal writes
Moved(id) ==
    LET vector == VectorOf(entries[id].countryCode)
    IN  IF Inside(entries[id]) /\ entries[id].indexInVector # Len(vector) - 1
        THEN {Last(vector)} ELSE {}

LEMMA RemovedFacts ==
    ASSUME MemoryInv, NEW id \in DOMAIN entries, IncrementalRemoved(id)
    PROVE  /\ group_entries' \in Vectors /\ Known(entries')
           /\ DOMAIN entries' = (DOMAIN entries \cup Moved(id)) \ {id}
           /\ \A i \in DOMAIN entries \ {id} :
                  entries'[i].countryCode = entries[i].countryCode
           /\ \A i \in DOMAIN entries' :
                  entries'[i].indexInVector =
                      IF i \in Moved(id) THEN entries[id].indexInVector
                      ELSE entries[i].indexInVector
<1>1. PICK c, v, x : /\ c = entries[id].countryCode /\ v = VectorOf(c)
                     /\ x = entries[id].indexInVector
  OBVIOUS
<1>2. group_entries \in Vectors /\ Known(entries)
  BY DEF MemoryInv, Known
<1>3. entries[id] \in Entry /\ x \in Nat
  BY <1>1, <1>2 DEF Known, Entry
<1>4. v \in Seq(Ids)
  BY <1>1, <1>2, EmptySeq DEF VectorOf, Vectors
<1>5. PICK n \in Nat : n = Len(v)
  BY <1>4, LenProperties
<1>6. ASSUME x < n
      PROVE  c \in Countries /\ v = group_entries[c] /\ Last(v) \in Ids
  <2>1. c \in Countries
    <3>1. CASE c \notin Countries
      <4>1. v = <<>>
        BY <1>1, <3>1 DEF VectorOf
      <4> QED BY <1>3, <1>5, <1>6, <4>1, EmptySeq
    <3> QED BY <3>1
  <2>2. n \in 1 .. n
    BY <1>3, <1>6
  <2> QED BY <1>1, <1>4, <1>5, <2>1, <2>2, ElementOfSeq DEF VectorOf, Last
<1>7. Inside(entries[id]) <=> x < n
  BY <1>1, <1>5 DEF Inside
<1>8. \A i \in Moved(id) : i \in Ids
  BY <1>1, <1>6, <1>7 DEF Moved
<1>9. group_entries' \in Vectors
  <2>1. CASE x < n
    <3>1. PICK w : w = Front([v EXCEPT ![x + 1] = Last(v)])
      OBVIOUS
    <3>2. x + 1 \in 1 .. n
      BY <1>3, <2>1
    <3>3. w \in Seq(Ids)
      BY <1>4, <1>5, <3>1, <3>2, FrontFacts DEF Shortened
    <3>4. group_entries' = [group_entries EXCEPT ![c] = w]
      BY <1>1, <1>6, <1>7, <2>1, <3>1 DEF IncrementalRemoved, OutOfVector
    <3> QED BY <1>2, <3>3, <3>4 DEF Vectors
  <2>2. CASE ~(x < n)
    BY <1>2, <1>7, <2>2 DEF IncrementalRemoved, OutOfVector
  <2> QED BY <2>1, <2>2
<1>10. entries' = [i \in (DOMAIN entries \cup Moved(id)) \ {id} |->
                     [countryCode |-> IF i \in DOMAIN entries THEN entries[i].countryCode
                                      ELSE NoCountry,
                      indexInVector |-> IF i \in Moved(id) THEN x ELSE entries[i].indexInVector]]
  BY <1>1 DEF IncrementalRemoved, Moved
<1>11. ASSUME NEW i \in DOMAIN entries' PROVE entries'[i] \in Entry
  <2>1. i \in DOMAIN entries \/ (i \in Moved(id) /\ i \notin DOMAIN entries)
    BY <1>10
  <2>2. i \in DOMAIN entries =>
            entries[i].countryCode \in Countries \cup {NoCountry} /\ entries[i].indexInVector \in Nat
    BY <1>2 DEF Known, Entry
  <2> QED BY <1>3, <1>10, <2>1, <2>2 DEF Entry
<1>12. DOMAIN entries' \subseteq Ids
  BY <1>2, <1>8, <1>10 DEF Known
<1>13. entries' \in [DOMAIN entries' -> Entry]
  <2>1. entries' = [i \in DOMAIN entries' |-> entries'[i]]
    BY <1>10
  <2> QED BY <1>11, <2>1
<1> QED BY <1>1, <1>9, <1>10, <1>12, <1>13 DEF Known

(* The last id of the vector takes the place of the removed one, at the    *)
(* removed one's index.                                                    *)
LEMMA RemovedExact ==
    ASSUME MemoryInv, VectorsExact, NEW id \in DOMAIN entries, IncrementalRemoved(id)
    PROVE  VectorsExact' /\ DOMAIN entries' = DOMAIN entries \ {id}
<1>1. PICK vectors, known, now, index :
          /\ vectors = group_entries /\ known = entries
          /\ now = group_entries' /\ index = entries'
  OBVIOUS
<1>2. vectors \in Vectors /\ Known(known) /\ now \in Vectors /\ Known(index)
  BY <1>1, RemovedFacts DEF MemoryInv, Known
<1>3. /\ Placed(vectors, known)
      /\ \A c \in Countries : Counted(vectors, known, c)
  BY <1>1, ExactIs, ExactFacts
<1>4. PICK c \in Countries : \E p \in DOMAIN vectors[c] : vectors[c][p] = id
  BY <1>1, <1>3 DEF Placed
<1> DEFINE v == vectors[c]
           w == now[c]
<1>5. v \in Seq(Ids)
  BY <1>2 DEF Vectors
<1>6. PICK n \in Nat : n = Len(v) /\ DOMAIN v = 1 .. n
  BY <1>5, LenProperties
<1>7. PICK p \in 1 .. n : v[p] = id
  BY <1>4, <1>6
<1>8. \A i \in 1 .. n : /\ v[i] \in DOMAIN known
                        /\ known[v[i]] = [countryCode |-> c, indexInVector |-> i - 1]
  BY <1>3, <1>6 DEF Counted
<1>9. ASSUME NEW i \in 1 .. n
       PROVE  known[v[i]].countryCode = c /\ known[v[i]].indexInVector = i - 1
  <2>1. known[v[i]] = [countryCode |-> c, indexInVector |-> i - 1]
    BY <1>8
  <2> HIDE DEF v
  <2> QED BY ONLY <2>1
<1>10. ASSUME NEW i \in 1 .. n, NEW j \in 1 .. n, v[i] = v[j]
      PROVE  i = j
  <2>1. i - 1 = j - 1
    BY <1>10, <1>9
  <2> QED BY <2>1
<1>11. known[id] = [countryCode |-> c, indexInVector |-> p - 1]
  BY <1>7, <1>8
<1>12. PICK last : last = v[n]
  OBVIOUS
<1>13. VectorOf(entries[id].countryCode) = v /\ Inside(entries[id])
  BY <1>1, <1>6, <1>7, <1>11 DEF VectorOf, Inside
<1>14. Moved(id) = IF p # n THEN {last} ELSE {}
  <2>1. p - 1 # n - 1 <=> p # n
    OBVIOUS
  <2>2. entries[id].indexInVector = p - 1
    BY <1>1, <1>11
  <2>3. Last(v) = last
    BY <1>6, <1>12 DEF Last
  <2> HIDE DEF v
  <2> QED BY <1>6, <1>13, <2>1, <2>2, <2>3 DEF Moved
<1>15. n \in 1 .. n
  BY <1>7
<1>16. last \in DOMAIN known /\ (p # n => last # id)
  BY <1>7, <1>8, <1>10, <1>12, <1>15
<1>17. DOMAIN index = DOMAIN known \ {id}
  <2>1. DOMAIN index = (DOMAIN known \cup Moved(id)) \ {id}
    BY <1>1, RemovedFacts
  <2>2. \A i \in Moved(id) : i \in DOMAIN known
    BY <1>14, <1>16
  <2> QED BY <2>1, <2>2
<1>18. now = [vectors EXCEPT ![c] = Front([v EXCEPT ![p] = Last(v)])]
  <2>1. (p - 1) + 1 = p
    OBVIOUS
  <2> QED BY <1>1, <1>6, <1>11, <1>13, <2>1 DEF IncrementalRemoved, OutOfVector
<1>19. /\ w = Front([v EXCEPT ![p] = Last(v)])
       /\ \A b \in Countries : b # c => now[b] = vectors[b]
  BY <1>2, <1>6, <1>18 DEF Vectors
<1>20. /\ DOMAIN w = 1 .. n - 1
       /\ \A i \in 1 .. n - 1 : w[i] = IF i = p THEN last ELSE v[i]
  <2> HIDE DEF v, w
  <2>1. Shortened(v, n, p, w)
    BY <1>5, <1>6, <1>19, FrontFacts
  <2> QED BY <1>12, <2>1 DEF Shortened
<1>21. ASSUME NEW i \in DOMAIN index
       PROVE  /\ index[i].countryCode = known[i].countryCode
              /\ index[i].indexInVector =
                     IF p # n /\ i = last THEN p - 1 ELSE known[i].indexInVector
              /\ index[i] = [countryCode |-> index[i].countryCode,
                             indexInVector |-> index[i].indexInVector]
  <2>1. index[i] \in Entry
    BY <1>2 DEF Known
  <2>2. index[i].indexInVector =
            IF i \in Moved(id) THEN known[id].indexInVector ELSE known[i].indexInVector
    BY <1>1, RemovedFacts
  <2>3. index[i].countryCode = known[i].countryCode
    BY <1>1, <1>17, RemovedFacts
  <2> QED BY <1>11, <1>14, <2>1, <2>2, <2>3 DEF Entry
<1>22. Placed(now, index)
  <2>1. ASSUME NEW i \in DOMAIN index
        PROVE  \E b \in Countries : \E k \in DOMAIN now[b] : now[b][k] = i
    <3>1. PICK b \in Countries : \E k \in DOMAIN vectors[b] : vectors[b][k] = i
      BY <1>3, <1>17 DEF Placed
    <3>2. PICK k \in DOMAIN vectors[b] : vectors[b][k] = i
      BY <3>1
    <3>3. CASE b # c
      BY <1>19, <3>2, <3>3
    <3>4. CASE b = c /\ k # n
      <4>1. k \in 1 .. n /\ v[k] = i /\ k # p
        BY <1>6, <1>7, <1>17, <3>2, <3>4
      <4>2. k \in 1 .. n - 1
        BY <3>4, <4>1
      <4>3. w[k] = i
        BY <1>20, <4>1, <4>2
      <4> QED BY <1>6, <1>20, <4>2, <4>3
    <3>5. CASE b = c /\ k = n
      <4>1. last = i /\ p # n
        BY <1>6, <1>7, <1>12, <1>17, <3>2, <3>5
      <4>2. p \in 1 .. n - 1
        BY <4>1
      <4>3. w[p] = i
        BY <1>20, <4>1, <4>2
      <4> QED BY <1>6, <1>20, <4>2, <4>3
    <3> QED BY <3>3, <3>4, <3>5
  <2> QED BY <2>1 DEF Placed
<1>23. ASSUME NEW b \in Countries, NEW k \in DOMAIN now[b]
       PROVE  /\ now[b][k] \in DOMAIN index
              /\ index[now[b][k]] = [countryCode |-> b, indexInVector |-> k - 1]
  <2>1. CASE b # c
    <3>1. PICK i : i = now[b][k]
      OBVIOUS
    <3>2. /\ i \in DOMAIN known
          /\ known[i] = [countryCode |-> b, indexInVector |-> k - 1]
      BY <1>3, <1>19, <2>1, <3>1 DEF Counted
    <3>3. i # id /\ i # last
      <4>1. known[i].countryCode = b
        BY <3>2
      <4>2. known[id].countryCode = c /\ known[last].countryCode = c
        BY <1>7, <1>12, <1>15, <1>9
      <4> QED BY <2>1, <4>1, <4>2
    <3>4. i \in DOMAIN index
      BY <1>17, <3>2, <3>3
    <3> QED BY <1>21, <3>1, <3>2, <3>3, <3>4
  <2>2. CASE b = c /\ k = p
    <3>1. k \in 1 .. n - 1 /\ now[b][k] = last /\ p # n
      BY <1>6, <1>20, <2>2
    <3>2. last \in DOMAIN index
      BY <1>16, <1>17, <3>1
    <3>3. known[last].countryCode = c
      BY <1>12, <1>15, <1>9
    <3> QED BY <1>21, <2>2, <3>1, <3>2, <3>3
  <2>3. CASE b = c /\ k # p
    <3>1. k \in 1 .. n - 1 /\ k \in 1 .. n /\ k # n
      BY <1>6, <1>20, <2>3
    <3>2. PICK i : i = now[b][k] /\ i = v[k]
      BY <1>6, <1>20, <2>3, <3>1
    <3>3. i # id /\ i # last
      BY <1>7, <1>10, <1>12, <1>15, <2>3, <3>1, <3>2
    <3>4. i \in DOMAIN index /\ known[i] = [countryCode |-> c, indexInVector |-> k - 1]
      BY <1>8, <1>17, <3>1, <3>2, <3>3
    <3> QED BY <1>21, <2>3, <3>2, <3>3, <3>4
  <2> QED BY <2>1, <2>2, <2>3
<1>24. Exact(now, index)
  BY <1>22, <1>23, ExactFacts DEF Counted
<1>25. VectorsExact' <=> Exact(group_entries', entries')
  BY DEF VectorsExact, Vectored, Exact
<1> QED BY <1>1, <1>17, <1>24, <1>25

-----------------------------------------------------------------------------
(* The invariant *)

LEMMA ReadFacts ==
    ASSUME DatabaseInv, NEW read \in SUBSET rows
    PROVE  /\ Distinct(read)
           /\ \A r \in read : r.version \in 1 .. latest
           /\ \A r \in read : r.id \in Ids /\ r.country \in Countries
<1>1. IsFiniteSet(read)
  BY FS_Subset DEF DatabaseInv, Distinct
<1>2. latest \in Nat
  BY GroupAssumption DEF DatabaseInv
<1> QED BY <1>1, <1>2 DEF DatabaseInv, Distinct, Row, Versions

LEMMA LoadTyped ==
    ASSUME NEW vectors \in Vectors, NEW known, Known(known), NEW read, Distinct(read)
    PROVE  Pushed(vectors, read) \in Vectors /\ Known(Indexed(vectors, known, read))
  BY PushedFacts, IndexedFacts DEF IndexedBy, Known

LEMMA NothingFacts ==
    /\ [c \in Countries |-> <<>>] \in Vectors
    /\ DOMAIN Nothing = {} /\ Known(Nothing)
    /\ Exact([c \in Countries |-> <<>>], Nothing)
<1>1. [c \in Countries |-> <<>>] \in Vectors
  BY EmptySeq DEF Vectors
<1>2. DOMAIN Nothing = {} /\ Known(Nothing)
  BY DEF Nothing, Known
<1>3. PICK none : none = [c \in Countries |-> <<>>]
  OBVIOUS
<1>4. \A c \in Countries : DOMAIN none[c] = {}
  BY <1>3
<1>5. Placed(none, Nothing) /\ \A c \in Countries : Counted(none, Nothing, c)
  BY <1>2, <1>4 DEF Placed, Counted
<1> QED BY <1>1, <1>2, <1>3, <1>5, ExactFacts

LEMMA InvInit ==
    ASSUME Init
    PROVE  Inv
<1>1. DatabaseInv
  BY FS_EmptySet, GroupAssumption DEF Init, DatabaseInv, Distinct, Unversioned
<1>2. MemoryInv
  BY NothingFacts DEF Init, MemoryInv, Known, Unversioned
<1>3. ReloadInv
  <2>1. <<>> \in Seq(log) /\ DOMAIN <<>> = {}
    BY EmptySeq
  <2> QED BY <2>1 DEF Init, ReloadInv, Unversioned
<1> QED BY <1>1, <1>2, <1>3 DEF Inv

LEMMA SameDatabase ==
    ASSUME DatabaseInv, UNCHANGED database
    PROVE  DatabaseInv'
  BY DEF DatabaseInv, Distinct, HasRow, database

LEMMA InvInitIpGroups ==
    ASSUME Inv, InitIpGroups
    PROVE  Inv'
<1>1. DatabaseInv'
  BY SameDatabase DEF InitIpGroups, Inv
<1>2. latest \in Nat
  BY GroupAssumption DEF Inv, DatabaseInv
<1>3. MemoryInv'
  BY <1>2 DEF InitIpGroups, Inv, MemoryInv, database, loaded, Unversioned
<1>4. ReloadInv'
  BY DEF InitIpGroups, Inv, ReloadInv, database, loaded, Unversioned
<1> QED BY <1>1, <1>3, <1>4 DEF Inv

\* what a load leaves: the caller is idle and nothing is to be handled
LEMMA InvLoaded ==
    ASSUME Inv, UNCHANGED <<database, since, todo, seen>>, pc' = "idle", todo = <<>>,
           group_entries' \in Vectors, Known(entries'), version' \in 0 .. latest
    PROVE  Inv'
<1>1. DatabaseInv'
  BY SameDatabase DEF Inv
<1>2. MemoryInv'
  BY DEF Inv, MemoryInv, Known, database
<1>3. ReloadInv'
  BY DEF Inv, ReloadInv, database
<1> QED BY <1>1, <1>2, <1>3 DEF Inv

LEMMA InvInitIpEntries ==
    ASSUME Inv, NEW ok \in BOOLEAN, InitIpEntries(ok)
    PROVE  Inv'
<1>1. PICK read \in SUBSET rows : read = IF ok THEN rows ELSE {}
  OBVIOUS
<1>2. /\ group_entries' = Pushed(group_entries, read)
      /\ entries' = Indexed(group_entries, entries, read)
      /\ version' = LaterByTime(version, read)
  BY <1>1 DEF InitIpEntries
<1>3. Distinct(read) /\ \A r \in read : r.version \in 1 .. latest
  BY ReadFacts DEF Inv
<1>4. group_entries' \in Vectors /\ Known(entries')
  BY <1>2, <1>3, LoadTyped DEF Inv, MemoryInv, Known
<1>5. version' \in 0 .. latest
  BY <1>2, <1>3, LaterByTimeFacts DEF Inv, MemoryInv, DatabaseInv
<1>6. todo = <<>>
  BY DEF InitIpEntries, Inv, ReloadInv
<1> QED BY <1>4, <1>5, <1>6, InvLoaded DEF InitIpEntries

LEMMA InvFullReload ==
    ASSUME Inv, FullReload
    PROVE  Inv'
<1>1. PICK none : none = [c \in Countries |-> <<>>]
  OBVIOUS
<1>2. /\ group_entries' = Pushed(none, rows)
      /\ entries' = Indexed(none, Nothing, rows)
      /\ version' = LaterByTime(version, rows)
  BY <1>1 DEF FullReload
<1>3. Distinct(rows) /\ \A r \in rows : r.version \in 1 .. latest
  BY ReadFacts DEF Inv
<1>4. group_entries' \in Vectors /\ Known(entries')
  BY <1>1, <1>2, <1>3, LoadTyped, NothingFacts
<1>5. version' \in 0 .. latest
  BY <1>2, <1>3, LaterByTimeFacts DEF Inv, MemoryInv, DatabaseInv
<1>6. todo = <<>>
  BY DEF FullReload, Inv, ReloadInv
<1> QED BY <1>4, <1>5, <1>6, InvLoaded DEF FullReload

\* the log above a version
LEMMA LogFacts ==
    ASSUME DatabaseInv, NEW S \in SUBSET log
    PROVE  /\ InOrder(S) \in Seq(S) /\ InOrder(S) \in Seq(log)
           /\ \A l \in S : \E i \in DOMAIN InOrder(S) : InOrder(S)[i] = l
           /\ \A i \in DOMAIN InOrder(S) : InOrder(S)[i] \in S
<1>1. /\ IsFiniteSet(S) /\ \A l \in S : l.version \in Nat
      /\ \A l, k \in S : l.version = k.version => l = k
  <2>1. IsFiniteSet(S)
    BY FS_Subset DEF DatabaseInv
  <2>2. \A l \in log : l.version \in Nat
    BY DEF DatabaseInv, LogRow, Versions
  <2> QED BY <2>1, <2>2 DEF DatabaseInv
<1>2. PICK o : o = InOrder(S)
  OBVIOUS
<1>3. /\ o \in Seq(S) /\ DOMAIN o = 1 .. Len(o)
      /\ \A l \in S : \E i \in DOMAIN o : o[i] = l
  BY <1>1, <1>2, InOrderFacts
<1>4. o \in Seq(log)
  BY <1>3, SeqMonotonic
<1>5. \A i \in DOMAIN o : o[i] \in S
  BY <1>3, ElementOfSeq
<1> QED BY <1>2, <1>3, <1>4, <1>5

LEMMA InvIncrementalReload ==
    ASSUME Inv, NEW ok \in BOOLEAN, IncrementalReload(ok)
    PROVE  Inv'
<1>1. DatabaseInv'
  BY SameDatabase DEF IncrementalReload, Inv
<1>2. latest \in Nat /\ version \in 0 .. latest
  BY GroupAssumption DEF Inv, DatabaseInv, MemoryInv
<1>3. MemoryInv'
  BY <1>2 DEF IncrementalReload, Inv, MemoryInv, database, loaded
<1>4. ReloadInv'
  <2>1. PICK S \in SUBSET log : S = {l \in log : l.version > version}
    OBVIOUS
  <2>2. /\ InOrder(S) \in Seq(log)
        /\ \A l \in S : \E i \in DOMAIN InOrder(S) : InOrder(S)[i] = l
        /\ \A i \in DOMAIN InOrder(S) : InOrder(S)[i] \in S
    BY LogFacts DEF Inv
  <2>3. \A l \in log : l.version <= latest
    BY DEF Inv, DatabaseInv
  <2>4. pc' = "removing" /\ log' = log /\ version' = version
    BY DEF IncrementalReload, database
  <2>5. CASE ok
    <3>1. todo' = InOrder(S) /\ seen' = latest
      BY <2>1, <2>5 DEF IncrementalReload
    <3>2. \A i \in DOMAIN todo' : todo'[i].version <= seen'
      BY <2>1, <2>2, <2>3, <3>1
    <3>3. \A l \in log : version < l.version => \E i \in DOMAIN todo' : todo'[i] = l
      <4>1. ASSUME NEW l \in log, version < l.version PROVE l \in S
        <5>1. l.version \in Nat /\ version \in Nat
          BY <1>2 DEF Inv, DatabaseInv, LogRow, Versions
        <5> QED BY <2>1, <4>1, <5>1
      <4> QED BY <2>2, <3>1, <4>1
    <3> QED BY <2>2, <2>4, <3>1, <3>2, <3>3 DEF ReloadInv
  <2>6. CASE ~ok
    <3>1. todo' = <<>> /\ seen' = version
      BY <2>6 DEF IncrementalReload
    <3>2. <<>> \in Seq(log) /\ DOMAIN <<>> = {}
      BY EmptySeq
    <3>3. \A l \in log : ~(version < l.version /\ l.version <= version)
      <4>1. \A l \in log : l.version \in Nat
        BY DEF Inv, DatabaseInv, LogRow, Versions
      <4> QED BY <1>2, <4>1
    <3> QED BY <2>4, <3>1, <3>2, <3>3 DEF ReloadInv
  <2> QED BY <2>5, <2>6
<1> QED BY <1>1, <1>3, <1>4 DEF Inv

\* a row of the log is taken from the front
LEMMA HeadFacts ==
    ASSUME NEW S, NEW q \in Seq(S), q # <<>>
    PROVE  /\ Head(q) \in S /\ Tail(q) \in Seq(S)
           /\ \E i \in DOMAIN q : q[i] = Head(q)
           /\ \A i \in DOMAIN q : q[i] = Head(q) \/ \E j \in DOMAIN Tail(q) : Tail(q)[j] = q[i]
           /\ \A j \in DOMAIN Tail(q) : \E i \in DOMAIN q : q[i] = Tail(q)[j]
<1>1. PICK n \in Nat \ {0} : n = Len(q) /\ DOMAIN q = 1 .. n
  BY EmptySeq, LenProperties
<1>2. /\ Head(q) = q[1] /\ Head(q) \in S /\ Tail(q) \in Seq(S) /\ Len(Tail(q)) = n - 1
      /\ \A i \in 1 .. n - 1 : Tail(q)[i] = q[i + 1]
  BY <1>1, HeadTailProperties
<1>3. DOMAIN Tail(q) = 1 .. n - 1
  BY <1>2, LenProperties
<1>4. 1 \in DOMAIN q
  BY <1>1
<1>5. ASSUME NEW i \in DOMAIN q, i # 1
      PROVE  i - 1 \in DOMAIN Tail(q) /\ Tail(q)[i - 1] = q[i]
  <2>1. i - 1 \in 1 .. n - 1 /\ (i - 1) + 1 = i
    BY <1>1, <1>5
  <2> QED BY <1>2, <1>3, <2>1
<1>6. ASSUME NEW j \in DOMAIN Tail(q)
      PROVE  j + 1 \in DOMAIN q /\ q[j + 1] = Tail(q)[j]
  <2>1. j \in 1 .. n - 1 /\ j + 1 \in 1 .. n
    BY <1>1, <1>3
  <2> QED BY <1>1, <1>2, <2>1
<1> QED BY <1>2, <1>4, <1>5, <1>6

LEMMA InvTakeVersion ==
    ASSUME Inv, TakeVersion
    PROVE  Inv'
<1>1. DatabaseInv'
  BY SameDatabase DEF TakeVersion, Inv
<1>2. PICK l : l = Head(todo)
  OBVIOUS
<1>3. /\ pc = "removing" /\ todo # <<>> /\ pc' = "removing" /\ todo' = Tail(todo)
      /\ version' = Later(version, l.version) /\ since' = since /\ seen' = seen
      /\ log' = log /\ latest' = latest
      /\ IF l.removed /\ l.id \in DOMAIN entries THEN IncrementalRemoved(l.id)
         ELSE UNCHANGED loaded
  BY <1>2 DEF TakeVersion, database
<1>4. /\ l \in log /\ todo' \in Seq(log)
      /\ \E i \in DOMAIN todo : todo[i] = l
      /\ \A i \in DOMAIN todo : todo[i] = l \/ \E j \in DOMAIN todo' : todo'[j] = todo[i]
      /\ \A j \in DOMAIN todo' : \E i \in DOMAIN todo : todo[i] = todo'[j]
  BY <1>2, <1>3, HeadFacts DEF Inv, ReloadInv
<1>5. /\ latest \in Nat /\ version \in 0 .. latest
      /\ \A k \in log : k.version \in Nat /\ k.version <= latest
  BY GroupAssumption DEF Inv, DatabaseInv, MemoryInv, LogRow, Versions
<1>6. /\ version' \in 0 .. latest /\ version <= version' /\ l.version <= version'
  <2>1. l.version \in 0 .. latest
    BY <1>4, <1>5
  <2> QED BY <1>3, <1>5, <2>1 DEF Later
<1>7. group_entries' \in Vectors /\ Known(entries')
  <2>1. CASE l.removed /\ l.id \in DOMAIN entries
    BY <1>3, <2>1, RemovedFacts DEF Inv
  <2>2. CASE ~(l.removed /\ l.id \in DOMAIN entries)
    BY <1>3, <2>2 DEF loaded, Inv, MemoryInv, Known
  <2> QED BY <2>1, <2>2
<1>8. MemoryInv'
  BY <1>3, <1>6, <1>7 DEF Inv, MemoryInv, Known
<1>9. ReloadInv'
  <2>1. \A j \in DOMAIN todo' : todo'[j].version <= seen'
    BY <1>3, <1>4 DEF Inv, ReloadInv
  <2>2. ASSUME NEW k \in log, version' < k.version, k.version <= seen
        PROVE  \E j \in DOMAIN todo' : todo'[j] = k
    <3>1. version < k.version /\ k # l
      BY <1>4, <1>5, <1>6, <2>2
    <3>2. PICK i \in DOMAIN todo : todo[i] = k
      BY <1>3, <2>2, <3>1 DEF Inv, ReloadInv
    <3> QED BY <1>4, <3>1, <3>2
  <2> QED BY <1>3, <1>4, <2>1, <2>2 DEF ReloadInv
<1> QED BY <1>1, <1>8, <1>9 DEF Inv

\* the newest version among those of a result and a version
LEMMA NewestFacts ==
    ASSUME NEW N \in Nat, NEW v \in 0 .. N, NEW read, \A r \in read : r.version \in 1 .. N,
           NEW m, m = Max({v} \cup {r.version : r \in read})
    PROVE  m \in 0 .. N /\ v <= m /\ \A r \in read : r.version <= m
<1>1. PICK T : T = {v} \cup {r.version : r \in read}
  OBVIOUS
<1>2. T \in SUBSET (0 .. N) /\ T # {} /\ v \in T /\ \A r \in read : r.version \in T
  BY <1>1
<1>3. m \in T /\ \A t \in T : t <= m
  BY <1>1, <1>2, MaxFacts
<1> QED BY <1>2, <1>3

LEMMA InvIncrementalAdded ==
    ASSUME Inv, NEW ok \in BOOLEAN, IncrementalAdded(ok)
    PROVE  Inv'
<1>1. PICK read \in SUBSET rows : read = IF ok THEN {r \in rows : r.version > since} ELSE {}
  OBVIOUS
<1>2. /\ group_entries' = Pushed(group_entries, read)
      /\ entries' = Indexed(group_entries, entries, read)
      /\ version' = Max({version} \cup {r.version : r \in read})
      /\ todo = <<>> /\ pc' = "idle" /\ UNCHANGED <<database, since, todo, seen>>
  BY <1>1 DEF IncrementalAdded
<1>3. Distinct(read) /\ \A r \in read : r.version \in 1 .. latest
  BY ReadFacts DEF Inv
<1>4. group_entries' \in Vectors /\ Known(entries')
  BY <1>2, <1>3, LoadTyped DEF Inv, MemoryInv, Known
<1>5. version' \in 0 .. latest
  <2>1. latest \in Nat /\ version \in 0 .. latest
    BY GroupAssumption DEF Inv, MemoryInv, DatabaseInv
  <2> QED BY <1>2, <1>3, <2>1, NewestFacts
<1> QED BY <1>2, <1>4, <1>5, InvLoaded

\* an edit of the control plane, as far as it goes the same way for all three
LEMMA InvEdit ==
    ASSUME Inv, NEW id \in Ids, NEW new, NEW removed \in BOOLEAN, Edit(id, new, removed),
           new = {} \/ \E c \in Countries : new = {AsRow(id, c)},
           \A l \in log : l.removed => l.id # id \/ new = {},
           removed => new = {}
    PROVE  Inv'
<1>1. PICK k : k = [id |-> id, version |-> latest + 1, removed |-> removed]
  OBVIOUS
<1>2. /\ latest < MaxVersion /\ latest' = latest + 1
      /\ rows' = {r \in rows : r.id # id} \cup new
      /\ log' = log \cup {k}
      /\ UNCHANGED <<version, loaded, pc, since, todo, seen>>
  BY <1>1 DEF Edit
<1>3. latest \in Nat /\ MaxVersion \in Nat /\ latest + 1 \in 1 .. MaxVersion
  BY <1>2, GroupAssumption DEF Inv, DatabaseInv
<1>4. \A r \in new : r \in Row /\ r.id = id /\ r.version = latest + 1
  BY <1>3 DEF AsRow, Row, Versions
<1>5. \A r, s \in new : r = s
  OBVIOUS
<1>6. k \in LogRow /\ k.version = latest + 1 /\ k.id = id /\ k.removed = removed
  BY <1>1, <1>3 DEF LogRow, Versions
<1>7. /\ \A r \in rows : r \in Row /\ r.version \in Nat /\ r.version <= latest
      /\ \A l \in log : l \in LogRow /\ l.version \in Nat /\ l.version <= latest
  BY DEF Inv, DatabaseInv, Distinct, Row, LogRow, Versions
<1>8. DatabaseInv'
  <2>1. IsFiniteSet(rows') /\ IsFiniteSet(log')
    <3>1. PICK S \in SUBSET rows : S = {r \in rows : r.id # id}
      OBVIOUS
    <3>2. IsFiniteSet(rows) /\ IsFiniteSet(log)
      BY DEF Inv, DatabaseInv, Distinct
    <3>3. IsFiniteSet(S)
      BY ONLY <3>2, S \in SUBSET rows, FS_Subset
    <3>4. IsFiniteSet(new) /\ IsFiniteSet({k})
      <4>1. /\ IsFiniteSet({}) /\ IsFiniteSet({k})
            /\ \A c \in Countries : IsFiniteSet({AsRow(id, c)})
        BY ONLY FS_EmptySet, FS_Singleton
      <4> QED BY <4>1
    <3>5. rows' = S \cup new /\ log' = log \cup {k}
      BY <1>2, <3>1
    <3> QED BY ONLY <3>2, <3>3, <3>4, <3>5, FS_Union
  <2>2. rows' \subseteq Row /\ log' \subseteq LogRow
    BY <1>2, <1>4, <1>6, <1>7
  <2>3. ASSUME NEW r \in rows', NEW s \in rows', r.id = s.id \/ r.version = s.version
        PROVE  r = s
    <3>1. CASE r \in new /\ s \in new
      BY <1>5, <3>1
    <3>2. CASE r \notin new /\ s \notin new
      BY <1>2, <2>3, <3>2 DEF Inv, DatabaseInv, Distinct
    <3>3. CASE (r \in new /\ s \notin new) \/ (r \notin new /\ s \in new)
      BY <1>2, <1>3, <1>4, <1>7, <2>3, <3>3
    <3> QED BY <3>1, <3>2, <3>3
  <2>4. /\ latest' \in 0 .. MaxVersion
        /\ \A r \in rows' : r.version <= latest'
        /\ \A l \in log' : l.version <= latest'
    <3>1. latest' = latest + 1 /\ latest' \in 0 .. MaxVersion
      BY <1>2, <1>3
    <3>2. \A r \in rows' : r.version <= latest'
      BY <1>2, <1>3, <1>4, <1>7, <3>1
    <3>3. \A l \in log' : l.version <= latest'
      BY <1>2, <1>3, <1>6, <1>7, <3>1
    <3> QED BY <3>1, <3>2, <3>3
  <2>5. \A l, m \in log' : l.version = m.version => l = m
    BY <1>2, <1>3, <1>6, <1>7 DEF Inv, DatabaseInv
  <2>6. ASSUME NEW l \in log', l.removed, NEW r \in rows', r.id = l.id
        PROVE  FALSE
    <3>1. CASE l \in log /\ r \in rows
      BY <2>6, <3>1 DEF Inv, DatabaseInv, HasRow
    <3>2. CASE l \in log /\ r \notin rows
      BY <1>2, <1>4, <2>6, <3>2
    <3>3. CASE l = k
      BY <1>2, <1>6, <2>6, <3>3
    <3> QED BY <1>2, <3>1, <3>2, <3>3
  <2>7. \A l \in log' : l.removed => ~HasRow(l.id)'
    BY <2>6 DEF HasRow
  <2> QED BY <2>1, <2>2, <2>3, <2>4, <2>5, <2>7 DEF DatabaseInv, Distinct
<1>9. MemoryInv'
  BY <1>2, <1>3 DEF Inv, MemoryInv, loaded
<1>10. ReloadInv'
  <2>1. todo' \in Seq(log')
    BY <1>2, SeqMonotonic DEF Inv, ReloadInv
  <2>2. ~(k.version <= seen)
    BY <1>3, <1>6 DEF Inv, MemoryInv
  <2>3. ASSUME pc = "removing", NEW l \in log', version < l.version, l.version <= seen
        PROVE  \E i \in DOMAIN todo : todo[i] = l
    <3>1. l \in log
      BY <1>2, <2>2, <2>3
    <3> QED BY <2>3, <3>1 DEF Inv, ReloadInv
  <2> QED BY <1>2, <2>1, <2>3 DEF Inv, ReloadInv, loaded
<1> QED BY <1>8, <1>9, <1>10 DEF Inv

LEMMA InvDelete ==
    ASSUME Inv, NEW id \in Ids, Delete(id)
    PROVE  Inv'
  BY InvEdit DEF Delete

LEMMA InvCreateOrChange ==
    ASSUME Inv, NEW id \in Ids, NEW c \in Countries, Create(id, c) \/ Change(id, c)
    PROVE  Inv'
<1>1. CASE Create(id, c)
  BY <1>1, InvEdit DEF Create
<1>2. CASE Change(id, c)
  <2>1. \A l \in log : l.removed => l.id # id
    BY <1>2 DEF Change, Inv, DatabaseInv
  <2> QED BY <1>2, <2>1, InvEdit DEF Change
<1> QED BY <1>1, <1>2

LEMMA InvNext ==
    ASSUME Inv, [Next]_vars
    PROVE  Inv'
<1>1. CASE UNCHANGED vars
  BY <1>1 DEF vars, database, loaded, Inv, DatabaseInv, Distinct, HasRow, MemoryInv, ReloadInv
<1>2. CASE Server
  BY <1>2, InvInitIpGroups, InvInitIpEntries, InvFullReload, InvIncrementalReload,
     InvTakeVersion, InvIncrementalAdded DEF Server
<1>3. CASE ControlPlane
  BY <1>3, InvDelete, InvCreateOrChange DEF ControlPlane
<1> QED BY <1>1, <1>2, <1>3 DEF Next

(* The database and what the caller holds of it stay as the invariant      *)
(* says: a removed id has no row, and nothing of the log between the       *)
(* version of the group and the last one the first query saw is skipped.   *)
THEOREM GroupInvariant ==
    Spec => []Inv
<1>1. Inv /\ [Next]_vars => Inv'
  BY InvNext
<1> QED BY <1>1, InvInit, PTL DEF Spec

-----------------------------------------------------------------------------
(* The vectors *)

LEMMA ExactStep ==
    ASSUME Inv, [Next]_vars, VectorsExact, ~VectorsExact'
    PROVE  IncrementalAdded(TRUE) /\ ReadAgain
<1>1. Exact(group_entries, entries) /\ (VectorsExact' <=> Exact(group_entries', entries'))
  BY ExactIs DEF VectorsExact, Vectored, Exact
<1>2. group_entries \in Vectors /\ Known(entries)
  BY DEF Inv, MemoryInv, Known
<1>3. ~UNCHANGED loaded
  BY <1>1 DEF loaded
<1>4. /\ ~InitIpGroups /\ ~ControlPlane /\ ~UNCHANGED vars
      /\ \A ok \in BOOLEAN : ~IncrementalReload(ok)
  <2>1. ~InitIpGroups /\ \A ok \in BOOLEAN : ~IncrementalReload(ok)
    BY <1>3 DEF InitIpGroups, IncrementalReload
  <2>2. ~ControlPlane
    BY <1>3 DEF ControlPlane, Delete, Create, Change, Edit
  <2>3. ~UNCHANGED vars
    BY <1>3 DEF vars, loaded
  <2> QED BY <2>1, <2>2, <2>3
<1>5. ASSUME NEW ok \in BOOLEAN, InitIpEntries(ok)
      PROVE  FALSE
  <2>1. PICK read \in SUBSET rows : read = IF ok THEN rows ELSE {}
    OBVIOUS
  <2>2. /\ group_entries' = Pushed(group_entries, read)
        /\ entries' = Indexed(group_entries, entries, read)
    BY <1>5, <2>1 DEF InitIpEntries
  <2>3. DOMAIN entries = {}
    BY <1>5, NothingFacts DEF InitIpEntries, Inv, ReloadInv
  <2>4. Distinct(read)
    BY ReadFacts DEF Inv
  <2> QED BY <1>1, <1>2, <2>2, <2>3, <2>4, LoadExact
<1>6. ASSUME FullReload
      PROVE  FALSE
  <2>1. PICK none : none = [c \in Countries |-> <<>>]
    OBVIOUS
  <2>2. group_entries' = Pushed(none, rows) /\ entries' = Indexed(none, Nothing, rows)
    BY <1>6, <2>1 DEF FullReload
  <2>3. Distinct(rows)
    BY DEF Inv, DatabaseInv
  <2> QED BY <1>1, <2>1, <2>2, <2>3, NothingFacts, LoadExact
<1>7. ASSUME TakeVersion
      PROVE  FALSE
  <2>1. PICK l : l = Head(todo)
    OBVIOUS
  <2>2. CASE l.removed /\ l.id \in DOMAIN entries
    BY <1>7, <2>1, <2>2, RemovedExact DEF TakeVersion, Inv
  <2>3. CASE ~(l.removed /\ l.id \in DOMAIN entries)
    BY <1>3, <1>7, <2>1, <2>3 DEF TakeVersion
  <2> QED BY <2>2, <2>3
<1>8. ASSUME NEW ok \in BOOLEAN, IncrementalAdded(ok)
      PROVE  ok = TRUE /\ ReadAgain
  <2>1. PICK read \in SUBSET rows : read = IF ok THEN {r \in rows : r.version > since} ELSE {}
    OBVIOUS
  <2>2. /\ group_entries' = Pushed(group_entries, read)
        /\ entries' = Indexed(group_entries, entries, read)
    BY <1>8, <2>1 DEF IncrementalAdded
  <2>3. Distinct(read)
    BY ReadFacts DEF Inv
  <2>4. PICK r \in read : r.id \in DOMAIN entries
    BY <1>1, <1>2, <2>2, <2>3, LoadExact
  <2> QED BY <2>1, <2>4 DEF ReadAgain
<1> QED BY <1>4, <1>5, <1>6, <1>7, <1>8 DEF Next, Server

(* Vectors and indices go out of step only when a second query succeeds    *)
(* and reads an entry that is in memory; loading and removing keep them    *)
(* exact (Group.cpp:301-325, 389).                                         *)
THEOREM GroupVectorsDamaged ==
    Spec => VectorsDamagedOnlyByReading
<1>1. Inv /\ [Next]_vars =>
          [VectorsExact /\ ~VectorsExact' => IncrementalAdded(TRUE) /\ ReadAgain]_vars
  BY ExactStep
<1> QED BY <1>1, GroupInvariant, PTL DEF Spec, VectorsDamagedOnlyByReading

-----------------------------------------------------------------------------
(* Entries that stay although they were removed *)

\* a removal that will still be read, or is read and not carried out yet
InLog(id, v) == \E l \in log : l.id = id /\ l.removed /\ l.version > v
InTodo(id) == \E i \in DOMAIN todo : todo[i].id = id /\ todo[i].removed

LEMMA LingersIs ==
    ASSUME NEW id
    PROVE  Lingers(id) <=> /\ id \in DOMAIN entries /\ ~HasRow(id)
                           /\ ~InLog(id, version) /\ ~InTodo(id)
  BY DEF Lingers, InLog, InTodo

LEMMA LingersNext ==
    ASSUME NEW id
    PROVE  Lingers(id)' <=>
               /\ id \in DOMAIN entries' /\ ~\E r \in rows' : r.id = id
               /\ ~\E l \in log' : l.id = id /\ l.removed /\ l.version > version'
               /\ ~\E i \in DOMAIN todo' : todo'[i].id = id /\ todo'[i].removed
  BY DEF Lingers, HasRow

\* what a load brings into memory has a row
LEMMA LoadedHasRow ==
    ASSUME Inv, NEW vectors \in Vectors, NEW known, Known(known), NEW read \in SUBSET rows,
           NEW id \in DOMAIN Indexed(vectors, known, read)
    PROVE  id \in DOMAIN known \/ HasRow(id)
<1>1. Distinct(read)
  BY ReadFacts DEF Inv
<1>2. DOMAIN Indexed(vectors, known, read) = DOMAIN known \cup {r.id : r \in read}
  BY <1>1, IndexedFacts DEF IndexedBy
<1> QED BY <1>2 DEF HasRow

LEMMA LingersStep ==
    ASSUME Inv, [Next]_vars, VectorsExact, NEW id \in Ids, ~Lingers(id), Lingers(id)'
    PROVE  pc = "removing" /\ \E l \in log : l.id = id /\ l.removed /\ l.version > seen
<1>1. /\ id \in DOMAIN entries' /\ ~\E r \in rows' : r.id = id
      /\ ~\E l \in log' : l.id = id /\ l.removed /\ l.version > version'
      /\ ~\E i \in DOMAIN todo' : todo'[i].id = id /\ todo'[i].removed
  BY LingersNext
<1>2. id \in DOMAIN entries /\ ~HasRow(id) => InLog(id, version) \/ InTodo(id)
  BY LingersIs
<1>3. group_entries \in Vectors /\ Known(entries)
  BY DEF Inv, MemoryInv, Known
<1>4. /\ version \in Nat /\ seen \in Nat /\ latest \in Nat /\ version <= latest
      /\ \A l \in log : l.version \in Nat
  BY GroupAssumption DEF Inv, MemoryInv, DatabaseInv, LogRow, Versions
<1>5. CASE UNCHANGED vars
  <2>1. /\ entries' = entries /\ rows' = rows /\ log' = log /\ todo' = todo
        /\ version' = version
    BY <1>5 DEF vars, database, loaded
  <2> QED BY <1>1, <1>2, <2>1 DEF HasRow, InLog, InTodo
<1>6. CASE InitIpGroups
  BY <1>1, <1>6, NothingFacts DEF InitIpGroups, loaded, Inv, ReloadInv
<1>7. ASSUME NEW ok \in BOOLEAN, InitIpEntries(ok)
      PROVE  FALSE
  <2>1. DOMAIN entries = {} /\ rows' = rows
    BY <1>7, NothingFacts DEF InitIpEntries, Inv, ReloadInv, database
  <2>2. PICK read \in SUBSET rows : entries' = Indexed(group_entries, entries, read)
    BY <1>7 DEF InitIpEntries
  <2> QED BY <1>1, <1>3, <2>1, <2>2, LoadedHasRow DEF HasRow
<1>8. ASSUME FullReload
      PROVE  FALSE
  <2>1. PICK none : none = [c \in Countries |-> <<>>]
    OBVIOUS
  <2>2. entries' = Indexed(none, Nothing, rows) /\ rows' = rows
    BY <1>8, <2>1 DEF FullReload, database
  <2> QED BY <1>1, <2>1, <2>2, NothingFacts, LoadedHasRow DEF HasRow
<1>9. ASSUME NEW ok \in BOOLEAN, IncrementalReload(ok)
      PROVE  FALSE
  <2>1. /\ entries' = entries /\ rows' = rows /\ log' = log /\ version' = version
        /\ todo = <<>>
    BY <1>9 DEF IncrementalReload, Inv, ReloadInv, database, loaded
  <2>2. ~InTodo(id)
    BY <2>1, EmptySeq DEF InTodo
  <2> QED BY <1>1, <1>2, <2>1, <2>2 DEF HasRow, InLog
<1>10. ASSUME TakeVersion
       PROVE  FALSE
  <2>1. PICK l : l = Head(todo)
    OBVIOUS
  <2>2. /\ pc = "removing" /\ todo # <<>> /\ todo' = Tail(todo)
        /\ version' = Later(version, l.version) /\ rows' = rows /\ log' = log
        /\ IF l.removed /\ l.id \in DOMAIN entries THEN IncrementalRemoved(l.id)
           ELSE UNCHANGED loaded
    BY <1>10, <2>1 DEF TakeVersion, database
  <2>3. /\ l \in log /\ l.version <= seen
        /\ \A i \in DOMAIN todo : todo[i] = l \/ \E j \in DOMAIN todo' : todo'[j] = todo[i]
    <3>1. /\ l \in log /\ \E i \in DOMAIN todo : todo[i] = l
          /\ \A i \in DOMAIN todo : todo[i] = l \/ \E j \in DOMAIN todo' : todo'[j] = todo[i]
      BY <2>1, <2>2, HeadFacts DEF Inv, ReloadInv
    <3> QED BY <3>1 DEF Inv, ReloadInv
  <2>4. id \in DOMAIN entries /\ ~(l.removed /\ l.id = id)
    <3>1. CASE l.removed /\ l.id \in DOMAIN entries
      <4>1. DOMAIN entries' = DOMAIN entries \ {l.id}
        BY <2>2, <3>1, RemovedExact DEF Inv
      <4> QED BY <1>1, <4>1
    <3>2. CASE ~(l.removed /\ l.id \in DOMAIN entries)
      BY <1>1, <2>2, <3>2 DEF loaded
    <3> QED BY <3>1, <3>2
  <2>5. ~HasRow(id)
    BY <1>1, <2>2 DEF HasRow
  <2>6. ~InTodo(id)
    BY <1>1, <2>3, <2>4 DEF InTodo
  <2>7. PICK k \in log : k.id = id /\ k.removed /\ k.version > version
    BY <1>2, <2>4, <2>5, <2>6 DEF InLog
  <2>8. k.version <= l.version
    <3>1. ~(k.version > version')
      BY <1>1, <2>2, <2>7
    <3> QED BY <1>4, <2>2, <2>3, <2>7, <3>1 DEF Later
  <2>9. k.version <= seen
    BY <1>4, <2>3, <2>8
  <2>10. \E i \in DOMAIN todo : todo[i] = k
    BY <1>4, <2>2, <2>7, <2>9 DEF Inv, ReloadInv
  <2> QED BY <2>6, <2>7, <2>10 DEF InTodo
<1>11. ASSUME NEW ok \in BOOLEAN, IncrementalAdded(ok)
       PROVE  pc = "removing" /\ \E l \in log : l.id = id /\ l.removed /\ l.version > seen
  <2>1. PICK read \in SUBSET rows : entries' = Indexed(group_entries, entries, read)
    BY <1>11 DEF IncrementalAdded
  <2>2. pc = "removing" /\ todo = <<>> /\ rows' = rows /\ log' = log
    BY <1>11 DEF IncrementalAdded, database
  <2>3. ~HasRow(id) /\ id \in DOMAIN entries
    BY <1>1, <1>3, <2>1, <2>2, LoadedHasRow DEF HasRow
  <2>4. DOMAIN todo = {} /\ ~InTodo(id)
    BY <2>2, EmptySeq DEF InTodo
  <2>5. PICK k \in log : k.id = id /\ k.removed /\ k.version > version
    BY <1>2, <2>3, <2>4 DEF InLog
  <2>6. ~(k.version <= seen)
    BY <1>4, <2>2, <2>4, <2>5 DEF Inv, ReloadInv
  <2> QED BY <1>4, <2>2, <2>5, <2>6
<1>12. ASSUME NEW x \in Ids, NEW new, NEW removed \in BOOLEAN, Edit(x, new, removed),
              x = id => removed \/ \E r \in new : r.id = id
       PROVE  FALSE
  <2>1. /\ rows' = {r \in rows : r.id # x} \cup new
        /\ log' = log \cup {[id |-> x, version |-> latest + 1, removed |-> removed]}
        /\ version' = version /\ todo' = todo /\ entries' = entries
    BY <1>12 DEF Edit, loaded
  <2>2. CASE x = id
    <3>1. removed = TRUE
      BY <1>1, <1>12, <2>1, <2>2
    <3>2. PICK k \in log' : k = [id |-> id, version |-> latest + 1, removed |-> TRUE]
      BY <2>1, <2>2, <3>1
    <3>3. k.version > version'
      BY <1>4, <2>1, <3>2
    <3> QED BY <1>1, <3>1, <3>2, <3>3
  <2>3. CASE x # id
    <3>1. ~HasRow(id)
      BY <1>1, <2>1, <2>3 DEF HasRow
    <3>2. ~InLog(id, version) /\ ~InTodo(id)
      BY <1>1, <2>1 DEF InLog, InTodo
    <3> QED BY <1>1, <1>2, <2>1, <3>1, <3>2
  <2> QED BY <2>2, <2>3
<1>13. CASE ControlPlane
  <2>1. ASSUME NEW x \in Ids, Delete(x)
        PROVE  FALSE
    BY <1>12, <2>1 DEF Delete
  <2>2. ASSUME NEW x \in Ids, NEW c \in Countries, Create(x, c) \/ Change(x, c)
        PROVE  FALSE
    <3>1. Edit(x, {AsRow(x, c)}, FALSE) /\ AsRow(x, c).id = x
      BY <2>2 DEF Create, Change, AsRow
    <3> QED BY <1>12, <3>1
  <2> QED BY <1>13, <2>1, <2>2 DEF ControlPlane
<1> QED BY <1>5, <1>6, <1>7, <1>8, <1>9, <1>10, <1>11, <1>13 DEF Next, Server

(* A removed entry stays for good only if its removal came between the two *)
(* queries of an incremental reload, or the first one failed               *)
(* (Group.cpp:288, 391).                                                   *)
THEOREM GroupLingers ==
    Spec => LingersOnlyIfPassed
<1>1. Inv /\ [Next]_vars =>
          [\A id \in Ids : VectorsExact /\ ~Lingers(id) /\ Lingers(id)' =>
               /\ pc = "removing"
               /\ \E l \in log : l.id = id /\ l.removed /\ l.version > seen]_vars
  BY LingersStep
<1> QED BY <1>1, GroupInvariant, PTL DEF Spec, LingersOnlyIfPassed

-----------------------------------------------------------------------------
(* Entries that are not in memory as their rows have them *)

\* rows up to here will not be read again
ReadTo == IF pc = "idle" THEN version ELSE since
AsInRow(id, r) == id \in DOMAIN entries /\ entries[id].countryCode = r.country

LEMMA MissingIs ==
    ASSUME NEW id
    PROVE  Missing(id) <=> \E r \in rows : r.id = id /\ r.version <= ReadTo /\ ~AsInRow(id, r)
  BY DEF Missing, ReadTo, AsInRow

LEMMA MissingNext ==
    ASSUME NEW id
    PROVE  Missing(id)' <=>
               \E r \in rows' : /\ r.id = id
                                /\ r.version <= IF pc' = "idle" THEN version' ELSE since'
                                /\ ~(id \in DOMAIN entries' /\ entries'[id].countryCode = r.country)
  BY DEF Missing

\* a row that is read is in memory as it is, and an entry none is read of stays
LEMMA LoadedAsInRow ==
    ASSUME Inv, NEW vectors \in Vectors, NEW known, Known(known), NEW read \in SUBSET rows,
           NEW index, index = Indexed(vectors, known, read), NEW r \in rows
    PROVE  /\ r \in read => r.id \in DOMAIN index /\ index[r.id].countryCode = r.country
           /\ r \notin read => /\ r.id \in DOMAIN index <=> r.id \in DOMAIN known
                               /\ r.id \in DOMAIN known => index[r.id] = known[r.id]
<1>1. Distinct(read)
  BY ReadFacts DEF Inv
<1>2. PICK now : now = Pushed(vectors, read)
  OBVIOUS
<1>3. IndexedBy(vectors, known, read, now, index)
  BY <1>1, <1>2, IndexedFacts
<1>4. r \notin read => \A s \in read : s.id # r.id
  BY DEF Inv, DatabaseInv, Distinct
<1> QED BY <1>3, <1>4 DEF IndexedBy

LEMMA MissingStep ==
    ASSUME Inv, [Next]_vars, NEW id \in Ids, ~Missing(id), Missing(id)'
    PROVE  pc = "removing" /\ version > since /\ IncrementalAdded(FALSE)
<1>1. PICK r \in rows' : /\ r.id = id
                         /\ r.version <= IF pc' = "idle" THEN version' ELSE since'
                         /\ ~(id \in DOMAIN entries' /\ entries'[id].countryCode = r.country)
  BY MissingNext
<1>2. r \in rows /\ r.version <= ReadTo => AsInRow(id, r)
  BY <1>1, MissingIs
<1>3. /\ version \in Nat /\ since \in Nat /\ latest \in Nat
      /\ version <= latest /\ since <= latest
      /\ \A s \in rows : s.version \in 1 .. latest
  BY GroupAssumption, ReadFacts DEF Inv, MemoryInv, DatabaseInv
<1>4. group_entries \in Vectors /\ Known(entries)
  BY DEF Inv, MemoryInv, Known
<1>5. CASE UNCHANGED vars
  BY <1>1, <1>2, <1>5 DEF vars, database, loaded, ReadTo, AsInRow
<1>6. CASE InitIpGroups
  <2>1. r \in rows /\ pc' = "loading" /\ since' = 0
    BY <1>6 DEF InitIpGroups, database, Inv, ReloadInv, Unversioned
  <2> QED BY <1>1, <1>3, <2>1
<1>7. ASSUME NEW ok \in BOOLEAN, InitIpEntries(ok)
      PROVE  FALSE
  <2>1. PICK read \in SUBSET rows : read = IF ok THEN rows ELSE {}
    OBVIOUS
  <2>2. /\ entries' = Indexed(group_entries, entries, read) /\ rows' = rows
        /\ version' = LaterByTime(version, read) /\ pc' = "idle"
    BY <1>7, <2>1 DEF InitIpEntries, database
  <2>3. version = 0
    BY <1>7 DEF InitIpEntries, Inv, ReloadInv, Unversioned
  <2>4. r \notin read
    BY <1>1, <1>4, <2>2, LoadedAsInRow
  <2>5. read = {}
    BY <2>1, <2>2, <2>4
  <2>6. version' = 0
    BY <1>3, <2>2, <2>3, <2>5, LaterByTimeFacts DEF Inv, DatabaseInv
  <2> QED BY <1>1, <1>3, <2>2, <2>6
<1>8. ASSUME FullReload
      PROVE  FALSE
  <2>1. PICK none : none = [c \in Countries |-> <<>>]
    OBVIOUS
  <2>2. entries' = Indexed(none, Nothing, rows) /\ rows' = rows
    BY <1>8, <2>1 DEF FullReload, database
  <2> QED BY <1>1, <2>1, <2>2, NothingFacts, LoadedAsInRow
<1>9. ASSUME NEW ok \in BOOLEAN, IncrementalReload(ok)
      PROVE  FALSE
  <2>1. /\ pc = "idle" /\ pc' = "removing" /\ since' = version /\ rows' = rows
        /\ entries' = entries
    BY <1>9 DEF IncrementalReload, database, loaded
  <2> QED BY <1>1, <1>2, <2>1 DEF ReadTo, AsInRow
<1>10. ASSUME TakeVersion
       PROVE  FALSE
  <2>1. PICK l : l = Head(todo)
    OBVIOUS
  <2>2. /\ pc = "removing" /\ pc' = pc /\ since' = since /\ rows' = rows /\ todo # <<>>
        /\ IF l.removed /\ l.id \in DOMAIN entries THEN IncrementalRemoved(l.id)
           ELSE UNCHANGED loaded
    BY <1>10, <2>1 DEF TakeVersion, database
  <2>3. AsInRow(id, r)
    BY <1>1, <1>2, <2>2 DEF ReadTo
  <2>4. CASE l.removed /\ l.id \in DOMAIN entries
    <3>1. l \in log
      BY <2>1, <2>2, HeadFacts DEF Inv, ReloadInv
    <3>2. l.id # id
      BY <1>1, <2>2, <2>4, <3>1 DEF Inv, DatabaseInv, HasRow
    <3>3. id \in DOMAIN entries' /\ entries'[id].countryCode = entries[id].countryCode
      BY <2>2, <2>3, <2>4, <3>2, RemovedFacts DEF AsInRow, Inv
    <3> QED BY <1>1, <2>3, <3>3 DEF AsInRow
  <2>5. CASE ~(l.removed /\ l.id \in DOMAIN entries)
    BY <1>1, <2>2, <2>3, <2>5 DEF AsInRow, loaded
  <2> QED BY <2>4, <2>5
<1>11. ASSUME NEW ok \in BOOLEAN, IncrementalAdded(ok)
       PROVE  pc = "removing" /\ version > since /\ ok = FALSE
  <2>1. PICK read \in SUBSET rows : read = IF ok THEN {s \in rows : s.version > since} ELSE {}
    OBVIOUS
  <2>2. /\ entries' = Indexed(group_entries, entries, read) /\ rows' = rows
        /\ version' = Max({version} \cup {s.version : s \in read})
        /\ pc = "removing" /\ pc' = "idle"
    BY <1>11, <2>1 DEF IncrementalAdded, database
  <2>3. r \notin read /\ ~AsInRow(id, r)
    BY <1>1, <1>4, <2>2, LoadedAsInRow DEF AsInRow
  <2>4. ~(r.version <= since)
    BY <1>1, <1>2, <2>2, <2>3 DEF ReadTo
  <2>5. ok = FALSE
    <3>1. CASE ok = TRUE
      BY <1>3, <2>1, <2>2, <2>3, <2>4, <3>1
    <3> QED BY <3>1
  <2>6. version' = version
    <3>1. version' = Max({version})
      BY <2>1, <2>2, <2>5
    <3>2. \E x \in {version} : \A y \in {version} : x >= y
      BY <1>3
    <3> QED BY <3>1, <3>2 DEF Max
  <2>7. r.version <= version
    BY <1>1, <2>2, <2>6
  <2> QED BY <1>3, <2>2, <2>4, <2>5, <2>7
<1>12. ASSUME NEW x \in Ids, NEW new, NEW removed \in BOOLEAN, Edit(x, new, removed),
              new = {} \/ \E c \in Countries : new = {AsRow(x, c)}
       PROVE  FALSE
  <2>1. /\ rows' = {s \in rows : s.id # x} \cup new
        /\ version' = version /\ since' = since /\ pc' = pc /\ entries' = entries
    BY <1>12 DEF Edit, loaded
  <2>2. r \in new => r.version = latest + 1
    BY <1>12 DEF AsRow
  <2>3. r \in rows
    <3>1. r.version \in Nat
      BY <1>3, <2>1, <2>2
    <3>2. r.version <= latest
      BY <1>1, <1>3, <2>1, <3>1
    <3> QED BY <1>3, <2>1, <2>2, <3>2
  <2> QED BY <1>1, <1>2, <2>1, <2>3 DEF ReadTo, AsInRow
<1>13. CASE ControlPlane
  <2>1. ASSUME NEW x \in Ids, Delete(x)
        PROVE  FALSE
    BY <1>12, <2>1 DEF Delete
  <2>2. ASSUME NEW x \in Ids, NEW c \in Countries, Create(x, c) \/ Change(x, c)
        PROVE  FALSE
    <3>1. Edit(x, {AsRow(x, c)}, FALSE)
      BY <2>2 DEF Create, Change
    <3> QED BY <1>12, <3>1
  <2> QED BY <1>13, <2>1, <2>2 DEF ControlPlane
<1> QED BY <1>5, <1>6, <1>7, <1>8, <1>9, <1>10, <1>11, <1>13 DEF Next, Server

(* An added or changed entry is missed for good only if the second query   *)
(* failed after the first had moved the version (Group.cpp:279-282, 340),  *)
(* whatever state the vectors are in.                                      *)
THEOREM GroupMissing ==
    Spec => MissingOnlyIfFailed
<1>1. Inv /\ [Next]_vars =>
          [\A id \in Ids : ~Missing(id) /\ Missing(id)' =>
               pc = "removing" /\ version > since /\ IncrementalAdded(FALSE)]_vars
  BY MissingStep
<1> QED BY <1>1, GroupInvariant, PTL DEF Spec, MissingOnlyIfFailed
=============================================================================
