-------------------------- MODULE LinkedListProofs --------------------------
(***************************************************************************)
(* What pushing, unlinking and leaving alone do to a linked list.          *)
(***************************************************************************)
EXTENDS LinkedLists, Sequences, FiniteSetTheorems, SequenceTheorems,
        WellFoundedInduction, TLAPS

(* A list whose links are left alone is still the same list. *)
LEMMA ListFrame ==
    ASSUME NEW S, NEW next, NEW next2, NEW head, NEW c,
           Order(next, head, S, c),
           \A t \in S : next2[t] = next[t]
    PROVE  Order(next2, head, S, c)
  BY DEF Order

LEMMA BackFrame ==
    ASSUME NEW S, NEW next, NEW head, NEW prev, NEW prev2, NEW c,
           Order(next, head, S, c), BackLinks(prev, S, c),
           \A t \in S : prev2[t] = prev[t]
    PROVE  BackLinks(prev2, S, c)
  BY DEF Order, BackLinks

LEMMA EmptyList ==
    ASSUME NEW next, NEW prev
    PROVE  \E c \in [1 .. Cardinality({}) -> {}] :
               Order(next, Nil, {}, c) /\ BackLinks(prev, {}, c)
<1>1. Cardinality({}) = 0 /\ 1 .. 0 = {}
  BY FS_EmptySet
<1>2. [i \in {} |-> i] \in [{} -> {}]
  OBVIOUS
<1>3. Order(next, Nil, {}, [i \in {} |-> i]) /\ BackLinks(prev, {}, [i \in {} |-> i])
  BY <1>1, <1>2 DEF Order, BackLinks
<1> QED
  BY <1>1, <1>2, <1>3

(* Pushing a slot in front of a list. *)
LEMMA ListPush ==
    ASSUME NEW S, IsFiniteSet(S), NEW s, s \notin S,
           NEW next, NEW next2, NEW head, NEW c,
           Order(next, head, S, c),
           next2[s] = head,
           \A t \in S : next2[t] = next[t]
    PROVE  Order(next2, s, S \cup {s}, Pushed(c, Cardinality(S), s))
<1> DEFINE n == Cardinality(S)
           d == Pushed(c, n, s)
<1>1. n \in Nat /\ Cardinality(S \cup {s}) = n + 1
  BY FS_CardinalityType, FS_AddElement
<1>2. (S = {}) <=> (n = 0)
  BY FS_EmptySet
<1> HIDE DEF n
<1>3. /\ c \in [1 .. n -> S]
      /\ \A t \in S : \E i \in 1 .. n : c[i] = t
      /\ \A i, j \in 1 .. n : c[i] = c[j] => i = j
      /\ head = IF S = {} THEN Nil ELSE c[1]
      /\ \A i \in 1 .. n : next[c[i]] = IF i = n THEN Nil ELSE c[i + 1]
  BY DEF Order, n
<1>4. /\ d[1] = s
      /\ \A i \in 1 .. n : d[i + 1] = c[i]
      /\ d = [i \in 1 .. n + 1 |-> d[i]]
  BY <1>1 DEF Pushed
<1> HIDE DEF d
<1>9. \A i \in 1 .. n + 1 : i # 1 =>
        /\ i - 1 \in 1 .. n
        /\ d[i] = c[i - 1]
        /\ d[i] \in S
  <2> TAKE i \in 1 .. n + 1
  <2> HAVE i # 1
  <2>1. i - 1 \in 1 .. n /\ (i - 1) + 1 = i
    BY <1>1
  <2> QED BY <2>1, <1>3, <1>4
<1>5. d \in [1 .. n + 1 -> S \cup {s}]
  <2>1. \A i \in 1 .. n + 1 : d[i] \in S \cup {s}
    BY <1>9, <1>4
  <2> QED BY <2>1, <1>4
<1>6. \A t \in S \cup {s} : \E i \in 1 .. n + 1 : d[i] = t
  <2>1. \A t \in S : \E i \in 1 .. n + 1 : d[i] = t
    <3> TAKE t \in S
    <3>1. PICK i \in 1 .. n : c[i] = t
      BY <1>3
    <3>2. i + 1 \in 1 .. n + 1 /\ d[i + 1] = t
      BY <1>1, <1>4, <3>1
    <3> QED BY <3>2
  <2> QED BY <2>1, <1>1, <1>4
<1>7. \A i, j \in 1 .. n + 1 : d[i] = d[j] => i = j
  <2> TAKE i, j \in 1 .. n + 1
  <2> HAVE d[i] = d[j]
  <2>2. CASE i = 1 \/ j = 1
    BY <2>2, <1>4, <1>9
  <2>3. CASE i # 1 /\ j # 1
    <3>1. /\ i - 1 \in 1 .. n /\ j - 1 \in 1 .. n
          /\ c[i - 1] = c[j - 1]
      BY <2>3, <1>9
    <3>2. i - 1 = j - 1
      BY <3>1, <1>3
    <3> QED BY <3>2, <1>1
  <2> QED BY <2>2, <2>3
<1>8. \A i \in 1 .. n + 1 : next2[d[i]] = IF i = n + 1 THEN Nil ELSE d[i + 1]
  <2> TAKE i \in 1 .. n + 1
  <2>1. CASE i = 1
    <3>1. next2[d[i]] = IF n = 0 THEN Nil ELSE c[1]
      BY <2>1, <1>2, <1>3, <1>4
    <3>2. n # 0 => d[i + 1] = c[i]
      <4>1. n # 0 => i \in 1 .. n
        BY <2>1, <1>1
      <4> QED BY <4>1, <1>4
    <3> QED BY <3>1, <3>2, <2>1, <1>1
  <2>2. CASE i # 1
    <3>1. i - 1 \in 1 .. n /\ d[i] = c[i - 1] /\ d[i] \in S
      BY <2>2, <1>9
    <3>2. next2[d[i]] = IF i - 1 = n THEN Nil ELSE c[i]
      BY <3>1, <1>1, <1>3
    <3>3. i # n + 1 => d[i + 1] = c[i]
      BY <1>1, <1>4
    <3> QED BY <3>2, <3>3, <1>1
  <2> QED BY <2>1, <2>2
<1> DEFINE T == S \cup {s}
<1>10. /\ Cardinality(T) = n + 1 /\ d \in [1 .. n + 1 -> T]
       /\ \A t \in T : \E i \in 1 .. n + 1 : d[i] = t
       /\ s = IF T = {} THEN Nil ELSE d[1]
  BY <1>1, <1>4, <1>5, <1>6
<1> HIDE DEF T
<1>11. Order(next2, s, T, d)
  BY <1>7, <1>8, <1>10 DEF Order
<1> QED
  BY <1>11 DEF T, d, n

LEMMA BackPush ==
    ASSUME NEW S, IsFiniteSet(S), NEW s, s \notin S,
           NEW next, NEW head, NEW prev, NEW prev2, NEW c,
           Order(next, head, S, c), BackLinks(prev, S, c),
           prev2[s] = Nil,
           S # {} => prev2[head] = s,
           \A t \in S : t # head => prev2[t] = prev[t]
    PROVE  BackLinks(prev2, S \cup {s}, Pushed(c, Cardinality(S), s))
<1> DEFINE n == Cardinality(S)
           d == Pushed(c, n, s)
<1>1. n \in Nat /\ Cardinality(S \cup {s}) = n + 1
  BY FS_CardinalityType, FS_AddElement
<1>2. (S = {}) <=> (n = 0)
  BY FS_EmptySet
<1> HIDE DEF n
<1>3. /\ c \in [1 .. n -> S]
      /\ \A i, j \in 1 .. n : c[i] = c[j] => i = j
      /\ head = IF S = {} THEN Nil ELSE c[1]
      /\ \A i \in 1 .. n : prev[c[i]] = IF i = 1 THEN Nil ELSE c[i - 1]
  BY DEF Order, BackLinks, n
<1>4. /\ d[1] = s
      /\ \A i \in 2 .. n + 1 : d[i] = c[i - 1]
  BY <1>1 DEF Pushed
<1> HIDE DEF d
<1>5. \A i \in 1 .. n + 1 : prev2[d[i]] = IF i = 1 THEN Nil ELSE d[i - 1]
  <2> TAKE i \in 1 .. n + 1
  <2>1. CASE i = 1
    BY <2>1, <1>4
  <2>2. CASE i = 2
    BY <2>2, <1>1, <1>2, <1>3, <1>4
  <2>3. CASE i > 2
    <3>1. i - 1 \in 2 .. n /\ d[i] = c[i - 1] /\ d[i - 1] = c[i - 2]
      BY <2>3, <1>1, <1>4
    <3>2. c[i - 1] \in S /\ c[i - 1] # head
      BY <3>1, <1>1, <1>2, <1>3
    <3>3. prev2[d[i]] = c[i - 2]
      BY <3>1, <3>2, <1>1, <1>3
    <3> QED BY <3>1, <3>3, <2>3
  <2> QED BY <2>1, <2>2, <2>3, <1>1
<1> QED
  BY <1>1, <1>5 DEF BackLinks, d, n

(* Unlinking the k-th slot of a list: its predecessor, or the head, takes  *)
(* over its successor.                                                     *)
LEMMA ListCut ==
    ASSUME NEW S, IsFiniteSet(S), NEW next, NEW next2, NEW head, NEW head2, NEW c,
           Order(next, head, S, c),
           NEW k \in 1 .. Cardinality(S),
           \A t \in S \ {c[k]} :
               next2[t] = IF k > 1 /\ t = c[k - 1] THEN next[c[k]] ELSE next[t],
           head2 = IF k = 1 THEN next[c[k]] ELSE head
    PROVE  Order(next2, head2, S \ {c[k]}, Cut(c, Cardinality(S), k))
<1> DEFINE n == Cardinality(S)
           s == c[k]
           T == S \ {s}
           d == Cut(c, n, k)
<1>1. n \in Nat /\ k \in 1 .. n
  BY FS_CardinalityType
<1>2. /\ c \in [1 .. n -> S]
      /\ \A t \in S : \E i \in 1 .. n : c[i] = t
      /\ \A i, j \in 1 .. n : c[i] = c[j] => i = j
      /\ S # {}
      /\ head = c[1]
      /\ \A i \in 1 .. n : next[c[i]] = IF i = n THEN Nil ELSE c[i + 1]
  BY <1>1 DEF Order
<1>3. Cardinality(T) = n - 1 /\ ((T = {}) <=> (n - 1 = 0))
  <2>1. s \in S
    BY <1>1, <1>2
  <2>2. IsFiniteSet(T) /\ Cardinality(T) = n - 1
    BY <2>1, FS_RemoveElement
  <2>3. (T = {}) <=> (Cardinality(T) = 0)
    BY <2>2, FS_EmptySet
  <2> QED BY <2>2, <2>3
<1> HIDE DEF n
<1>4. /\ \A i \in 1 .. n - 1 : d[i] = IF i < k THEN c[i] ELSE c[i + 1]
      /\ d = [i \in 1 .. n - 1 |-> d[i]]
  BY DEF Cut
<1> HIDE DEF d
<1>5. \A i \in 1 .. n - 1 : d[i] \in T
  BY <1>1, <1>2, <1>4
<1>6. \A t \in T : \E i \in 1 .. n - 1 : d[i] = t
  <2> TAKE t \in T
  <2>1. PICK i \in 1 .. n : c[i] = t
    BY <1>2
  <2>2. CASE i < k
    <3>1. i \in 1 .. n - 1 /\ d[i] = t
      BY <2>1, <2>2, <1>1, <1>4
    <3> QED BY <3>1
  <2>3. CASE i > k
    <3>1. i - 1 \in 1 .. n - 1 /\ d[i - 1] = t
      BY <2>1, <2>3, <1>1, <1>4
    <3> QED BY <3>1
  <2> QED BY <2>1, <2>2, <2>3, <1>1
<1>7. \A i, j \in 1 .. n - 1 : d[i] = d[j] => i = j
  BY <1>1, <1>2, <1>4
<1>8. head2 = IF T = {} THEN Nil ELSE d[1]
  BY <1>1, <1>2, <1>3, <1>4
<1>9. \A i \in 1 .. n - 1 : next2[d[i]] = IF i = n - 1 THEN Nil ELSE d[i + 1]
  <2> TAKE i \in 1 .. n - 1
  <2>1. \A j \in 1 .. n : j # k =>
          next2[c[j]] = IF j = k - 1 THEN next[s] ELSE next[c[j]]
    BY <1>1, <1>2
  <2>2. CASE i < k - 1
    <3>1. d[i] = c[i] /\ d[i + 1] = c[i + 1] /\ i \in 1 .. n /\ i # n - 1 /\ i # n /\ i # k
      BY <2>2, <1>1, <1>4
    <3> QED BY <2>1, <2>2, <3>1, <1>2
  <2>3. CASE i = k - 1
    <3>1. d[i] = c[i] /\ i \in 1 .. n /\ i # k /\ next2[d[i]] = next[s]
      BY <2>3, <2>1, <1>1, <1>4
    <3>2. next[s] = IF k = n THEN Nil ELSE c[k + 1]
      BY <1>1, <1>2
    <3>3. CASE k = n
      BY <3>1, <3>2, <3>3, <2>3
    <3>4. CASE k # n
      <4>1. d[i + 1] = c[k + 1] /\ i # n - 1
        BY <2>3, <3>4, <1>1, <1>4
      <4> QED BY <3>1, <3>2, <3>4, <4>1
    <3> QED BY <3>3, <3>4
  <2>4. CASE i >= k
    <3>1. d[i] = c[i + 1] /\ i + 1 \in 1 .. n /\ i + 1 # k /\ i + 1 # k - 1
      BY <2>4, <1>1, <1>4
    <3>2. next2[d[i]] = next[c[i + 1]]
      BY <3>1, <2>1
    <3>3. next[c[i + 1]] = IF i + 1 = n THEN Nil ELSE c[i + 2]
      BY <3>1, <1>1, <1>2
    <3>4. i # n - 1 => d[i + 1] = c[i + 2]
      BY <2>4, <1>1, <1>4
    <3> QED BY <3>2, <3>3, <3>4, <1>1
  <2> QED BY <2>2, <2>3, <2>4, <1>1
<1>10. d \in [1 .. n - 1 -> T]
  BY <1>4, <1>5
<1>11. Order(next2, head2, T, d)
  <2> HIDE DEF T
  <2> QED BY <1>3, <1>6, <1>7, <1>8, <1>9, <1>10 DEF Order
<1> QED
  BY <1>11 DEF d, n

LEMMA BackCut ==
    ASSUME NEW S, IsFiniteSet(S), NEW next, NEW head, NEW prev, NEW prev2, NEW c,
           Order(next, head, S, c), BackLinks(prev, S, c),
           NEW k \in 1 .. Cardinality(S),
           \A t \in S \ {c[k]} :
               prev2[t] = IF t = next[c[k]] THEN prev[c[k]] ELSE prev[t],
           Nil \notin S
    PROVE  BackLinks(prev2, S \ {c[k]}, Cut(c, Cardinality(S), k))
<1> DEFINE n == Cardinality(S)
           s == c[k]
           T == S \ {s}
           d == Cut(c, n, k)
<1>1. n \in Nat /\ k \in 1 .. n
  BY FS_CardinalityType
<1>2. /\ c \in [1 .. n -> S]
      /\ \A i, j \in 1 .. n : c[i] = c[j] => i = j
      /\ \A i \in 1 .. n : next[c[i]] = IF i = n THEN Nil ELSE c[i + 1]
      /\ \A i \in 1 .. n : prev[c[i]] = IF i = 1 THEN Nil ELSE c[i - 1]
  BY DEF Order, BackLinks
<1>3. Cardinality(T) = n - 1
  <2>1. s \in S
    BY <1>1, <1>2
  <2> HIDE DEF s
  <2> QED BY <2>1, FS_RemoveElement
<1> HIDE DEF n
<1>4. \A i \in 1 .. n - 1 : d[i] = IF i < k THEN c[i] ELSE c[i + 1]
  BY DEF Cut
<1> HIDE DEF d
<1>5. \A j \in 1 .. n : j # k =>
        /\ c[j] \in T
        /\ prev2[c[j]] = IF j = k + 1 THEN prev[s] ELSE prev[c[j]]
  <2> TAKE j \in 1 .. n
  <2> HAVE j # k
  <2>1. c[j] \in T
    BY <1>1, <1>2
  <2>2. (c[j] = next[s]) <=> (j = k + 1)
    BY <1>1, <1>2
  <2> QED BY <2>1, <2>2
<1>6. \A i \in 1 .. n - 1 : prev2[d[i]] = IF i = 1 THEN Nil ELSE d[i - 1]
  <2> TAKE i \in 1 .. n - 1
  <2>1. CASE i < k
    <3>1. d[i] = c[i] /\ i \in 1 .. n /\ i # k /\ i # k + 1 /\ (i # 1 => d[i - 1] = c[i - 1])
      BY <2>1, <1>1, <1>4
    <3> QED BY <3>1, <1>2, <1>5
  <2>2. CASE i = k
    <3>1. d[i] = c[k + 1] /\ k + 1 \in 1 .. n /\ (i # 1 => d[i - 1] = c[k - 1])
      BY <2>2, <1>1, <1>4
    <3>2. prev2[d[i]] = prev[s]
      BY <3>1, <1>1, <1>5
    <3> QED BY <3>1, <3>2, <2>2, <1>1, <1>2
  <2>3. CASE i > k
    <3>1. d[i] = c[i + 1] /\ i + 1 \in 1 .. n /\ i + 1 # k + 1 /\ i + 1 # k
          /\ i # 1 /\ d[i - 1] = c[i]
      BY <2>3, <1>1, <1>4
    <3>2. prev2[d[i]] = prev[c[i + 1]]
      BY <3>1, <1>5
    <3>3. prev[c[i + 1]] = c[i]
      BY <3>1, <1>1, <1>2
    <3> QED BY <3>1, <3>2, <3>3
  <2> QED BY <2>1, <2>2, <2>3, <1>1
<1> QED
  BY <1>3, <1>6 DEF BackLinks, d, n

-----------------------------------------------------------------------------
(* Recursion.  The induction theorems of the library take a predicate as a *)
(* parameter; a least element of the set of counterexamples does the same  *)
(* and needs none.                                                         *)

LEMMA SmallestOf ==
    ASSUME NEW T \in SUBSET Nat, T # {}
    PROVE  \E m \in T : \A n \in T : m <= n
<1> DEFINE R == OpToRel(<, Nat)
<1>1. \A x, y \in Nat : x < y => <<x, y>> \in R
  BY DEF OpToRel
<1>2. IsWellFoundedOn(R, Nat)
  BY NatLessThanWellFounded
<1> HIDE DEF R
<1>3. PICK m \in T : \A n \in T : ~(<<n, m>> \in R)
  BY <1>2, WFMin
<1>4. ASSUME NEW n \in T PROVE m <= n
  <2>1. n \in Nat /\ m \in Nat
    OBVIOUS
  <2>2. ~(n < m)
    BY <1>1, <1>3, <2>1
  <2> QED BY <2>1, <2>2
<1> QED
  BY <1>4

\* w holds what N applications of F make of d
Iterates(w, D, F, d, N) ==
    /\ w \in [0 .. N -> D]
    /\ w[0] = d
    /\ \A n \in 1 .. N : w[n] = F[w[n - 1]]

(* A function on an interval that is defined from its value one before     *)
(* exists, so a recursive definition of that form means what it says.      *)
LEMMA Iteration ==
    ASSUME NEW D, NEW F \in [D -> D], NEW d \in D, NEW N \in Nat
    PROVE  \E w : Iterates(w, D, F, d, N)
<1> DEFINE T == {n \in Nat : ~ \E w : Iterates(w, D, F, d, n)}
<1> SUFFICES ASSUME T # {} PROVE FALSE
  OBVIOUS
<1>1. PICK m \in T : \A n \in T : m <= n
  BY SmallestOf
<1>2. CASE m = 0
  <2> DEFINE w == [n \in 0 .. 0 |-> d]
  <2>1. Iterates(w, D, F, d, 0)
    BY DEF Iterates
  <2> QED BY <2>1, <1>2
<1>3. CASE m > 0
  <2>1. m - 1 \in Nat /\ m - 1 \notin T
    BY <1>1, <1>3
  <2>2. PICK w : Iterates(w, D, F, d, m - 1)
    BY <2>1
  <2> DEFINE v == [n \in 0 .. m |-> IF n = m THEN F[w[m - 1]] ELSE w[n]]
  <2>3. v \in [0 .. m -> D]
    BY <2>1, <2>2 DEF Iterates
  <2>4. v[0] = d /\ \A n \in 1 .. m : v[n] = F[v[n - 1]]
    BY <1>3, <2>1, <2>2 DEF Iterates
  <2> HIDE DEF v
  <2>5. Iterates(v, D, F, d, m)
    BY <2>3, <2>4 DEF Iterates
  <2> QED BY <2>5
<1> QED BY <1>2, <1>3

\* w is the walk get_record makes over the slots S, of at most max slots
IsWalk(w, used, next, S, max) ==
    w = [left \in 0 .. max |->
            [s \in S \cup {Nil} |->
                IF s = Nil \/ left = 0 THEN <<>>
                ELSE IF ~used[s] THEN <<>>
                ELSE IF next[s] = s THEN <<s>>
                ELSE <<s>> \o w[left - 1][next[s]]]]

(* The walk is well defined, whatever the links are.                       *)
LEMMA WalkExists ==
    ASSUME NEW S, Nil \notin S, NEW max \in Nat,
           NEW used \in [S -> BOOLEAN], NEW next \in [S -> S \cup {Nil}]
    PROVE  \E w : IsWalk(w, used, next, S, max)
<1> DEFINE D == [S \cup {Nil} -> Seq(S)]
           F == [g \in D |->
                    [s \in S \cup {Nil} |->
                        IF s = Nil THEN <<>>
                        ELSE IF ~used[s] THEN <<>>
                        ELSE IF next[s] = s THEN <<s>>
                        ELSE <<s>> \o g[next[s]]]]
           d == [s \in S \cup {Nil} |-> <<>>]
<1>1. F \in [D -> D]
  <2> SUFFICES ASSUME NEW g \in D, NEW s \in S, used[s], next[s] # s
               PROVE  <<s>> \o g[next[s]] \in Seq(S)
    OBVIOUS
  <2> QED OBVIOUS
<1>2. d \in D
  OBVIOUS
<1>3. PICK w : Iterates(w, D, F, d, max)
  <2>1. max \in Nat
    OBVIOUS
  <2> HIDE DEF D, F, d
  <2> QED BY ONLY <1>1, <1>2, <2>1, Iteration
<1>4. ASSUME NEW left \in 0 .. max
      PROVE  w[left] = [s \in S \cup {Nil} |->
                IF s = Nil \/ left = 0 THEN <<>>
                ELSE IF ~used[s] THEN <<>>
                ELSE IF next[s] = s THEN <<s>>
                ELSE <<s>> \o w[left - 1][next[s]]]
  <2>1. CASE left = 0
    BY <1>3, <2>1 DEF Iterates
  <2>2. CASE left # 0
    <3>1. left \in 1 .. max /\ left - 1 \in 0 .. max
      BY <2>2
    <3>2. w[left] = F[w[left - 1]] /\ w[left - 1] \in D
      BY <1>3, <3>1 DEF Iterates
    <3> HIDE DEF D
    <3> QED BY <2>2, <3>2
  <2> QED BY <2>1, <2>2
<1>5. w \in [0 .. max -> D]
  BY <1>3 DEF Iterates
<1> HIDE DEF D, F, d
<1>6. IsWalk(w, used, next, S, max)
  BY <1>4, <1>5 DEF IsWalk
<1> QED BY <1>6

\* the listing from its i-th slot on
Suffix(c, n, i) == [j \in 1 .. n - i + 1 |-> c[i + j - 1]]

LEMMA SuffixCons ==
    ASSUME NEW M, NEW n \in Nat, NEW c \in [1 .. n -> M], NEW i \in 1 .. n
    PROVE  <<c[i]>> \o Suffix(c, n, i + 1) = Suffix(c, n, i)
<1> DEFINE q == Suffix(c, n, i + 1)
           r == Suffix(c, n, i)
<1>1. n - i \in Nat /\ n - i + 1 \in Nat
  OBVIOUS
<1>2. q = [j \in 1 .. n - i |-> c[i + j]]
  BY DEF Suffix
<1>3. q \in Seq(M) /\ Len(q) = n - i
  <2>1. q \in [1 .. n - i -> M]
    BY <1>2
  <2> QED BY <1>1, <2>1, LenProperties
<1>4. r \in Seq(M) /\ Len(r) = n - i + 1
  <2>1. r \in [1 .. n - i + 1 -> M]
    BY DEF Suffix
  <2> QED BY <1>1, <2>1, LenProperties
<1>5. <<c[i]>> \in Seq(M) /\ Len(<<c[i]>>) = 1 /\ <<c[i]>>[1] = c[i]
  OBVIOUS
<1> DEFINE e == <<c[i]>>
<1>6. e \in Seq(M) /\ Len(e) = 1 /\ e[1] = c[i]
  BY <1>5
<1> HIDE DEF e, q, r
<1>7. /\ e \o q \in Seq(M) /\ Len(e \o q) = n - i + 1
      /\ \A j \in 1 .. n - i + 1 : (e \o q)[j] = IF j <= 1 THEN e[j] ELSE q[j - 1]
  <2>1. /\ e \o q \in Seq(M) /\ Len(e \o q) = Len(e) + Len(q)
        /\ \A j \in 1 .. Len(e) + Len(q) :
               (e \o q)[j] = IF j <= Len(e) THEN e[j] ELSE q[j - Len(e)]
    BY <1>3, <1>6, ConcatProperties
  <2>2. Len(e) + Len(q) = n - i + 1
    BY <1>1, <1>3, <1>6
  <2> QED BY <1>6, <2>1, <2>2
<1>8. \A j \in 1 .. n - i + 1 : (e \o q)[j] = r[j]
  <2> TAKE j \in 1 .. n - i + 1
  <2>1. r[j] = c[i + j - 1]
    BY DEF r, Suffix
  <2>2. CASE j = 1
    BY <1>6, <1>7, <2>1, <2>2
  <2>3. CASE j # 1
    <3>1. j - 1 \in 1 .. n - i
      BY <2>3
    <3>2. q[j - 1] = c[i + (j - 1)]
      BY <1>2, <3>1
    <3> QED BY <1>7, <2>1, <2>3, <3>2
  <2> QED BY <2>2, <2>3
<1>9. e \o q = r
  BY <1>4, <1>7, <1>8, SeqEqual
<1> QED BY <1>9 DEF e, q, r

\* w takes every slot of M and goes on with its successor
TakesEach(w, next, M, max) ==
    /\ \A left \in 0 .. max : w[left][Nil] = <<>>
    /\ \A left \in 1 .. max : \A s \in M :
           next[s] # s => w[left][s] = <<s>> \o w[left - 1][next[s]]

(* A walk that takes every slot of a list and its successor returns the list. *)
LEMMA WalkThrough ==
    ASSUME NEW next, NEW head, NEW M, IsFiniteSet(M), Nil \notin M,
           NEW c, Order(next, head, M, c),
           NEW max \in Nat, Cardinality(M) <= max,
           NEW w, TakesEach(w, next, M, max)
    PROVE  w[max][head] = c
<1> DEFINE n == Cardinality(M)
           Exact(i) == \A left \in n - i + 1 .. max : w[left][c[i]] = Suffix(c, n, i)
           T == {d \in Nat : d < n /\ ~Exact(n - d)}
<1>1. n \in Nat /\ c \in [1 .. n -> M]
  BY FS_CardinalityType DEF Order
<1>2. ASSUME T # {} PROVE FALSE
  <2>1. PICK d \in T : \A e \in T : d <= e
    BY <1>2, SmallestOf
  <2>2. PICK i : i = n - d
    OBVIOUS
  <2>3. i \in 1 .. n /\ i \in Int /\ d \in Nat /\ ~Exact(i)
    BY <1>1, <2>1, <2>2
  <2>4. PICK left \in n - i + 1 .. max : w[left][c[i]] # Suffix(c, n, i)
    BY <2>3
  <2>5. left \in 1 .. max /\ left # 0 /\ left \in 0 .. max
    BY <1>1, <2>3
  <2>6. c[i] \in M /\ c[i] # Nil
    BY <1>1, <2>3
  <2>7. next[c[i]] = IF i = n THEN Nil ELSE c[i + 1]
    BY <2>3 DEF Order
  <2>8. next[c[i]] # c[i]
    <3>1. CASE i = n
      BY <2>6, <2>7, <3>1
    <3>2. CASE i # n
      <4>1. i + 1 \in 1 .. n /\ i + 1 # i
        BY <1>1, <2>3, <3>2
      <4>2. c[i + 1] # c[i]
        BY <2>3, <4>1 DEF Order
      <4> QED BY <2>7, <3>2, <4>2
    <3> QED BY <3>1, <3>2
  <2>9. w[left][c[i]] = <<c[i]>> \o w[left - 1][next[c[i]]]
    BY <2>5, <2>6, <2>8 DEF TakesEach
  <2>10. w[left - 1][next[c[i]]] = Suffix(c, n, i + 1)
    <3>0. left - 1 \in 0 .. max
      BY <2>5
    <3>1. CASE i = n
      <4>1. w[left - 1][Nil] = <<>>
        BY <3>0 DEF TakesEach
      <4>2. Suffix(c, n, i + 1) = <<>>
        BY <1>1, <3>1 DEF Suffix
      <4> QED BY <2>7, <3>1, <4>1, <4>2
    <3>2. CASE i # n
      <4>1. d - 1 \in Nat /\ d - 1 < n /\ n - (d - 1) = i + 1
        BY <1>1, <2>1, <2>2, <2>3, <3>2
      <4>2. d - 1 \notin T
        BY <2>1, <2>3, <4>1
      <4>3. Exact(i + 1)
        BY <4>1, <4>2
      <4>4. left - 1 \in n - (i + 1) + 1 .. max
        BY <1>1, <2>3, <2>5
      <4> QED BY <2>7, <3>2, <4>3, <4>4
    <3> QED BY <3>1, <3>2
  <2>11. <<c[i]>> \o Suffix(c, n, i + 1) = Suffix(c, n, i)
    BY <1>1, <2>3, SuffixCons
  <2> QED BY <2>4, <2>9, <2>10, <2>11
<1>3. CASE M = {}
  <2>1. n = 0
    BY <1>3, FS_EmptySet
  <2>2. head = Nil
    BY <1>3 DEF Order
  <2>3. w[max][Nil] = <<>>
    BY DEF TakesEach
  <2>4. c = <<>>
    BY <1>1, <2>1
  <2> QED BY <2>2, <2>3, <2>4
<1>4. CASE M # {}
  <2>1. n # 0
    BY <1>4, FS_EmptySet
  <2>2. n - 1 \in Nat /\ n - 1 < n /\ n - (n - 1) = 1 /\ max \in n - 1 + 1 .. max
    BY <1>1, <2>1
  <2>3. Exact(1)
    BY <1>2, <2>2
  <2>4. head = c[1]
    BY <1>4 DEF Order
  <2>5. Suffix(c, n, 1) = c
    <3>1. Suffix(c, n, 1) = [j \in 1 .. n |-> c[j]]
      BY <1>1 DEF Suffix
    <3> QED BY <1>1, <3>1
  <2> QED BY <2>2, <2>3, <2>4, <2>5
<1> QED BY <1>3, <1>4

(* The walk from the head of a list of used slots returns the list.        *)
LEMMA WalkOfList ==
    ASSUME NEW S, Nil \notin S, NEW max \in Nat, NEW used, NEW next, NEW w,
           IsWalk(w, used, next, S, max),
           NEW M, M \subseteq S, IsFiniteSet(M), \A s \in M : used[s],
           Cardinality(M) <= max,
           NEW head, NEW c, Order(next, head, M, c)
    PROVE  w[max][head] = c
<1>1. \A left \in 0 .. max : w[left][Nil] = <<>>
  BY DEF IsWalk
<1>2. ASSUME NEW left \in 1 .. max, NEW s \in M, next[s] # s
      PROVE  w[left][s] = <<s>> \o w[left - 1][next[s]]
  <2>1. left \in 0 .. max /\ left # 0 /\ s \in S /\ used[s] /\ s # Nil
    OBVIOUS
  <2>2. w[left] = [t \in S \cup {Nil} |->
                      IF t = Nil \/ left = 0 THEN <<>>
                      ELSE IF ~used[t] THEN <<>>
                      ELSE IF next[t] = t THEN <<t>>
                      ELSE <<t>> \o w[left - 1][next[t]]]
    BY <2>1 DEF IsWalk
  <2> QED BY ONLY <1>2, <2>1, <2>2
<1>3. TakesEach(w, next, M, max)
  BY <1>1, <1>2 DEF TakesEach
<1>4. /\ Nil \notin M /\ IsFiniteSet(M) /\ Order(next, head, M, c)
      /\ max \in Nat /\ Cardinality(M) <= max
  OBVIOUS
<1> QED BY ONLY <1>3, <1>4, WalkThrough

\* w is the walk delete_record makes: it looks at no slot's is_used
IsChase(w, next, S, max) ==
    w = [left \in 0 .. max |->
            [s \in S \cup {Nil} |->
                IF s = Nil \/ left = 0 THEN <<>>
                ELSE <<s>> \o w[left - 1][next[s]]]]

LEMMA ChaseExists ==
    ASSUME NEW S, Nil \notin S, NEW max \in Nat, NEW next \in [S -> S \cup {Nil}]
    PROVE  \E w : IsChase(w, next, S, max)
<1> DEFINE D == [S \cup {Nil} -> Seq(S)]
           F == [g \in D |->
                    [s \in S \cup {Nil} |-> IF s = Nil THEN <<>> ELSE <<s>> \o g[next[s]]]]
           d == [s \in S \cup {Nil} |-> <<>>]
<1>1. F \in [D -> D]
  <2> SUFFICES ASSUME NEW g \in D, NEW s \in S PROVE <<s>> \o g[next[s]] \in Seq(S)
    OBVIOUS
  <2> QED OBVIOUS
<1>2. d \in D
  OBVIOUS
<1>3. PICK w : Iterates(w, D, F, d, max)
  <2>1. max \in Nat
    OBVIOUS
  <2> HIDE DEF D, F, d
  <2> QED BY ONLY <1>1, <1>2, <2>1, Iteration
<1>4. ASSUME NEW left \in 0 .. max
      PROVE  w[left] = [s \in S \cup {Nil} |->
                IF s = Nil \/ left = 0 THEN <<>> ELSE <<s>> \o w[left - 1][next[s]]]
  <2>1. CASE left = 0
    BY <1>3, <2>1 DEF Iterates
  <2>2. CASE left # 0
    <3>1. left \in 1 .. max /\ left - 1 \in 0 .. max
      BY <2>2
    <3>2. w[left] = F[w[left - 1]] /\ w[left - 1] \in D
      BY <1>3, <3>1 DEF Iterates
    <3> HIDE DEF D
    <3> QED BY <2>2, <3>2
  <2> QED BY <2>1, <2>2
<1>5. w \in [0 .. max -> D]
  BY <1>3 DEF Iterates
<1> HIDE DEF D, F, d
<1>6. IsChase(w, next, S, max)
  BY <1>4, <1>5 DEF IsChase
<1> QED BY <1>6

LEMMA ChaseOfList ==
    ASSUME NEW S, Nil \notin S, NEW max \in Nat, NEW next, NEW w,
           IsChase(w, next, S, max),
           NEW M, M \subseteq S, IsFiniteSet(M), Cardinality(M) <= max,
           NEW head, NEW c, Order(next, head, M, c)
    PROVE  w[max][head] = c
<1>1. \A left \in 0 .. max : w[left][Nil] = <<>>
  BY DEF IsChase
<1>2. ASSUME NEW left \in 1 .. max, NEW s \in M, next[s] # s
      PROVE  w[left][s] = <<s>> \o w[left - 1][next[s]]
  <2>1. left \in 0 .. max /\ left # 0 /\ s \in S /\ s # Nil
    OBVIOUS
  <2>2. w[left] = [t \in S \cup {Nil} |->
                      IF t = Nil \/ left = 0 THEN <<>>
                      ELSE <<t>> \o w[left - 1][next[t]]]
    BY <2>1 DEF IsChase
  <2> QED BY ONLY <2>1, <2>2
<1>3. TakesEach(w, next, M, max)
  BY <1>1, <1>2 DEF TakesEach
<1>4. /\ Nil \notin M /\ IsFiniteSet(M) /\ Order(next, head, M, c)
      /\ max \in Nat /\ Cardinality(M) <= max
  OBVIOUS
<1> QED BY ONLY <1>3, <1>4, WalkThrough

(* Pushing the slots of a list in turn on another one: they come before    *)
(* it, the last one first.                                                 *)
LEMMA ListPushAll ==
    ASSUME NEW S, IsFiniteSet(S), NEW M, IsFiniteSet(M), M # {}, S \cap M = {},
           NEW next, NEW next2, NEW head, NEW first, NEW f, NEW c,
           Order(next, head, S, f), Order(next, first, M, c),
           \A t \in S : next2[t] = next[t],
           \A i \in 1 .. Cardinality(M) :
               next2[c[i]] = IF i = 1 THEN head ELSE c[i - 1]
    PROVE  IsList(next2, c[Cardinality(M)], S \cup M)
<1> DEFINE n == Cardinality(S)
           m == Cardinality(M)
           e == [i \in 1 .. n + m |-> IF i <= m THEN c[m + 1 - i] ELSE f[i - m]]
<1>1. n \in Nat /\ m \in Nat /\ m # 0
  BY FS_CardinalityType, FS_EmptySet
<1>2. IsFiniteSet(S \cup M) /\ Cardinality(S \cup M) = n + m
  <2>1. Cardinality(S \cap M) = 0
    BY FS_EmptySet
  <2>2. /\ IsFiniteSet(S \cup M)
        /\ Cardinality(S \cup M)
               = Cardinality(S) + Cardinality(M) - Cardinality(S \cap M)
    BY FS_Union
  <2>3. Cardinality(S \cup M) = n + m - 0
    BY <2>1, <2>2
  <2> HIDE DEF n, m
  <2> QED BY <1>1, <2>2, <2>3
<1>3. /\ c \in [1 .. m -> M] /\ f \in [1 .. n -> S]
      /\ \A s \in M : \E i \in 1 .. m : c[i] = s
      /\ \A s \in S : \E i \in 1 .. n : f[i] = s
      /\ \A i, j \in 1 .. m : c[i] = c[j] => i = j
      /\ \A i, j \in 1 .. n : f[i] = f[j] => i = j
      /\ head = IF S = {} THEN Nil ELSE f[1]
      /\ \A i \in 1 .. n : next[f[i]] = IF i = n THEN Nil ELSE f[i + 1]
  BY DEF Order
<1> HIDE DEF n, m
<1>4. \A i \in 1 .. n + m :
         /\ i <= m => m + 1 - i \in 1 .. m /\ e[i] = c[m + 1 - i] /\ e[i] \in M
         /\ i > m => i - m \in 1 .. n /\ e[i] = f[i - m] /\ e[i] \in S
  BY <1>1, <1>3
<1>5. e \in [1 .. n + m -> S \cup M]
  BY <1>1, <1>4
<1>6. \A s \in S \cup M : \E i \in 1 .. n + m : e[i] = s
  <2> TAKE s \in S \cup M
  <2>1. CASE s \in M
    <3>1. PICK i \in 1 .. m : c[i] = s
      BY <1>3, <2>1
    <3>2. m + 1 - i \in 1 .. n + m /\ m + 1 - i <= m /\ m + 1 - (m + 1 - i) = i
      BY <1>1
    <3> QED BY <1>4, <3>1, <3>2
  <2>2. CASE s \in S
    <3>1. PICK i \in 1 .. n : f[i] = s
      BY <1>3, <2>2
    <3>4. PICK j : j = m + i
      OBVIOUS
    <3>2. j \in 1 .. n + m /\ j > m /\ j - m = i
      BY <1>1, <3>4
    <3>3. e[j] = f[j - m]
      BY <1>4, <3>2
    <3> QED BY <3>1, <3>2, <3>3
  <2> QED BY <2>1, <2>2
<1>7. \A i, j \in 1 .. n + m : e[i] = e[j] => i = j
  <2> SUFFICES ASSUME NEW i \in 1 .. n + m, NEW j \in 1 .. n + m, e[i] = e[j]
               PROVE  i = j
    OBVIOUS
  <2> HIDE DEF e
  <2>1. CASE i <= m /\ j <= m
    <3>1. m + 1 - i = m + 1 - j
      BY <1>3, <1>4, <2>1
    <3> QED BY <1>1, <3>1
  <2>2. CASE i > m /\ j > m
    <3>1. i - m = j - m
      BY <1>3, <1>4, <2>2
    <3> QED BY <1>1, <3>1
  <2>3. CASE i <= m /\ j > m
    BY <1>4, <2>3
  <2>4. CASE i > m /\ j <= m
    BY <1>4, <2>4
  <2> QED BY <1>1, <2>1, <2>2, <2>3, <2>4
<1>8. c[m] = e[1]
  BY <1>1
<1>9. \A i \in 1 .. n + m : next2[e[i]] = IF i = n + m THEN Nil ELSE e[i + 1]
  <2> TAKE i \in 1 .. n + m
  <2>1. CASE i < m
    <3>1. PICK j \in 1 .. m : j = m + 1 - i /\ j # 1
      <4>1. m + 1 - i \in 1 .. m /\ m + 1 - i # 1
        BY <1>1, <2>1
      <4> QED BY <4>1
    <3>2. next2[c[j]] = c[j - 1]
      BY <3>1 DEF m
    <3>3. e[i] = c[m + 1 - i] /\ e[i + 1] = c[m + 1 - i - 1]
      BY <1>1, <2>1
    <3>5. i # n + m
      BY <1>1, <2>1
    <3> HIDE DEF e
    <3>4. e[i] = c[j] /\ e[i + 1] = c[j - 1]
      BY <1>1, <3>1, <3>3
    <3> QED BY <3>2, <3>4, <3>5
  <2>2. CASE i = m
    <3>1. e[i] = c[1] /\ 1 \in 1 .. m
      BY <1>1, <2>2
    <3>2. next2[e[i]] = head
      BY <3>1 DEF m
    <3>3. CASE n = 0
      <4>1. S = {}
        BY <3>3, FS_EmptySet DEF n
      <4> QED BY <1>3, <2>2, <3>2, <3>3, <4>1
    <3>4. CASE n # 0
      <4>1. S # {}
        BY <3>4, FS_EmptySet DEF n
      <4>2. e[i + 1] = f[1]
        BY <1>1, <2>2, <3>4
      <4> QED BY <1>1, <1>3, <2>2, <3>2, <3>4, <4>1, <4>2
    <3> QED BY <3>3, <3>4
  <2>3. CASE i > m
    <3>1. i - m \in 1 .. n /\ e[i] = f[i - m] /\ e[i] \in S
      BY <1>1, <1>4, <2>3
    <3>2. next2[e[i]] = next[f[i - m]]
      BY <3>1
    <3>3. next[f[i - m]] = IF i - m = n THEN Nil ELSE f[i - m + 1]
      BY <1>3, <3>1
    <3>4. i # n + m => e[i + 1] = f[i - m + 1]
      BY <1>1, <2>3
    <3> QED BY <1>1, <3>2, <3>3, <3>4
  <2> QED BY <1>1, <2>1, <2>2, <2>3
<1>10. S \cup M # {}
  OBVIOUS
<1> HIDE DEF e
<1>11. Order(next2, c[m], S \cup M, e)
  <2>1. c[m] = IF S \cup M = {} THEN Nil ELSE e[1]
    BY <1>8, <1>10
  <2> HIDE DEF m, n
  <2> QED BY ONLY <1>2, <1>5, <1>6, <1>7, <1>9, <2>1 DEF Order
<1> QED BY <1>2, <1>5, <1>11 DEF IsList, m

(* Threading a set of slots in ascending order, from the end.              *)
LEMMA ListAscending ==
    ASSUME NEW N \in Nat, NEW U \in SUBSET (0 .. N - 1), NEW next, NEW first,
           first[N] = Nil,
           \A p \in 0 .. N - 1 : first[p] = IF p \in U THEN p ELSE first[p + 1],
           \A s \in U : next[s] = first[s + 1]
    PROVE  IsList(next, first[0], U)
<1> DEFINE From(p) == {s \in U : s >= p}
           T == {n \in Nat : n <= N /\ ~IsList(next, first[N - n], From(N - n))}
<1>1. \A p \in 0 .. N : IsFiniteSet(From(p))
  <2>1. IsFiniteSet(0 .. N - 1)
    BY FS_Interval
  <2> QED BY <2>1, FS_Subset
<1>2. ASSUME T # {} PROVE FALSE
  <2>1. PICK n \in T : \A e \in T : n <= e
    BY <1>2, SmallestOf
  <2>2. PICK p : p = N - n
    OBVIOUS
  <2>3. n \in Nat /\ p \in 0 .. N /\ ~IsList(next, first[p], From(p))
    BY <2>1, <2>2
  <2>4. CASE n = 0
    <3>1. p = N
      BY <2>2, <2>4
    <3>2. \A s \in U : ~(s >= N)
      OBVIOUS
    <3>3. From(p) = {}
      BY <3>1, <3>2
    <3>4. IsList(next, Nil, {})
      BY EmptyList DEF IsList
    <3> QED BY <2>3, <3>1, <3>3, <3>4
  <2>5. CASE n # 0
    <3>0. n <= N /\ N \in Nat
      BY <2>1
    <3>1. /\ n - 1 \in Nat /\ n - 1 <= N /\ N - (n - 1) = p + 1
          /\ p \in 0 .. N - 1 /\ p + 1 \in 0 .. N /\ ~(n <= n - 1)
      BY <2>2, <2>3, <2>5, <3>0
    <3>5. n - 1 \notin T
      BY <2>1, <3>1
    <3>2. IsList(next, first[p + 1], From(p + 1))
      BY <3>1, <3>5
    <3>6. \A s \in U : (s >= p) <=> (s >= p + 1 \/ s = p)
      BY <3>1
    <3>3. CASE p \in U
      <4>0. p \notin From(p + 1)
        BY <3>1
      <4>1. From(p) = From(p + 1) \cup {p} /\ p \notin From(p + 1)
        BY <3>3, <3>6, <4>0
      <4>2. first[p] = p /\ next[p] = first[p + 1]
        BY <3>1, <3>3
      <4>3. PICK c : Order(next, first[p + 1], From(p + 1), c)
        BY <3>2 DEF IsList
      <4> DEFINE q == From(p + 1)
      <4>4. IsFiniteSet(q) /\ p \notin q /\ Order(next, first[p + 1], q, c)
        BY <1>1, <3>1, <4>1, <4>3
      <4>8. next[p] = first[p + 1]
        BY <4>2
      <4> HIDE DEF q
      <4>5. \A t \in q : next[t] = next[t]
        OBVIOUS
      <4>6. Order(next, p, q \cup {p}, Pushed(c, Cardinality(q), p))
        BY ONLY <4>4, <4>5, <4>8, ListPush
      <4>7. IsList(next, p, q \cup {p})
        BY <4>6 DEF IsList, Order
      <4> QED BY <2>3, <4>1, <4>2, <4>7 DEF q
    <3>4. CASE p \notin U
      <4>1. From(p) = From(p + 1)
        BY <3>4, <3>6
      <4>2. first[p] = first[p + 1]
        BY <3>1, <3>4
      <4> QED BY <2>3, <3>2, <4>1, <4>2
    <3> QED BY <3>3, <3>4
  <2> QED BY <2>4, <2>5
<1>3. N \notin T
  BY <1>2
<1>4. N - N = 0 /\ N \in Nat /\ N <= N
  OBVIOUS
<1>5. IsList(next, first[N - N], From(N - N))
  BY <1>3, <1>4
<1>6. From(0) = U
  <2>1. \A s \in U : s >= 0
    OBVIOUS
  <2> QED BY <2>1
<1> QED BY <1>4, <1>5, <1>6

LEMMA LargestOf ==
    ASSUME NEW N \in Nat, NEW T \in SUBSET (0 .. N - 1), T # {}
    PROVE  \E m \in T : \A t \in T : t <= m
<1>1. PICK V : V = {N - t : t \in T}
  OBVIOUS
<1>2. V \in SUBSET Nat /\ V # {}
  <2>1. \A t \in T : N - t \in Nat
    OBVIOUS
  <2> QED BY <1>1, <2>1
<1>3. PICK v \in V : \A w \in V : v <= w
  BY <1>2, SmallestOf
<1>4. PICK m \in T : v = N - m
  BY <1>1
<1>5. ASSUME NEW t \in T PROVE t <= m
  <2>1. v <= N - t
    BY <1>1, <1>3
  <2>2. t \in Int /\ m \in Int
    OBVIOUS
  <2> QED BY <1>4, <2>1, <2>2
<1> QED BY <1>5

\* the first slot from on that is not used
FirstFree(used, N, from) ==
    IF \E s \in 0 .. N - 1 : s >= from /\ ~used[s]
    THEN CHOOSE s \in 0 .. N - 1 : /\ s >= from /\ ~used[s]
                                   /\ \A t \in from .. s - 1 : used[t]
    ELSE Nil

LEMMA FirstFreeFacts ==
    ASSUME NEW N \in Nat, NEW used, NEW p \in 0 .. N
    PROVE  /\ p = N => FirstFree(used, N, p) = Nil
           /\ p \in 0 .. N - 1 =>
                  FirstFree(used, N, p) =
                      IF used[p] THEN FirstFree(used, N, p + 1) ELSE p
           /\ FirstFree(used, N, p) \in (0 .. N - 1) \cup {Nil}
<1>1. N \in Nat /\ p \in Int
  OBVIOUS
<1> DEFINE At(q, s) == /\ s >= q /\ ~used[s]
                       /\ \A t \in q .. s - 1 : used[t]
<1>2. ASSUME NEW q \in Int, NEW s \in 0 .. N - 1, NEW t \in 0 .. N - 1, At(q, s), At(q, t)
      PROVE  s = t
  <2>1. CASE s < t
    <3>1. s \in q .. t - 1
      BY <1>1, <1>2, <2>1
    <3> QED BY <1>2, <3>1
  <2>2. CASE t < s
    <3>1. t \in q .. s - 1
      BY <1>1, <1>2, <2>2
    <3> QED BY <1>2, <3>1
  <2> QED BY <1>1, <2>1, <2>2
<1>3. ASSUME NEW q \in 0 .. N, \E s \in 0 .. N - 1 : s >= q /\ ~used[s]
      PROVE  \E s \in 0 .. N - 1 : At(q, s)
  <2>1. PICK T : T = {s \in 0 .. N - 1 : s >= q /\ ~used[s]}
    OBVIOUS
  <2>2. T \subseteq Nat /\ T # {}
    BY <1>1, <1>3, <2>1
  <2>3. PICK s \in T : \A t \in T : s <= t
    BY <2>2, SmallestOf
  <2>4. ASSUME NEW t \in q .. s - 1 PROVE used[t]
    <3>1. t \in 0 .. N - 1 /\ t >= q /\ ~(s <= t)
      BY <1>1, <2>1, <2>3, <2>4
    <3> QED BY <2>1, <2>3, <3>1
  <2> QED BY <2>1, <2>3, <2>4
<1>4. ASSUME NEW q \in 0 .. N, NEW s \in 0 .. N - 1, At(q, s)
      PROVE  FirstFree(used, N, q) = s
  <2>1. \E t \in 0 .. N - 1 : t >= q /\ ~used[t]
    BY <1>4
  <2>2. q \in Int
    BY <1>1
  <2>3. \A t \in 0 .. N - 1 : At(q, t) => t = s
    BY ONLY <1>2, <1>4, <2>2
  <2>4. (CHOOSE t \in 0 .. N - 1 : /\ t >= q /\ ~used[t]
                              /\ \A u \in q .. t - 1 : used[u]) = s
    BY <1>4, <2>3
  <2> QED BY <2>1, <2>4 DEF FirstFree
<1>5. ASSUME NEW q \in 0 .. N, ~\E s \in 0 .. N - 1 : s >= q /\ ~used[s]
      PROVE  FirstFree(used, N, q) = Nil
  BY <1>5 DEF FirstFree
<1>6. p = N => FirstFree(used, N, p) = Nil
  <2>1. p = N => ~\E s \in 0 .. N - 1 : s >= p /\ ~used[s]
    BY <1>1
  <2> QED BY <1>5, <2>1
<1>7. p \in 0 .. N - 1 => FirstFree(used, N, p) = IF used[p] THEN FirstFree(used, N, p + 1) ELSE p
  <2> SUFFICES ASSUME p \in 0 .. N - 1
               PROVE  FirstFree(used, N, p) = IF used[p] THEN FirstFree(used, N, p + 1) ELSE p
    OBVIOUS
  <2>1. p + 1 \in 0 .. N /\ p .. p - 1 = {} /\ p >= p
    BY <1>1
  <2>2. CASE ~used[p]
    <3>1. At(p, p)
      BY <2>1, <2>2
    <3> QED BY <1>4, <2>2, <3>1
  <2>3. CASE used[p]
    <3>1. used[p]
      BY <2>3
    <3>2. CASE \E s \in 0 .. N - 1 : s >= p + 1 /\ ~used[s]
      <4>1. PICK s \in 0 .. N - 1 : At(p + 1, s)
        BY <1>3, <2>1, <3>2
      <4>2. \A t \in p .. s - 1 : t = p \/ t \in p + 1 .. s - 1
        BY <1>1
      <4>3. At(p, s)
        BY <1>1, <3>1, <4>1, <4>2
      <4>4. FirstFree(used, N, p) = s
        BY <1>4, <4>3
      <4>5. FirstFree(used, N, p + 1) = s
        BY <1>4, <2>1, <4>1
      <4> QED BY <2>3, <4>4, <4>5
    <3>3. CASE ~\E s \in 0 .. N - 1 : s >= p + 1 /\ ~used[s]
      <4>1. \A s \in 0 .. N - 1 : s >= p => s = p \/ s >= p + 1
        BY <1>1
      <4>2. ~\E s \in 0 .. N - 1 : s >= p /\ ~used[s]
        BY <3>1, <3>3, <4>1
      <4> QED BY <1>5, <2>1, <2>3, <3>3, <4>2
    <3> QED BY <3>2, <3>3
  <2> QED BY <2>2, <2>3
<1>8. FirstFree(used, N, p) \in (0 .. N - 1) \cup {Nil}
  BY <1>3, <1>4, <1>5
<1> QED BY <1>6, <1>7, <1>8

-----------------------------------------------------------------------------
(* The same for whole lists, without their listings *)

LEMMA ListedIs ==
    ASSUME NEW S, NEW next, NEW head, NEW c, Order(next, head, S, c)
    PROVE  IsList(next, head, S)
  BY DEF IsList, Order

LEMMA ListedIsDouble ==
    ASSUME NEW S, NEW next, NEW prev, NEW head, NEW c,
           Order(next, head, S, c), BackLinks(prev, S, c)
    PROVE  IsDoubleList(next, prev, head, S)
  BY DEF IsDoubleList, Order

LEMMA HeadOfList ==
    ASSUME NEW S, IsFiniteSet(S), NEW next, NEW head, IsList(next, head, S), Nil \notin S
    PROVE  /\ S = {} <=> head = Nil
           /\ S # {} => head \in S
<1>1. PICK c : Order(next, head, S, c)
  BY DEF IsList
<1>2. S # {} => 1 \in 1 .. Cardinality(S)
  BY FS_CardinalityType, FS_EmptySet
<1>3. S # {} => head \in S
  BY <1>1, <1>2 DEF Order
<1> QED BY <1>1, <1>3 DEF Order

LEMMA FreeFrame ==
    ASSUME NEW S, NEW next, NEW next2, NEW head, IsList(next, head, S),
           \A t \in S : next2[t] = next[t]
    PROVE  IsList(next2, head, S)
<1>1. PICK c : Order(next, head, S, c)
  BY DEF IsList
<1>2. Order(next2, head, S, c)
  BY <1>1, ListFrame
<1> QED BY <1>2, ListedIs

LEMMA FreePush ==
    ASSUME NEW S, IsFiniteSet(S), NEW s, s \notin S, NEW next, NEW next2, NEW head,
           IsList(next, head, S), next2[s] = head,
           \A t \in S : next2[t] = next[t]
    PROVE  IsList(next2, s, S \cup {s})
<1>1. PICK c : Order(next, head, S, c)
  BY DEF IsList
<1>2. Order(next2, s, S \cup {s}, Pushed(c, Cardinality(S), s))
  BY <1>1, ListPush
<1> QED BY <1>2, ListedIs

LEMMA FreePop ==
    ASSUME NEW S, IsFiniteSet(S), Nil \notin S, NEW next, NEW next2, NEW head,
           IsList(next, head, S), head # Nil,
           \A t \in S \ {head} : next2[t] = next[t]
    PROVE  IsList(next2, next[head], S \ {head})
<1>1. PICK c : Order(next, head, S, c)
  BY DEF IsList
<1>2. S # {}
  BY HeadOfList
<1>3. 1 \in 1 .. Cardinality(S) /\ c[1] = head
  BY <1>1, <1>2, FS_CardinalityType, FS_EmptySet DEF Order
<1>4. \A t \in S \ {c[1]} :
        next2[t] = IF 1 > 1 /\ t = c[1 - 1] THEN next[c[1]] ELSE next[t]
  BY <1>3
<1>5. PICK first : first = next[c[1]]
  OBVIOUS
<1>6. Order(next2, first, S \ {c[1]}, Cut(c, Cardinality(S), 1))
  BY <1>1, <1>3, <1>4, <1>5, ListCut
<1>7. IsList(next2, first, S \ {c[1]})
  BY <1>6, ListedIs
<1> QED BY <1>3, <1>5, <1>7

LEMMA DoubleIsList ==
    ASSUME NEW S, NEW next, NEW prev, NEW head, IsDoubleList(next, prev, head, S)
    PROVE  IsList(next, head, S)
  BY DEF IsDoubleList, IsList

LEMMA DoubleFrame ==
    ASSUME NEW S, NEW next, NEW prev, NEW next2, NEW prev2, NEW head,
           IsDoubleList(next, prev, head, S),
           \A t \in S : next2[t] = next[t] /\ prev2[t] = prev[t]
    PROVE  IsDoubleList(next2, prev2, head, S)
<1>1. PICK c : Order(next, head, S, c) /\ BackLinks(prev, S, c)
  BY DEF IsDoubleList
<1>2. Order(next2, head, S, c) /\ BackLinks(prev2, S, c)
  BY <1>1, ListFrame, BackFrame
<1> QED BY <1>2, ListedIsDouble

LEMMA DoubleNew ==
    ASSUME NEW next, NEW prev, NEW s, next[s] = Nil, prev[s] = Nil
    PROVE  IsDoubleList(next, prev, s, {s})
<1>1. PICK c : Order(next, Nil, {}, c) /\ BackLinks(prev, {}, c)
  BY EmptyList
<1>2. IsFiniteSet({}) /\ s \notin {}
  BY FS_EmptySet
<1>3. Order(next, s, {} \cup {s}, Pushed(c, Cardinality({}), s))
  BY <1>1, <1>2, ListPush
<1>4. BackLinks(prev, {} \cup {s}, Pushed(c, Cardinality({}), s))
  BY <1>1, <1>2, BackPush
<1>5. {} \cup {s} = {s}
  OBVIOUS
<1>6. IsDoubleList(next, prev, s, {} \cup {s})
  BY <1>3, <1>4, ListedIsDouble
<1> QED BY <1>5, <1>6

LEMMA DoublePush ==
    ASSUME NEW S, IsFiniteSet(S), NEW s, s \notin S,
           NEW next, NEW prev, NEW next2, NEW prev2, NEW head,
           IsDoubleList(next, prev, head, S),
           next2[s] = head, prev2[s] = Nil, prev2[head] = s,
           \A t \in S : next2[t] = next[t] /\ (t # head => prev2[t] = prev[t])
    PROVE  IsDoubleList(next2, prev2, s, S \cup {s})
<1>1. PICK c : Order(next, head, S, c) /\ BackLinks(prev, S, c)
  BY DEF IsDoubleList
<1>2. Order(next2, s, S \cup {s}, Pushed(c, Cardinality(S), s))
  BY <1>1, ListPush
<1>3. BackLinks(prev2, S \cup {s}, Pushed(c, Cardinality(S), s))
  BY <1>1, BackPush
<1> QED BY <1>2, <1>3, ListedIsDouble

LEMMA DoubleLinks ==
    ASSUME NEW S, IsFiniteSet(S), Nil \notin S, NEW s \in S,
           NEW next, NEW prev, NEW head, NEW c,
           Order(next, head, S, c), BackLinks(prev, S, c)
    PROVE  \E k \in 1 .. Cardinality(S) :
               /\ c[k] = s
               /\ next[s] \in (S \ {s}) \cup {Nil} /\ prev[s] \in (S \ {s}) \cup {Nil}
               /\ k > 1 => prev[s] = c[k - 1]
               /\ (k = 1) <=> (prev[s] = Nil)
               /\ (k = 1) <=> (head = s)
<1>1. PICK n : n = Cardinality(S)
  OBVIOUS
<1>2. n \in Nat
  BY <1>1, FS_CardinalityType
<1>3. /\ c \in [1 .. n -> S] /\ head = c[1]
      /\ \A i, j \in 1 .. n : c[i] = c[j] => i = j
  BY <1>1 DEF Order
<1>4. PICK k \in 1 .. n : c[k] = s
  BY <1>1 DEF Order
<1>5. /\ next[s] = IF k = n THEN Nil ELSE c[k + 1]
      /\ prev[s] = IF k = 1 THEN Nil ELSE c[k - 1]
  BY <1>1, <1>4 DEF Order, BackLinks
<1>6. k # n => c[k + 1] \in S \ {s}
  <2>1. k # n => k + 1 \in 1 .. n /\ k + 1 # k
    BY <1>2
  <2> QED BY <1>3, <1>4, <2>1
<1>7. k # 1 => c[k - 1] \in S \ {s}
  <2>1. k # 1 => k - 1 \in 1 .. n /\ k - 1 # k
    BY <1>2
  <2> QED BY <1>3, <1>4, <2>1
<1>8. (k = 1) <=> (head = s)
  <2>1. 1 \in 1 .. n
    BY <1>2, <1>4
  <2> QED BY <1>3, <1>4, <2>1
<1>9. /\ c[k] = s
      /\ next[s] \in (S \ {s}) \cup {Nil} /\ prev[s] \in (S \ {s}) \cup {Nil}
      /\ k > 1 => prev[s] = c[k - 1]
      /\ (k = 1) <=> (prev[s] = Nil)
  <2>1. k \in Int /\ Nil \notin S \ {s}
    OBVIOUS
  <2>2. k > 1 => k # 1
    BY <2>1
  <2> QED BY <1>4, <1>5, <1>6, <1>7, <2>2
<1> QED BY <1>1, <1>8, <1>9

(* Taking one slot out of a doubly linked list *)
LEMMA DoubleCut ==
    ASSUME NEW S, IsFiniteSet(S), Nil \notin S, NEW s \in S,
           NEW next, NEW prev, NEW next2, NEW prev2, NEW head, NEW head2,
           IsDoubleList(next, prev, head, S),
           head2 = IF head = s THEN next[s] ELSE head,
           \A t \in S \ {s} :
               /\ next2[t] = IF head # s /\ t = prev[s] THEN next[s] ELSE next[t]
               /\ prev2[t] = IF t = next[s] THEN prev[s] ELSE prev[t]
    PROVE  IsDoubleList(next2, prev2, head2, S \ {s})
<1>1. PICK c : Order(next, head, S, c) /\ BackLinks(prev, S, c)
  BY DEF IsDoubleList
<1>2. PICK k \in 1 .. Cardinality(S) :
          /\ c[k] = s
          /\ k > 1 => prev[s] = c[k - 1]
          /\ (k = 1) <=> (head = s)
  BY <1>1, DoubleLinks
<1>3. Cardinality(S) \in Nat
  BY FS_CardinalityType
<1>4. (k > 1) <=> (head # s)
  BY <1>2, <1>3
<1>5. \A t \in S \ {c[k]} :
        next2[t] = IF k > 1 /\ t = c[k - 1] THEN next[c[k]] ELSE next[t]
  BY <1>2, <1>4
<1>6. head2 = IF k = 1 THEN next[c[k]] ELSE head
  BY <1>2
<1>7. \A t \in S \ {c[k]} :
        prev2[t] = IF t = next[c[k]] THEN prev[c[k]] ELSE prev[t]
  BY <1>2
<1>8. Order(next2, head2, S \ {c[k]}, Cut(c, Cardinality(S), k))
  BY <1>1, <1>5, <1>6, ListCut
<1>9. BackLinks(prev2, S \ {c[k]}, Cut(c, Cardinality(S), k))
  BY <1>1, <1>7, BackCut
<1>10. IsDoubleList(next2, prev2, head2, S \ {c[k]})
  BY <1>8, <1>9, ListedIsDouble
<1> QED BY <1>2, <1>10

LEMMA DoubleNeighbours ==
    ASSUME NEW S, IsFiniteSet(S), Nil \notin S, NEW s \in S,
           NEW next, NEW prev, NEW head, IsDoubleList(next, prev, head, S)
    PROVE  /\ next[s] \in (S \ {s}) \cup {Nil}
           /\ prev[s] \in (S \ {s}) \cup {Nil}
           /\ (prev[s] = Nil) <=> (head = s)
<1>1. PICK c : Order(next, head, S, c) /\ BackLinks(prev, S, c)
  BY DEF IsDoubleList
<1> QED BY <1>1, DoubleLinks
=============================================================================
