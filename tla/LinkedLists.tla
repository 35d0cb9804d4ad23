---------------------------- MODULE LinkedLists ----------------------------
(***************************************************************************)
(* The intrusive lists of the two caches: slots that name their successor  *)
(* (and predecessor) by index, -1 where there is none.  A list is          *)
(* described by the sequence of its slots, so the definitions stay clear   *)
(* of recursion and can be reasoned about.                                 *)
(***************************************************************************)
EXTENDS Integers, FiniteSets

Nil == -1

\* c lists S in the order in which next leads from head to the end
Order(next, head, S, c) ==
    /\ c \in [1 .. Cardinality(S) -> S]
    /\ \A s \in S : \E i \in 1 .. Cardinality(S) : c[i] = s
    /\ \A i, j \in 1 .. Cardinality(S) : c[i] = c[j] => i = j
    /\ head = IF S = {} THEN Nil ELSE c[1]
    /\ \A i \in 1 .. Cardinality(S) :
           next[c[i]] = IF i = Cardinality(S) THEN Nil ELSE c[i + 1]

\* and prev leads back
BackLinks(prev, S, c) ==
    \A i \in 1 .. Cardinality(S) : prev[c[i]] = IF i = 1 THEN Nil ELSE c[i - 1]

IsList(next, head, S) ==
    \E c \in [1 .. Cardinality(S) -> S] : Order(next, head, S, c)

IsDoubleList(next, prev, head, S) ==
    \E c \in [1 .. Cardinality(S) -> S] :
        Order(next, head, S, c) /\ BackLinks(prev, S, c)

\* the listing with s in front, and the listing without its k-th slot
Pushed(c, n, s) == [i \in 1 .. n + 1 |-> IF i = 1 THEN s ELSE c[i - 1]]
Cut(c, n, k) == [i \in 1 .. n - 1 |-> IF i < k THEN c[i] ELSE c[i + 1]]
=============================================================================
