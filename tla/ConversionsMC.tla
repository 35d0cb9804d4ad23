--------------------------- MODULE ConversionsMC ---------------------------
(***************************************************************************)
(* Every text of at most MaxLength of the bytes k K o . = & is a state, so *)
(* the properties are checked of all of them.                              *)
(***************************************************************************)
EXTENDS ConversionsProperties, TableIndex

MCKey == <<107, 111>>
MCBytes == {107, 75, 111, Dot, Equals, Ampersand}

-----------------------------------------------------------------------------
PowersOfTwo == {1, 2, 4, 8, 16, 32, 64}

\* A table of a size that is no power of two, as those of both caches are
\* (MmapRecords.hpp:18-20), has entries that are nobody's home: the mask keeps
\* a record away from them unless probing moves it there.
HomesCoverPowersOfTwoOnly ==
    LET size == Len(text) + 1
        homes == {Home(hash, size) : hash \in 0 .. 63}
    IN  /\ homes \subseteq 0 .. size - 1
        /\ homes = 0 .. size - 1 <=> size \in PowersOfTwo
=============================================================================
