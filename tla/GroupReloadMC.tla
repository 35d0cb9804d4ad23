--------------------------- MODULE GroupReloadMC ---------------------------
(***************************************************************************)
(* Three entries of two countries, and six edits, the second and third     *)
(* of which fall into one tick of the clock.                               *)
(***************************************************************************)
EXTENDS GroupReloadProperties, TLC

MCTimeOf == [v \in 0 .. MaxVersion |-> IF v >= 3 THEN v - 1 ELSE v]

Symmetry == Permutations(Ids) \cup Permutations(Countries)
=============================================================================
