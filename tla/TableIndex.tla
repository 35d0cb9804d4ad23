----------------------------- MODULE TableIndex -----------------------------
(***************************************************************************)
(* The home index of the caches' tables of names and of ids.               *)
(***************************************************************************)
EXTENDS Integers, Bitwise

\* mutant: the remainder instead of the mask
HomeByRemainder(hash, size) == hash % size

\* hash & (HASH_TABLE_SIZE - 1), and so for the id table
Home(hash, size) == hash & (size - 1)
=============================================================================
