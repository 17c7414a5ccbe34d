---------------------------- MODULE MCHashTable ----------------------------
(***************************************************************************)
(* Instances of HashTable for TLC: keys that collide in an array of two    *)
(* chains and part in one of four.                                         *)
(***************************************************************************)
EXTENDS HashTable, TLC

CONSTANTS v1, v2

Values == Permutations(Value)

=============================================================================
