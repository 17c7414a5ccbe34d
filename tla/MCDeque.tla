------------------------------ MODULE MCDeque ------------------------------
(***************************************************************************)
(* Instances of Deque for TLC.                                             *)
(***************************************************************************)
EXTENDS Deque, TLC

CONSTANTS n1, n2, n3, v1, v2

\* nodes and items are interchangeable
Symmetries == Permutations(Node) \cup Permutations(Value)

=============================================================================
