---------------------------- MODULE MCArrayList ----------------------------
(***************************************************************************)
(* Instances of ArrayList for TLC.                                         *)
(***************************************************************************)
EXTENDS ArrayList, TLC

CONSTANTS x1, x2

Stored == Permutations({x1, x2})

=============================================================================
