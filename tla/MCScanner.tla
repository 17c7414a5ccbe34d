----------------------------- MODULE MCScanner -----------------------------
(***************************************************************************)
(* Instances of Scanner for TLC.                                           *)
(***************************************************************************)
EXTENDS Scanner, TLC

CONSTANTS m1, m2, m3

ListedTwice == <<m1, m1>>

\* the addresses are interchangeable when no whitelist names them
Beacons == Permutations(Mac)

=============================================================================
