------------------------------ MODULE MapSpec ------------------------------
(***************************************************************************)
(* What a client of hashtable.c relies on: a finite map from keys to       *)
(* values.  result is what the last call returned.                         *)
(***************************************************************************)
EXTENDS Integers, FiniteSets

CONSTANTS Key, Value

VARIABLES map, result

vars == <<map, result>>

Init == map = [k \in {} |-> k] /\ result = <<"setup">>

Insert(k, v) ==
    /\ map' = [x \in DOMAIN map \cup {k} |-> IF x = k THEN v ELSE map[x]]
    /\ result' = IF k \in DOMAIN map THEN <<"updated">> ELSE <<"inserted">>

Contains(k) ==
    /\ result' = <<"contains", k \in DOMAIN map>>
    /\ UNCHANGED map

Lookup(k) ==
    /\ result' = IF k \in DOMAIN map THEN <<"value", map[k]>> ELSE <<"no value">>
    /\ UNCHANGED map

Erase(k) ==
    /\ map' = [x \in DOMAIN map \ {k} |-> map[x]]
    /\ result' = IF k \in DOMAIN map THEN <<"erased">> ELSE <<"not found">>

IsEmpty ==
    /\ result' = <<"is empty", map = [k \in {} |-> k]>>
    /\ UNCHANGED map

Reset == map' = [k \in {} |-> k] /\ UNCHANGED result

Next ==
    \/ \E k \in Key : Contains(k) \/ Lookup(k) \/ Erase(k)
    \/ \E k \in Key, v \in Value : Insert(k, v)
    \/ IsEmpty \/ Reset

Spec == Init /\ [][Next]_vars

=============================================================================
