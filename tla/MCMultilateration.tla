------------------------- MODULE MCMultilateration -------------------------
(***************************************************************************)
(* Nodes are placed around a beacon, at distances that the readings give   *)
(* exactly: 1 at -60 and 10 at -80.                                        *)
(***************************************************************************)
EXTENDS Multilateration

CONSTANTS MaxNodes  \* bound: how many nodes hear the beacon

VARIABLES beacon, coords, rssi
vars == <<beacon, coords, rssi>>

Offset == {<<1, 0>>, <<0, 1>>, <<-1, 0>>, <<10, 0>>, <<6, 8>>, <<0, -10>>}
Heard(o) == IF o[1] * o[1] + o[2] * o[2] = 1 THEN -60 ELSE -80

Init ==
    /\ beacon \in [x : {0, 3}, y : {0, 2}]
    /\ coords = <<>> /\ rssi = <<>>

\* another node hears the beacon
Hear(o) ==
    LET place == [x |-> beacon.x + o[1], y |-> beacon.y + o[2]] IN
    /\ Len(coords) < MaxNodes
    /\ \A k \in DOMAIN coords : coords[k] # place
    /\ coords' = Append(coords, place)
    /\ rssi' = Append(rssi, Heard(o))
    /\ UNCHANGED beacon

Next == \E o \in Offset : Hear(o)
Spec == Init /\ [][Next]_vars

d2 == [k \in DOMAIN rssi |-> Sq(rssi_to_distance(rssi[k], -60, 2))]

\* The linear equations of main.rs:161 have the position of the beacon as their
\* solution when all distances are exact.
PositionRecovered ==
    Len(coords) >= 3 /\ ~Singular(coords) => Solves(coords, d2, beacon)
=============================================================================
