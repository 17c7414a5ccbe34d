----------------------------- MODULE MCAlfredRx -----------------------------
EXTENDS AlfredRx, TLC

CONSTANTS near, far

Entry(m, r) == [mac |-> m, rssi |-> r]

\* Beacons 1 and 2: all entries there; one of them cut off in its middle; the only one
\* evicted; both beacons.
MCPacket ==
    {[count |-> 1, length |-> 26, entries |-> <<Entry(1, near)>>],
     [count |-> 2, length |-> 36, entries |-> <<Entry(1, far)>>],
     [count |-> 1, length |-> 2,  entries |-> <<>>],
     [count |-> 2, length |-> 50, entries |-> <<Entry(2, far), Entry(1, near)>>]}

MCRssi   == {near, far}
Symmetry == Permutations(Node)
=============================================================================
