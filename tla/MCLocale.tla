------------------------------ MODULE MCLocale ------------------------------
EXTENDS Locale

At(x, y, z) == [x |-> x, y |-> y, z |-> z]

\* Three nodes on each of two floors, one on a floor that is not counted; then node 3
\* moves to another floor and the last node is gone, the coordinates of
\* node 5 do not parse and the file ends with an empty line.
MCFile ==
    {<< <<1, At(0, 0, 3)>>, <<2, At(1, 1, 3)>>, <<3, At(1, 0, 3)>>, <<7, At(0, 0, 1)>>,
        <<4, At(0, 0, 4)>>, <<5, At(1, 1, 4)>>, <<6, At(2, 2, 4)>> >>,
     << <<1, At(0, 0, 3)>>, <<2, At(1, 1, 3)>>, <<3, At(1, 0, 4)>>,
        <<4, At(0, 0, 4)>>, <<5, Malformed>>, <<>> >>}

Heard(nodes, rssi) == [k \in 1 .. Len(nodes) |-> <<nodes[k], rssi>>]

\* Too few; one floor; three in a line; as many on both floors; one at the cutoff; a
\* floor that is not counted; two nodes whose addresses share the four digits of
\* their names; a reading that does not parse, on the floor that is kept and on another.
MCEntry ==
    {Heard(<<1, 2>>, -60), Heard(<<1, 2, 3>>, -60), Heard(<<4, 5, 6>>, -60),
     Heard(<<1, 2, 3, 4, 5, 6>>, -80), Heard(<<3, 1>>, -60) \o Heard(<<2>>, -99),
     Heard(<<1, 2, 7>>, -60), Heard(<<3, 4, 5>>, -80),
     Heard(<<1, 1, 2>>, -60), Heard(<<1, 1, 2, 3>>, -60),
     Heard(<<1, 2, 3>>, -60) \o Heard(<<3>>, Malformed),
     Heard(<<1, 2, 3>>, -60) \o Heard(<<4>>, Malformed)}
=============================================================================
