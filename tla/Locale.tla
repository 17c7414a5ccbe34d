------------------------------- MODULE Locale -------------------------------
(***************************************************************************)
(* Locating one beacon (indoor_locale/src/main.rs) from the last entry of  *)
(* its Redis stream and the hash node_coords, while the receiver adds      *)
(* entries and the loader (coord_map/src/main.rs) replaces the hash.       *)
(* Every Redis command is a step of its own.                               *)
(***************************************************************************)
EXTENDS Integers, Sequences, FiniteSets

Solver == INSTANCE Multilateration

CONSTANTS
    Name,       \* the names of nodes, "node" and four digits
    File,       \* the contents of coords.txt: lines <<name, [x, y, z]>>, some shorter
    Entry,      \* the entries the receiver adds: sequences of <<name, rssi>>
    Fails,      \* whether a Redis command may fail
    Malformed   \* a field that parse refuses

\* Coordinates are whole numbers, as filter_floor parses them, or no three numbers at
\* all; what follows them in a line is not used.  The receiver writes the eight bytes of
\* a reading as a number, which may be none of the four bytes parsed here.
Point   == [x : Int, y : Int, z : Int]
Value   == Point \cup {Malformed}
Reading == Int \cup {Malformed}
Line    == (Name \X Value) \cup {<<n>> : n \in Name} \cup {<<>>}

ASSUME FileAssumption == File \subseteq Seq(Line)
ASSUME EntryAssumption == Entry \subseteq Seq(Name \X Reading)
ASSUME FailsAssumption == Fails \in BOOLEAN
ASSUME MalformedAssumption == Malformed \notin Point \cup Int

VARIABLES
    stream,         \* the last entry of the stream, empty if there is none
    node_coords,    \* the hash, a function of the names it has
    loader, content, line,
    locale,         \* where the localisation stands, or how it ended
    raw_data, node_floors, clean_data, coords,
    coords_then,    \* history: node_coords when the localisation began
    reloaded        \* history: the loader ran meanwhile

loader_vars == <<node_coords, loader, content, line>>
data_vars   == <<raw_data, node_floors, clean_data, coords>>
vars == <<stream, loader_vars, locale, data_vars, coords_then, reloaded>>

Empty  == [n \in {} |-> n]
cutoff == -99

Init ==
    /\ stream = <<>>
    /\ node_coords = Empty
    /\ loader = "idle" /\ content = <<>> /\ line = 1
    /\ locale = "idle"
    /\ raw_data = <<>> /\ node_floors = <<>> /\ clean_data = <<>> /\ coords = <<>>
    /\ coords_then = Empty /\ reloaded = FALSE

Asking  == {"floors", "coords"}
Errors  == {"MACNotFound", "LackOfRSSIData", "RSSINotInRange"}
\* a panic of a command that failed is told from the others
Ended   == Errors \cup {"located", "panicked", "unanswered"}

\* XADD of the receiver, see AlfredRx
Xadd ==
    /\ stream' \in Entry
    /\ UNCHANGED <<loader_vars, locale, data_vars, coords_then, reloaded>>

(***************************************************************************)
(* The loader: DEL, then HSET line by line.                                *)
(***************************************************************************)
NotDeleted == node_coords
Deleted    == Empty

LoadDel ==
    /\ loader = "idle"
    /\ loader' = "load"
    /\ content' \in File
    /\ line' = 1
    /\ node_coords' = Deleted
    /\ reloaded' = (reloaded \/ locale \in Asking)
    /\ UNCHANGED <<stream, locale, data_vars, coords_then>>

HSet(hash, fields) ==
    IF Len(fields) >= 2
    THEN [n \in DOMAIN hash \cup {fields[1]} |->
            IF n = fields[1] THEN fields[2] ELSE hash[n]]
    ELSE hash

LoadLine ==
    /\ loader = "load"
    /\ line <= Len(content)
    /\ node_coords' = HSet(node_coords, content[line])
    /\ line' = line + 1
    /\ reloaded' = (reloaded \/ locale \in Asking)
    /\ UNCHANGED <<stream, loader, content, locale, data_vars, coords_then>>

\* the end of the file, or a command fails and the loader panics
LoadEnds ==
    /\ loader = "load"
    /\ line > Len(content) \/ Fails
    /\ loader' = "idle"
    /\ UNCHANGED <<stream, node_coords, content, line, locale, data_vars, coords_then,
                   reloaded>>

(***************************************************************************)
(* The localisation.                                                       *)
(***************************************************************************)
\* the connection, get_data and the first check of qualify_data
GetData ==
    /\ locale = "idle"
    /\ \/ /\ raw_data' = stream
          /\ locale' = CASE stream = <<>> -> "MACNotFound"
                         [] stream # <<>> /\ Len(stream) < 3 -> "LackOfRSSIData"
                         [] OTHER -> "floors"
       \/ Fails /\ locale' = "unanswered" /\ UNCHANGED raw_data
    /\ coords_then' = node_coords
    /\ reloaded' = FALSE
    /\ UNCHANGED <<stream, loader_vars, node_floors, clean_data, coords>>

LastReading(data, done) == data[Len(data) - Len(done)]
NextReading(data, done) == data[Len(done) + 1]

Readable(hash, name) == name \in DOMAIN hash /\ hash[name] # Malformed

\* HGET of filter_floor; the unwrap of a missing name and that of a parse panic
HGetFloor ==
    /\ locale = "floors"
    /\ Len(node_floors) < Len(raw_data)
    /\ LET name == NextReading(raw_data, node_floors)[1] IN
       \/ /\ Readable(node_coords, name)
          /\ node_floors' = Append(node_floors, <<node_coords[name].z, name>>)
          /\ UNCHANGED locale
       \/ /\ ~Readable(node_coords, name)
          /\ locale' = "panicked"
          /\ UNCHANGED node_floors
       \/ Fails /\ locale' = "unanswered" /\ UNCHANGED node_floors
    /\ UNCHANGED <<stream, loader_vars, raw_data, clean_data, coords, coords_then, reloaded>>

Tally(floor) == Cardinality({k \in DOMAIN node_floors : node_floors[k][1] = floor})

\* the first floor in the order of the array, not the last after sorting
FirstFloor ==
    CHOOSE f \in 2 .. 4 : \A g \in 2 .. 4 : Tally(f) > Tally(g) \/ (Tally(f) = Tally(g) /\ f <= g)
\* the last of the sorted pairs of count and floor
CommonFloor ==
    CHOOSE f \in 2 .. 4 : \A g \in 2 .. 4 : Tally(f) > Tally(g) \/ (Tally(f) = Tally(g) /\ f >= g)

OnAnyFloor(node) == TRUE
OnCommonFloor(node) ==
    \A k \in DOMAIN node_floors :
        node_floors[k][2] = node[1] => node_floors[k][1] = CommonFloor
AboveCutoff(node) == node[2] > cutoff

Garbled(data) == \E k \in DOMAIN data : OnCommonFloor(data[k]) /\ data[k][2] = Malformed

\* the readings that pass both filters, in order
Kept(data) ==
    LET kept[k \in 0 .. Len(data)] ==
            IF k = 0 THEN <<>>
            ELSE IF OnCommonFloor(data[k]) /\ AboveCutoff(data[k])
                 THEN Append(kept[k - 1], data[k])
            ELSE kept[k - 1]
    IN kept[Len(data)]

\* the rest of filter_floor and of qualify_data; the unwrap of a parse panics
Qualify ==
    /\ locale = "floors"
    /\ Len(node_floors) = Len(raw_data)
    /\ IF Garbled(raw_data)
       THEN locale' = "panicked" /\ UNCHANGED clean_data
       ELSE /\ clean_data' = Kept(raw_data)
            /\ locale' = IF Len(clean_data') < 3 THEN "RSSINotInRange" ELSE "coords"
    /\ UNCHANGED <<stream, loader_vars, raw_data, node_floors, coords, coords_then, reloaded>>

\* HGET of multilateration
HGetCoord ==
    /\ locale = "coords"
    /\ Len(coords) < Len(clean_data)
    /\ LET name == NextReading(clean_data, coords)[1] IN
       \/ /\ Readable(node_coords, name)
          /\ coords' = Append(coords, node_coords[name])
          /\ UNCHANGED locale
       \/ /\ ~Readable(node_coords, name)
          /\ locale' = "panicked"
          /\ UNCHANGED coords
       \/ Fails /\ locale' = "unanswered" /\ UNCHANGED coords
    /\ UNCHANGED <<stream, loader_vars, raw_data, node_floors, clean_data, coords_then, reloaded>>

\* the unwrap of try_inverse panics; the solution is the matter of Multilateration
Solve ==
    /\ locale = "coords"
    /\ Len(coords) = Len(clean_data)
    /\ locale' = IF Solver!Singular(coords) THEN "panicked" ELSE "located"
    /\ UNCHANGED <<stream, loader_vars, data_vars, coords_then, reloaded>>

\* the process ends, and is started again
Return ==
    /\ locale \in Ended
    /\ locale' = "idle"
    /\ raw_data' = <<>> /\ node_floors' = <<>> /\ clean_data' = <<>> /\ coords' = <<>>
    /\ coords_then' = Empty /\ reloaded' = FALSE
    /\ UNCHANGED <<stream, loader_vars>>

LocaleNext == GetData \/ HGetFloor \/ Qualify \/ HGetCoord \/ Solve \/ Return
Next == Xadd \/ LoadDel \/ LoadLine \/ LoadEnds \/ LocaleNext

Spec == Init /\ [][Next]_vars

-----------------------------------------------------------------------------
\* Every variable keeps its type; data are read in the order of the entry.
TypeOK ==
    /\ stream \in Entry \cup {<<>>} /\ raw_data \in Entry \cup {<<>>}
    /\ loader \in {"idle", "load"} /\ content \in File \cup {<<>>}
    /\ line \in 1 .. Len(content) + 1
    /\ locale \in {"idle"} \cup Asking \cup Ended
    /\ Len(node_floors) <= Len(raw_data) /\ Len(coords) <= Len(clean_data)
    /\ \A k \in DOMAIN node_floors : node_floors[k][2] = raw_data[k][1]
    /\ reloaded \in BOOLEAN

\* What was asked of the hash so far is what it holds, also when the loader dies in
\* the middle or the file lost a node since it was loaded last.
HashIsFile ==
    LET asked == {k \in 1 .. line - 1 : Len(content[k]) >= 2} IN
    /\ DOMAIN node_coords = {content[k][1] : k \in asked}
    /\ \A k \in asked :
          (\A l \in asked : content[l][1] = content[k][1] => l <= k)
             => node_coords[content[k][1]] = content[k][2]

\* The nodes of an entry on a floor, and those of them that are heard well.
NodesOn(hash, entry, floor) == {k \in DOMAIN entry : hash[entry[k][1]].z = floor}
HeardOn(hash, entry, floor) == {k \in NodesOn(hash, entry, floor) : entry[k][2] > cutoff}

Collinear(P) ==
    \A p, q, r \in P : (q.x - p.x) * (r.y - p.y) = (q.y - p.y) * (r.x - p.x)

\* Of the floors 2 to 4, a node on another one counting for none.
Best(hash, entry) ==
    CHOOSE f \in 2 .. 4 :
        \A g \in (2 .. 4) \ {f} :
            LET here  == Cardinality(NodesOn(hash, entry, f))
                there == Cardinality(NodesOn(hash, entry, g))
            IN  here > there \/ (here = there /\ f > g)

Known(hash, entry) == \A k \in DOMAIN entry : Readable(hash, entry[k][1])

Verdict(hash, entry) ==
    CASE Len(entry) = 0 -> "MACNotFound"
      [] Len(entry) \in 1 .. 2 -> "LackOfRSSIData"
      [] Len(entry) > 2 /\ ~Known(hash, entry) -> "panicked"
      [] OTHER ->
           LET floor == Best(hash, entry)
               heard == HeardOn(hash, entry, floor)
           IN
           IF \E k \in NodesOn(hash, entry, floor) : entry[k][2] = Malformed
           THEN "panicked"
           ELSE IF Cardinality(heard) < 3 THEN "RSSINotInRange"
           ELSE IF Collinear({hash[entry[k][1]] : k \in heard}) THEN "panicked"
           ELSE "located"

\* When every Redis command is answered and the loader did not run meanwhile, the
\* localisation ends as the comments of main.rs:23-28 have it, by the floor where most
\* nodes heard the beacon, and it panics only for a node that has no coordinates, for
\* coordinates or a reading on that floor that do not parse, or for nodes in one line.
EndsAsSpecified ==
    locale \in Ended \ {"unanswered"} /\ ~reloaded
        => locale = Verdict(coords_then, raw_data)

\* Whatever the loader does meanwhile, a position rests on three readings above the
\* cutoff, of nodes that were on one floor and that span the plane: they are three
\* nodes, also when some share their name, unless the loader moved one meanwhile.
RestsOnThree ==
    locale = "located" =>
        /\ Len(clean_data) >= 3
        /\ ~reloaded => Cardinality({clean_data[k][1] : k \in DOMAIN clean_data}) >= 3
        /\ \A k \in DOMAIN clean_data : clean_data[k][2] > cutoff
        /\ \E floor \in 2 .. 4 : \A k \in DOMAIN clean_data :
              \E n \in DOMAIN node_floors : node_floors[n] = <<floor, clean_data[k][1]>>
        /\ ~Collinear({coords[k] : k \in DOMAIN coords})
=============================================================================
