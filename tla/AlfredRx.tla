------------------------------ MODULE AlfredRx ------------------------------
(***************************************************************************)
(* The alfred receiver (alfred_rx/src/client.cpp).  One execution asks the *)
(* alfred daemon for the packets of all scanners, gathers the readings by  *)
(* beacon, and adds an entry to the Redis stream of each beacon.  The      *)
(* program is executed again and again, one execution at a time.  Buffers  *)
(* are abstracted to the entries they hold, lengths are those of the code. *)
(***************************************************************************)
EXTENDS Integers, FiniteSets, SequencesExt

CONSTANTS
    Node, NoNode,   \* the scanners, by source address
    Mac, Rssi,
    Packet,         \* the packets [count, length, entries] of the scanners: the count
                    \* and the length they announce, and the entries the length holds
    HeaderSize, EntrySize,  \* bytes of the count and of bt_packed_data_t: 2, 24
    LengthBits,     \* width of curr_len, 32 in the code
    MaxEntries      \* bound: no execution when a stream has this many entries

ASSUME NodeAssumption == NoNode \notin Node
ASSUME SizeAssumption ==
    /\ HeaderSize \in Nat \ {0} /\ EntrySize \in Nat \ {0}
    /\ LengthBits \in Nat
ASSUME PacketAssumption ==
    /\ Packet \subseteq [count : Nat, length : Nat, entries : Seq([mac : Mac, rssi : Rssi])]
    /\ \A p \in Packet :
          /\ p.length < HeaderSize + EntrySize * (Len(p.entries) + 1)
          /\ p.entries # <<>> => p.length >= HeaderSize + EntrySize * Len(p.entries)

VARIABLES
    rx,         \* where the program stands
    reply,      \* the packets the daemon has yet to write, by node
    source, packet, num_vals, i, curr_len,
    data_map,   \* the readings gathered, in the order they came, by beacon
    streams,    \* the Redis stream of each beacon
    parsed,     \* history: the packets read to their end in this execution
    before      \* history: the streams when this execution began

loop_vars == <<source, packet, num_vals, i, curr_len>>
vars == <<rx, reply, loop_vars, data_map, streams, parsed, before>>

Nothing  == [m \in {} |-> m]
NoPacket == [count |-> 0, length |-> 0, entries |-> <<>>]

Init ==
    /\ rx = "idle"
    /\ reply = Nothing /\ data_map = Nothing /\ parsed = Nothing
    /\ source = NoNode /\ packet = NoPacket
    /\ num_vals = 0 /\ i = 0 /\ curr_len = 0
    /\ streams = [m \in Mac |-> <<>>]
    /\ before = streams

At(place) == rx = place
With(f, key, v) == [k \in DOMAIN f \cup {key} |-> IF k = key THEN v ELSE f[k]]
Without(f, key) == [k \in DOMAIN f \ {key} |-> f[k]]

\* connect and write the request; the daemon, which is not part of this
\* repository, answers with the packets it has of some of the nodes
Request ==
    /\ At("idle")
    /\ \A m \in Mac : Len(streams[m]) < MaxEntries
    /\ rx' = "read"
    /\ \E nodes \in SUBSET Node : reply' \in [nodes -> Packet]
    /\ before' = streams
    /\ UNCHANGED <<loop_vars, data_map, streams, parsed>>

\* The four reads of a packet: its type, its header with the source, the header
\* of the data and the data.
ReadPacket ==
    /\ At("read")
    /\ \E n \in DOMAIN reply :
          /\ source' = n
          /\ packet' = reply[n]
          /\ num_vals' = reply[n].count
          /\ reply' = Without(reply, n)
    /\ curr_len' = HeaderSize
    /\ i' = 0
    /\ rx' = "parse"
    /\ UNCHANGED <<data_map, streams, parsed, before>>

\* The end of the reply, or one of the reads is short: what was gathered is stored.
ReadEnds ==
    /\ At("read")
    /\ rx' = "store"
    /\ UNCHANGED <<reply, loop_vars, data_map, streams, parsed, before>>

\* the locals of an execution go with it
Exit ==
    /\ rx' = "idle"
    /\ reply' = Nothing /\ data_map' = Nothing /\ parsed' = Nothing
    /\ source' = NoNode /\ packet' = NoPacket
    /\ num_vals' = 0 /\ i' = 0 /\ curr_len' = 0
    /\ before' = streams
    /\ UNCHANGED streams

\* A status error returns at once: what was gathered is dropped.
ReadStatusError == At("read") /\ Exit

\* as the header announces it, also when it is too short for the count
data_len == packet.length

FitsAlways    == TRUE
FitsWithSpare == (data_len - curr_len) % 2^LengthBits > EntrySize
\* the difference is unsigned
Fits == (data_len - curr_len) % 2^LengthBits >= EntrySize

\* what memcpy finds at curr_len; past the data, an entry of an earlier packet
EntryThere ==
    LET n == (curr_len - HeaderSize) \div EntrySize + 1 IN
    IF n \in DOMAIN packet.entries THEN {packet.entries[n]} ELSE [mac : Mac, rssi : Rssi]

Stays(length)    == length
Advanced(length) == length + EntrySize

Gathered(m) == IF m \in DOMAIN data_map THEN data_map[m] ELSE <<>>

Pair(e)        == <<source, e.rssi>>
PairSwapped(e) == <<e.rssi, source>>
EmplacedSwapped(e) == With(data_map, e.mac, Append(Gathered(e.mac), PairSwapped(e)))
EmplacedOver(e)    == With(data_map, e.mac, <<Pair(e)>>)
Emplaced(e)        == With(data_map, e.mac, Append(Gathered(e.mac), Pair(e)))

ParseEntry ==
    /\ At("parse")
    /\ i < num_vals
    /\ Fits
    /\ \E e \in EntryThere : data_map' = Emplaced(e)
    /\ curr_len' = Advanced(curr_len)
    /\ i' = i + 1
    /\ UNCHANGED <<rx, reply, source, packet, num_vals, streams, parsed, before>>

\* the count is reached, or the data ends before it
ParseEnds ==
    /\ At("parse")
    /\ i >= num_vals \/ ~Fits
    /\ rx' = "read"
    /\ parsed' = With(parsed, source, packet)
    /\ UNCHANGED <<reply, loop_vars, data_map, streams, before>>

\* redis.xadd for each beacon, in the unspecified order of the hash map
Store ==
    /\ At("store")
    /\ \E m \in DOMAIN data_map :
          /\ streams' = [streams EXCEPT ![m] = Append(@, data_map[m])]
          /\ data_map' = Without(data_map, m)
    /\ UNCHANGED <<rx, reply, loop_vars, parsed, before>>

StoreDone   == At("store") /\ data_map = Nothing /\ Exit
\* xadd throws, which nothing catches: the beacons that are left are dropped
StoreThrows == At("store") /\ data_map # Nothing /\ Exit

Next ==
    \/ Request \/ ReadPacket \/ ReadEnds \/ ReadStatusError
    \/ ParseEntry \/ ParseEnds
    \/ Store \/ StoreDone \/ StoreThrows

Spec == Init /\ [][Next]_vars

-----------------------------------------------------------------------------
Reading == Node \X Rssi

\* Every variable keeps its type; the loop is at a packet while it parses.
TypeOK ==
    /\ rx \in {"idle", "read", "parse", "store"}
    /\ DOMAIN reply \subseteq Node /\ reply \in [DOMAIN reply -> Packet]
    /\ source \in Node \cup {NoNode}
    /\ packet \in Packet \cup {NoPacket}
    /\ num_vals \in Nat /\ i \in Nat /\ curr_len \in Nat
    /\ At("parse") => source \in Node /\ packet \in Packet
    /\ DOMAIN data_map \subseteq Mac
    /\ data_map \in [DOMAIN data_map -> Seq(Reading)]
    /\ streams \in [Mac -> Seq(Seq(Reading))]
    /\ before \in [Mac -> Seq(Seq(Reading))]
    /\ DOMAIN parsed \subseteq Node /\ parsed \in [DOMAIN parsed -> Packet]

\* Whether the length covers the count; when it does not, the difference of
\* client.cpp:174 is below zero and wraps.
LongEnough(p) == p.length >= HeaderSize

\* A scanner that evicts a beacon announces more entries than follow: the loop of
\* client.cpp:173 never reads past the data of a packet whose length covers its count.
ReadsInside == At("parse") /\ LongEnough(packet) => curr_len <= data_len

\* What the packets say of a beacon: a scanner that names it, and how it heard it.
SaidOf(m) ==
    UNION {{<<n, parsed[n].entries[a].rssi>> :
              a \in {b \in DOMAIN parsed[n].entries : parsed[n].entries[b].mac = m}} :
           n \in DOMAIN parsed}

OneEach(entry) == IsInjective([a \in DOMAIN entry |-> entry[a][1]])

\* When the packets are read, which is never past their data, the beacons they name
\* wait in data_map or have got exactly one entry, with all that the packets say of
\* them; and no other stream has changed.  However short the reply was, nothing is
\* stored in part or twice.
StoredWholeOnce ==
    /\ ReadsInside
    /\ At("store") =>
        \A m \in Mac :
            LET added == Gathered(m) IN
            \/ m \in DOMAIN data_map /\ streams[m] = before[m] /\ ToSet(added) = SaidOf(m)
            \/ /\ m \notin DOMAIN data_map /\ SaidOf(m) # {}
               /\ Len(streams[m]) = Len(before[m]) + 1
               /\ Front(streams[m]) = before[m]
               /\ ToSet(Last(streams[m])) = SaidOf(m)
            \/ m \notin DOMAIN data_map /\ SaidOf(m) = {} /\ streams[m] = before[m]

\* What the localisation counts on when it counts readings (main.rs:75): an
\* entry of a stream has one reading of each node.  It needs scanners that name a
\* beacon once in a packet, PacketSound of Scanner, in data long enough for the count.
OneReadingPerNode ==
    \A m \in Mac : \A e \in DOMAIN streams[m] : OneEach(streams[m][e])
=============================================================================
