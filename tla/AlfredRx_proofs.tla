--------------------------- MODULE AlfredRx_proofs ---------------------------
(***************************************************************************)
(* Theorems about AlfredRx, for any scanners, beacons and readings: its    *)
(* types, that a beacon's readings are stored whole and once, and that an  *)
(* entry of a stream has one reading of each scanner.                      *)
(***************************************************************************)
EXTENDS AlfredRx, SequenceTheorems, FiniteSetTheorems, TLAPS

-----------------------------------------------------------------------------
\* The inductive invariants.

\* The loop stands at entry i + 1 of a packet whose scanner has been taken from the
\* reply and is not parsed yet; nothing is left of an execution before.
LoopInv ==
    /\ DOMAIN reply \cap DOMAIN parsed = {}
    /\ At("idle") => parsed = Nothing /\ data_map = Nothing
    /\ At("parse") =>
         /\ LongEnough(packet) => i <= Len(packet.entries)
         /\ curr_len = HeaderSize + EntrySize * i
         /\ num_vals = packet.count
         /\ source \notin DOMAIN parsed \cup DOMAIN reply

\* What the packet in the loop has said of a beacon so far.
SaidSoFar(m) ==
    {<<source, packet.entries[a].rssi>> : a \in {b \in 1 .. i : packet.entries[b].mac = m}}

\* What is gathered is what the packets said, the one in the loop included; while
\* it is stored, every beacon waits or has got its entry.
StoredOnce(m) ==
    LET added == Gathered(m) IN
    \/ m \in DOMAIN data_map /\ streams[m] = before[m] /\ ToSet(added) = SaidOf(m)
    \/ /\ m \notin DOMAIN data_map /\ SaidOf(m) # {}
       /\ Len(streams[m]) = Len(before[m]) + 1
       /\ Front(streams[m]) = before[m]
       /\ ToSet(Last(streams[m])) = SaidOf(m)
    \/ m \notin DOMAIN data_map /\ SaidOf(m) = {} /\ streams[m] = before[m]

GatherInv ==
    /\ rx # "store" => streams = before
    /\ \A m \in DOMAIN data_map : data_map[m] # <<>>
    /\ At("read") => \A m \in Mac : ToSet(Gathered(m)) = SaidOf(m)
    /\ At("parse") => \A m \in Mac : ToSet(Gathered(m)) = SaidOf(m) \cup SaidSoFar(m)
    /\ At("store") => \A m \in Mac : StoredOnce(m)

\* A reading of a beacon names a scanner that is parsed, or the one in the loop if
\* its packet has named the beacon; so no scanner has two.
EachInv ==
    /\ rx \in {"read", "parse"} =>
         \A m \in DOMAIN data_map : \A a \in DOMAIN data_map[m] :
            LET n == data_map[m][a][1] IN
            \/ n \in DOMAIN parsed
            \/ /\ At("parse") /\ n = source
               /\ \E b \in 1 .. i : packet.entries[b].mac = m
    /\ \A m \in DOMAIN data_map : OneEach(data_map[m])
    /\ OneReadingPerNode

-----------------------------------------------------------------------------
\* Facts about the operators.

\* A packet has a count and entries that name a beacon and a strength.
LEMMA PacketParts ==
    ASSUME NEW p \in Packet \cup {NoPacket}
    PROVE  /\ p.count \in Nat /\ p.length \in Nat
           /\ p.entries \in Seq([mac : Mac, rssi : Rssi])
           /\ Len(p.entries) \in Nat /\ DOMAIN p.entries = 1 .. Len(p.entries)
           /\ \A a \in 1 .. Len(p.entries) :
                 p.entries[a].mac \in Mac /\ p.entries[a].rssi \in Rssi
<1>1. p.count \in Nat /\ p.length \in Nat /\ p.entries \in Seq([mac : Mac, rssi : Rssi])
    <2>1. CASE p \in Packet
        BY <2>1, PacketAssumption
    <2>2. CASE p = NoPacket
        BY <2>2, EmptySeq DEF NoPacket
    <2> QED
        BY <2>1, <2>2
<1>2. \A a \in 1 .. Len(p.entries) : p.entries[a] \in [mac : Mac, rssi : Rssi]
    BY <1>1, ElementOfSeq
<1> QED
    BY <1>1, <1>2, LenProperties

\* Appending adds one element to those a sequence has.
LEMMA AppendParts ==
    ASSUME NEW S, NEW s \in Seq(S), NEW x \in S
    PROVE  /\ Append(s, x) \in Seq(S)
           /\ Len(s) \in Nat
           /\ Len(Append(s, x)) = Len(s) + 1
           /\ DOMAIN s = 1 .. Len(s) /\ DOMAIN Append(s, x) = 1 .. Len(s) + 1
           /\ \A a \in 1 .. Len(s) : Append(s, x)[a] = s[a]
           /\ Append(s, x)[Len(s) + 1] = x
           /\ ToSet(Append(s, x)) = ToSet(s) \cup {x}
<1>1. /\ Append(s, x) \in Seq(S)
      /\ Len(s) \in Nat
      /\ Len(Append(s, x)) = Len(s) + 1
      /\ DOMAIN s = 1 .. Len(s) /\ DOMAIN Append(s, x) = 1 .. Len(s) + 1
      /\ \A a \in 1 .. Len(s) : Append(s, x)[a] = s[a]
      /\ Append(s, x)[Len(s) + 1] = x
    BY AppendProperties, LenProperties
<1>2. ToSet(Append(s, x)) = ToSet(s) \cup {x}
    <2>1. ToSet(Append(s, x)) = {Append(s, x)[a] : a \in 1 .. Len(s) + 1}
        BY <1>1 DEF ToSet
    <2>2. ToSet(s) = {s[a] : a \in 1 .. Len(s)}
        BY <1>1 DEF ToSet
    <2>3. 1 .. Len(s) + 1 = (1 .. Len(s)) \cup {Len(s) + 1}
        BY <1>1
    <2> QED
        BY <1>1, <2>1, <2>2, <2>3
<1> QED
    BY <1>1, <1>2

\* The width of the counters.
LEMMA ModulusPositive == 2^LengthBits \in Nat \ {0}
<1>1. IsFiniteSet(1 .. LengthBits) /\ Cardinality(1 .. LengthBits) = LengthBits
    BY FS_Interval, SizeAssumption
<1>2. /\ Cardinality(SUBSET (1 .. LengthBits)) = 2^LengthBits
      /\ IsFiniteSet(SUBSET (1 .. LengthBits))
    BY <1>1, FS_SUBSET
<1>3. SUBSET (1 .. LengthBits) # {}
    OBVIOUS
<1> QED
    BY <1>2, <1>3, FS_CardinalityType, FS_EmptySet

\* What is gathered of a beacon is a sequence of readings.
LEMMA GatheredTyped ==
    ASSUME TypeOK, NEW m
    PROVE  Gathered(m) \in Seq(Reading)
    BY EmptySeq DEF TypeOK, Gathered

-----------------------------------------------------------------------------
(***************************************************************************)
(* Type correctness.                                                       *)
(***************************************************************************)
\* An entry that memcpy finds names a beacon, also where the data has ended.
LEMMA EntryTyped ==
    ASSUME TypeOK, NEW e \in EntryThere
    PROVE  e \in [mac : Mac, rssi : Rssi]
<1>1. packet.entries \in Seq([mac : Mac, rssi : Rssi])
    BY PacketParts DEF TypeOK
<1> DEFINE n == (curr_len - HeaderSize) \div EntrySize + 1
<1>2. CASE n \in DOMAIN packet.entries
    <2>1. packet.entries[n] \in [mac : Mac, rssi : Rssi]
        BY <1>1, <1>2, ElementOfSeq, LenProperties
    <2> QED
        BY <1>2, <2>1 DEF EntryThere
<1>3. CASE n \notin DOMAIN packet.entries
    BY <1>3 DEF EntryThere
<1> QED
    BY <1>2, <1>3

LEMMA TypeInit == Init => TypeOK
<1> SUFFICES ASSUME Init PROVE TypeOK
    OBVIOUS
<1>1. streams = [m \in Mac |-> <<>>] /\ before = streams
    BY DEF Init
<1>2. <<>> \in Seq(Seq(Reading))
    BY EmptySeq
<1>3. streams \in [Mac -> Seq(Seq(Reading))] /\ before \in [Mac -> Seq(Seq(Reading))]
    BY <1>1, <1>2
<1> QED
    BY <1>3 DEF Init, TypeOK, Nothing, At

LEMMA TypeStep == TypeOK /\ [Next]_vars => TypeOK'
<1> SUFFICES ASSUME TypeOK, [Next]_vars PROVE TypeOK'
    OBVIOUS
<1>1. CASE Request
    BY <1>1 DEF Request, TypeOK, At, loop_vars
<1>2. CASE ReadPacket
    <2>1. PICK n \in DOMAIN reply :
              /\ source' = n /\ packet' = reply[n] /\ num_vals' = reply[n].count
              /\ reply' = Without(reply, n)
        BY <1>2 DEF ReadPacket
    <2>2. n \in Node /\ reply[n] \in Packet /\ reply[n].count \in Nat
        BY PacketParts DEF TypeOK
    <2>3. DOMAIN reply' \subseteq Node /\ reply' \in [DOMAIN reply' -> Packet]
        BY <2>1 DEF TypeOK, Without
    <2> QED
        BY <1>2, <2>1, <2>2, <2>3, SizeAssumption DEF ReadPacket, TypeOK, At
<1>3. CASE ReadEnds
    BY <1>3 DEF ReadEnds, TypeOK, At, loop_vars
<1>4. CASE Exit
    BY <1>4 DEF Exit, TypeOK, At, Nothing
<1>5. CASE ParseEntry
    <2>1. PICK e \in EntryThere : data_map' = Emplaced(e)
        BY <1>5 DEF ParseEntry
    <2>2. e \in [mac : Mac, rssi : Rssi]
        BY EntryTyped
    <2>3. source \in Node /\ Pair(e) \in Reading
        BY <1>5, <2>2 DEF ParseEntry, TypeOK, Pair, Reading
    <2>4. Append(Gathered(e.mac), Pair(e)) \in Seq(Reading)
        BY <2>3, GatheredTyped, AppendParts
    <2>5. /\ DOMAIN data_map' \subseteq Mac
          /\ data_map' \in [DOMAIN data_map' -> Seq(Reading)]
        BY <2>1, <2>2, <2>4 DEF TypeOK, Emplaced, With
    <2>6. i' \in Nat /\ curr_len' \in Nat
        BY <1>5, SizeAssumption DEF ParseEntry, TypeOK, Advanced
    <2> QED
        BY <1>5, <2>5, <2>6 DEF ParseEntry, TypeOK, At
<1>6. CASE ParseEnds
    <2>1. source \in Node /\ packet \in Packet
        BY <1>6 DEF ParseEnds, TypeOK
    <2>2. DOMAIN parsed' \subseteq Node /\ parsed' \in [DOMAIN parsed' -> Packet]
        BY <1>6, <2>1 DEF ParseEnds, TypeOK, With
    <2> QED
        BY <1>6, <2>2 DEF ParseEnds, TypeOK, At, loop_vars
<1>7. CASE Store
    <2>1. PICK m \in DOMAIN data_map :
              /\ streams' = [streams EXCEPT ![m] = Append(@, data_map[m])]
              /\ data_map' = Without(data_map, m)
        BY <1>7 DEF Store
    <2>2. m \in Mac /\ data_map[m] \in Seq(Reading) /\ streams[m] \in Seq(Seq(Reading))
        BY DEF TypeOK
    <2>3. Append(streams[m], data_map[m]) \in Seq(Seq(Reading))
        BY <2>2, AppendParts
    <2>4. streams' \in [Mac -> Seq(Seq(Reading))]
        BY <2>1, <2>2, <2>3 DEF TypeOK
    <2>5. /\ DOMAIN data_map' \subseteq Mac
          /\ data_map' \in [DOMAIN data_map' -> Seq(Reading)]
        BY <2>1 DEF TypeOK, Without
    <2> QED
        BY <1>7, <2>4, <2>5 DEF Store, TypeOK, At, loop_vars
<1>8. CASE UNCHANGED vars
    BY <1>8 DEF vars, TypeOK, At, loop_vars
<1> QED
    BY <1>1, <1>2, <1>3, <1>4, <1>5, <1>6, <1>7, <1>8
    DEF Next, ReadStatusError, StoreDone, StoreThrows

\* TypeOK for any scanners, beacons and packets.
THEOREM TypeCorrect == Spec => []TypeOK
    BY TypeInit, TypeStep, PTL DEF Spec

-----------------------------------------------------------------------------
(***************************************************************************)
(* The loop over a packet.                                                 *)
(***************************************************************************)
\* How many bytes of the data are left, at entry i + 1.
LEMMA LeftOver ==
    ASSUME TypeOK, LoopInv, At("parse"), LongEnough(packet)
    PROVE  /\ Len(packet.entries) \in Nat /\ i \in 0 .. Len(packet.entries)
           /\ data_len - curr_len \in Nat
           /\ i < Len(packet.entries) => data_len - curr_len >= EntrySize
           /\ i = Len(packet.entries) => data_len - curr_len < EntrySize
<1> DEFINE l == Len(packet.entries)
           len == packet.length
<1>1. packet \in Packet /\ l \in Nat /\ len \in Nat /\ i \in Nat /\ i <= l
    BY PacketParts DEF TypeOK, LoopInv
<1>2. HeaderSize \in Nat /\ EntrySize \in Nat /\ EntrySize > 0
    BY SizeAssumption
<1>3. len >= HeaderSize + EntrySize * l /\ len < HeaderSize + EntrySize * (l + 1)
    <2>1. len < HeaderSize + EntrySize * (l + 1)
        BY <1>1, PacketAssumption
    <2>2. CASE packet.entries = <<>>
        <3>1. l = 0 /\ len >= HeaderSize
            BY <2>2 DEF LongEnough
        <3> HIDE DEF l, len
        <3> QED
            BY <1>1, <1>2, <2>1, <3>1
    <2>3. CASE packet.entries # <<>>
        BY <1>1, <2>1, <2>3, PacketAssumption
    <2> QED
        BY <2>2, <2>3
<1>4. data_len = len /\ curr_len = HeaderSize + EntrySize * i
    BY DEF data_len, LoopInv
<1> HIDE DEF l, len
<1>5. /\ EntrySize * l \in Nat /\ EntrySize * i \in Nat
      /\ EntrySize * (l + 1) = EntrySize * l + EntrySize
    BY <1>1, <1>2
<1>6. EntrySize * i <= EntrySize * l
    <2>1. EntrySize * (l - i) \in Nat /\ EntrySize * (l - i) = EntrySize * l - EntrySize * i
        BY <1>1, <1>2
    <2> QED
        BY <1>5, <2>1
<1>7. i < l => EntrySize * i + EntrySize <= EntrySize * l
    <2> SUFFICES ASSUME i < l PROVE EntrySize * i + EntrySize <= EntrySize * l
        OBVIOUS
    <2>1. l - i - 1 \in Nat
        BY <1>1
    <2>2. EntrySize * (l - i - 1) \in Nat
        BY <1>2, <2>1
    <2>3. EntrySize * (l - i - 1) = EntrySize * l - EntrySize * i - EntrySize
        BY <1>1, <1>2
    <2> DEFINE a == EntrySize * l
               b == EntrySize * i
               c == EntrySize * (l - i - 1)
    <2>4. a \in Nat /\ b \in Nat /\ c \in Nat /\ c = a - b - EntrySize
        BY <1>5, <2>2, <2>3
    <2> HIDE DEF a, b, c
    <2>5. b + EntrySize <= a
        BY <1>2, <2>4
    <2> QED
        BY <2>5 DEF a, b
<1>8. data_len - curr_len \in Nat
    BY <1>1, <1>2, <1>3, <1>4, <1>5, <1>6
<1>9. i < l => data_len - curr_len >= EntrySize
    BY <1>1, <1>2, <1>3, <1>4, <1>5, <1>7
<1>10. i = l => data_len - curr_len < EntrySize
    BY <1>1, <1>2, <1>3, <1>4, <1>5
<1>11. l \in Nat /\ i \in 0 .. l
    BY <1>1
<1> QED
    BY <1>8, <1>9, <1>10, <1>11 DEF l

\* An entry that fits is there, whatever the count says.
LEMMA FitsInside ==
    ASSUME TypeOK, LoopInv, At("parse"), LongEnough(packet), Fits
    PROVE  /\ i + 1 \in 1 .. Len(packet.entries)
           /\ EntryThere = {packet.entries[i + 1]}
<1>1. i # Len(packet.entries)
    <2> SUFFICES ASSUME i = Len(packet.entries) PROVE FALSE
        OBVIOUS
    <2> DEFINE d == data_len - curr_len
               M == 2^LengthBits
    <2>1. d \in Nat /\ d < EntrySize /\ d % M >= EntrySize /\ EntrySize \in Nat
        BY LeftOver, SizeAssumption DEF Fits
    <2>2. M \in Nat \ {0}
        BY ModulusPositive
    <2> HIDE DEF d, M
    <2>3. d % M \in Nat /\ d % M <= d
        BY <2>1, <2>2
    <2> QED
        BY <2>1, <2>3
<1>2. i + 1 \in 1 .. Len(packet.entries)
    BY <1>1, LeftOver
<1>3. (curr_len - HeaderSize) \div EntrySize + 1 = i + 1
    <2>1. curr_len = HeaderSize + EntrySize * i /\ i \in Nat
        BY DEF LoopInv, TypeOK
    <2>2. HeaderSize \in Nat /\ EntrySize \in Nat \ {0}
        BY SizeAssumption
    <2>3. curr_len - HeaderSize = EntrySize * i
        BY <2>1, <2>2
    <2>4. (EntrySize * i) \div EntrySize = i
        BY <2>1, <2>2
    <2> QED
        BY <2>3, <2>4
<1>4. i + 1 \in DOMAIN packet.entries
    BY <1>2, PacketParts DEF TypeOK
<1> QED
    BY <1>2, <1>3, <1>4 DEF EntryThere

LEMMA LoopStep == TypeOK /\ LoopInv /\ [Next]_vars => LoopInv'
<1> SUFFICES ASSUME TypeOK, LoopInv, [Next]_vars PROVE LoopInv'
    OBVIOUS
<1>1. CASE Request
    <2>1. parsed' = Nothing /\ rx' = "read"
        BY <1>1 DEF Request, LoopInv
    <2> QED
        BY <2>1 DEF LoopInv, At, Nothing
<1>2. CASE ReadPacket
    BY <1>2, SizeAssumption DEF ReadPacket, LoopInv, At, Without
<1>3. CASE ReadEnds
    BY <1>3 DEF ReadEnds, LoopInv, At
<1>4. CASE Exit
    BY <1>4 DEF Exit, LoopInv, At, Nothing
<1>5. CASE ParseEntry
    <2>1. At("parse") /\ i' = i + 1 /\ curr_len' = curr_len + EntrySize
        BY <1>5 DEF ParseEntry, Advanced
    <2>2. LongEnough(packet) => i + 1 \in 1 .. Len(packet.entries)
        BY <1>5, <2>1, FitsInside DEF ParseEntry
    <2>3. HeaderSize + EntrySize * i + EntrySize = HeaderSize + EntrySize * (i + 1)
        BY SizeAssumption DEF TypeOK
    <2>4. curr_len' = HeaderSize + EntrySize * i'
        BY <2>1, <2>3 DEF LoopInv
    <2>5. LongEnough(packet) => i' <= Len(packet.entries)
        BY <2>1, <2>2
    <2> QED
        BY <1>5, <2>1, <2>4, <2>5 DEF ParseEntry, LoopInv, At, LongEnough
<1>6. CASE ParseEnds
    BY <1>6 DEF ParseEnds, LoopInv, At, With, loop_vars
<1>7. CASE Store
    BY <1>7 DEF Store, LoopInv, At, loop_vars
<1>8. CASE UNCHANGED vars
    BY <1>8 DEF vars, LoopInv, At, loop_vars
<1> QED
    BY <1>1, <1>2, <1>3, <1>4, <1>5, <1>6, <1>7, <1>8
    DEF Next, ReadStatusError, StoreDone, StoreThrows

LEMMA LoopInit == Init => LoopInv
    BY DEF Init, LoopInv, At, Nothing

LEMMA LoopKept == Spec => [](TypeOK /\ LoopInv)
    BY TypeInit, TypeStep, LoopInit, LoopStep, PTL DEF Spec

\* The loop does not go past the data of a packet that is long enough.
LEMMA EndInside ==
    ASSUME TypeOK, LoopInv
    PROVE  ReadsInside
<1> SUFFICES ASSUME At("parse"), LongEnough(packet) PROVE curr_len <= data_len
    BY DEF ReadsInside
<1>1. data_len \in Int /\ curr_len \in Int
    BY PacketParts DEF data_len, TypeOK
<1>2. data_len - curr_len \in Nat
    BY LeftOver
<1> QED
    BY <1>1, <1>2

-----------------------------------------------------------------------------
(***************************************************************************)
(* A beacon's readings are stored whole and once.                          *)
(***************************************************************************)
\* A scanner announces what it tracks and sends the entries of those that it has not
\* evicted in the turn: never more entries than it announces.
Counted == \A p \in Packet : Len(p.entries) <= p.count

\* The length of the data is a 16-bit field of the header, curr_len has 32 bits.
LengthsFit == \A p \in Packet : p.length < 2^LengthBits

\* The data begin with the count, as a scanner packs them.
LengthsCover == \A p \in Packet : LongEnough(p)

\* The loop ends after the last entry.
LEMMA ReadWhole ==
    ASSUME Counted, LengthsFit, LengthsCover, TypeOK, LoopInv, At("parse"), i >= num_vals \/ ~Fits
    PROVE  i = Len(packet.entries)
<1>2. packet \in Packet /\ LongEnough(packet)
    BY DEF TypeOK, LengthsCover
<1>1. Len(packet.entries) \in Nat /\ i \in 0 .. Len(packet.entries)
    BY <1>2, LeftOver
<1>3. CASE i >= num_vals
    <2>1. num_vals = packet.count /\ num_vals \in Nat
        BY DEF LoopInv, TypeOK
    <2>2. Len(packet.entries) <= packet.count
        BY <1>2 DEF Counted
    <2> QED
        BY <1>1, <1>3, <2>1, <2>2
<1>4. CASE ~Fits
    <2> SUFFICES ASSUME i < Len(packet.entries) PROVE FALSE
        BY <1>1
    <2> DEFINE d == data_len - curr_len
               M == 2^LengthBits
    <2>1. d \in Nat /\ d >= EntrySize
        BY <1>2, LeftOver
    <2>2. d < M
        <3>1. data_len < M
            BY <1>2 DEF LengthsFit, data_len
        <3>2. data_len \in Int /\ curr_len \in Nat /\ M \in Nat
            BY <1>2, PacketParts, ModulusPositive DEF data_len, TypeOK
        <3> HIDE DEF M
        <3> QED
            BY <3>1, <3>2
    <2>3. M \in Nat \ {0}
        BY ModulusPositive
    <2>4. d % M = d
        <3> HIDE DEF d, M
        <3> QED
            BY <2>1, <2>2, <2>3
    <2> QED
        BY <1>4, <2>1, <2>4 DEF Fits
<1> QED
    BY <1>3, <1>4

\* What it means that the packets say something of a beacon.
LEMMA SaidMeans ==
    ASSUME NEW m, NEW x
    PROVE  x \in SaidOf(m) <=>
               \E n \in DOMAIN parsed : \E a \in DOMAIN parsed[n].entries :
                  parsed[n].entries[a].mac = m /\ x = <<n, parsed[n].entries[a].rssi>>
    BY DEF SaidOf

\* When the loop ends, what its packet has said so far is said.
LEMMA SaidGrows ==
    ASSUME Counted, LengthsFit, LengthsCover, TypeOK, LoopInv, ParseEnds, NEW m
    PROVE  SaidOf(m)' = SaidOf(m) \cup SaidSoFar(m)
<1>1. parsed' = With(parsed, source, packet) /\ source \notin DOMAIN parsed
    BY DEF ParseEnds, LoopInv
<1>2. i = Len(packet.entries) /\ DOMAIN packet.entries = 1 .. i
    BY ReadWhole, PacketParts DEF ParseEnds, TypeOK
<1>3. /\ DOMAIN parsed' = DOMAIN parsed \cup {source}
      /\ parsed'[source] = packet
      /\ \A n \in DOMAIN parsed : parsed'[n] = parsed[n]
    BY <1>1 DEF With
<1> DEFINE Of(n, p) == {<<n, p.entries[a].rssi>> :
                          a \in {b \in DOMAIN p.entries : p.entries[b].mac = m}}
<1>4. SaidOf(m) = UNION {Of(n, parsed[n]) : n \in DOMAIN parsed}
    BY DEF SaidOf
<1>5. SaidOf(m)' = UNION {Of(n, parsed'[n]) : n \in DOMAIN parsed'}
    BY DEF SaidOf
<1>6. SaidSoFar(m) = Of(source, packet)
    BY <1>2 DEF SaidSoFar
<1> HIDE DEF Of
<1>7. UNION {Of(n, parsed'[n]) : n \in DOMAIN parsed'}
         = (UNION {Of(n, parsed[n]) : n \in DOMAIN parsed}) \cup Of(source, packet)
    <2> DEFINE Now  == (UNION {Of(n, parsed[n]) : n \in DOMAIN parsed}) \cup Of(source, packet)
               Then == UNION {Of(n, parsed'[n]) : n \in DOMAIN parsed'}
    <2>1. ASSUME NEW x \in Then PROVE x \in Now
        <3>1. PICK n \in DOMAIN parsed' : x \in Of(n, parsed'[n])
            OBVIOUS
        <3>2. CASE n = source
            BY <1>3, <3>1, <3>2
        <3>3. CASE n # source
            <4>1. n \in DOMAIN parsed /\ x \in Of(n, parsed[n])
                BY <1>3, <3>1, <3>3
            <4> QED
                BY <4>1
        <3> QED
            BY <3>2, <3>3
    <2>2. ASSUME NEW x \in Now PROVE x \in Then
        <3>1. CASE x \in Of(source, packet)
            <4>1. source \in DOMAIN parsed' /\ x \in Of(source, parsed'[source])
                BY <1>3, <3>1
            <4> QED
                BY <4>1
        <3>2. CASE x \notin Of(source, packet)
            <4>1. PICK n \in DOMAIN parsed : x \in Of(n, parsed[n])
                BY <3>2
            <4>2. n \in DOMAIN parsed' /\ x \in Of(n, parsed'[n])
                BY <1>3, <4>1
            <4> QED
                BY <4>2
        <3> QED
            BY <3>1, <3>2
    <2> QED
        BY <2>1, <2>2
<1>8. SaidOf(m)' = SaidOf(m) \cup Of(source, packet)
    BY <1>4, <1>5, <1>7
<1> QED
    BY <1>6, <1>8

\* The entries gathered after one more, which FitsInside finds in the packet.
LEMMA OneMore ==
    ASSUME LengthsCover, TypeOK, LoopInv, ParseEntry
    PROVE  LET e == packet.entries[i + 1] IN
           /\ i + 1 \in 1 .. Len(packet.entries) /\ i \in Nat
           /\ e.mac \in Mac /\ Pair(e) \in Reading
           /\ data_map' = With(data_map, e.mac, Append(Gathered(e.mac), Pair(e)))
           /\ \A m : Gathered(m)' = IF m = e.mac THEN Append(Gathered(m), Pair(e))
                                     ELSE Gathered(m)
<1>1. i + 1 \in 1 .. Len(packet.entries) /\ EntryThere = {packet.entries[i + 1]}
    <2>1. LongEnough(packet)
        BY DEF ParseEntry, TypeOK, LengthsCover
    <2> QED
        BY <2>1, FitsInside DEF ParseEntry
<1> DEFINE e == packet.entries[i + 1]
<1>2. data_map' = Emplaced(e)
    BY <1>1 DEF ParseEntry
<1>3. e.mac \in Mac /\ e.rssi \in Rssi
    BY <1>1, PacketParts DEF TypeOK
<1>4. source \in Node
    BY DEF ParseEntry, TypeOK
<1>5. Pair(e) \in Reading
    BY <1>3, <1>4 DEF Pair, Reading
<1>6. data_map' = With(data_map, e.mac, Append(Gathered(e.mac), Pair(e)))
    BY <1>2 DEF Emplaced
<1>7. ASSUME NEW m
      PROVE  Gathered(m)' = IF m = e.mac THEN Append(Gathered(m), Pair(e))
                            ELSE Gathered(m)
    <2> HIDE DEF e
    <2>1. /\ DOMAIN data_map' = DOMAIN data_map \cup {e.mac}
          /\ data_map'[e.mac] = Append(Gathered(e.mac), Pair(e))
          /\ \A k \in DOMAIN data_map : k # e.mac => data_map'[k] = data_map[k]
        BY <1>6 DEF With
    <2> QED
        BY <2>1 DEF Gathered
<1> QED
    BY <1>1, <1>3, <1>5, <1>6, <1>7 DEF TypeOK

\* One more entry adds what it says to what is gathered of its beacon.
LEMMA GatherEntry ==
    ASSUME LengthsCover, TypeOK, LoopInv, GatherInv, ParseEntry
    PROVE  GatherInv'
<1> DEFINE e == packet.entries[i + 1]
<1>1. /\ i + 1 \in 1 .. Len(packet.entries) /\ i \in Nat
      /\ e.mac \in Mac /\ Pair(e) \in Reading
      /\ data_map' = With(data_map, e.mac, Append(Gathered(e.mac), Pair(e)))
      /\ \A m : Gathered(m)' = IF m = e.mac THEN Append(Gathered(m), Pair(e))
                                ELSE Gathered(m)
    BY OneMore
<1>2. /\ rx = "parse" /\ rx' = "parse" /\ streams' = streams /\ before' = before
      /\ source' = source /\ packet' = packet /\ parsed' = parsed /\ i' = i + 1
    BY DEF ParseEntry, At
<1>3. Pair(e) = <<source, e.rssi>>
    BY DEF Pair
<1>4. ASSUME NEW m
      PROVE  SaidSoFar(m)' = IF m = e.mac THEN SaidSoFar(m) \cup {Pair(e)} ELSE SaidSoFar(m)
    <2>1. 1 .. i + 1 = (1 .. i) \cup {i + 1}
        BY <1>1
    <2>2. SaidSoFar(m)' = {<<source, packet.entries[a].rssi>> :
                             a \in {b \in 1 .. i + 1 : packet.entries[b].mac = m}}
        BY <1>2 DEF SaidSoFar
    <2> QED
        BY <1>3, <2>1, <2>2 DEF SaidSoFar
<1>5. ASSUME NEW m PROVE SaidOf(m)' = SaidOf(m)
    BY <1>2 DEF SaidOf
<1> HIDE DEF e
<1>6. ASSUME NEW m \in Mac
      PROVE  ToSet(Gathered(m))' = SaidOf(m)' \cup SaidSoFar(m)'
    <2>1. ToSet(Gathered(m)) = SaidOf(m) \cup SaidSoFar(m)
        BY <1>2 DEF GatherInv, At
    <2>2. ToSet(Append(Gathered(m), Pair(e))) = ToSet(Gathered(m)) \cup {Pair(e)}
        BY <1>1, GatheredTyped, AppendParts
    <2> QED
        BY <1>1, <1>4, <1>5, <2>1, <2>2
<1>7. ASSUME NEW m \in DOMAIN data_map' PROVE data_map'[m] # <<>>
    <2>1. CASE m = e.mac
        <3>1. Append(Gathered(m), Pair(e)) # <<>>
            BY <1>1, GatheredTyped, AppendProperties
        <3> QED
            BY <1>1, <2>1, <3>1 DEF With
    <2>2. CASE m # e.mac
        BY <1>1, <2>2 DEF With, GatherInv
    <2> QED
        BY <2>1, <2>2
<1> QED
    BY <1>2, <1>6, <1>7 DEF GatherInv, At

\* The end of a sequence to which one element has been added.
LEMMA AppendEnd ==
    ASSUME NEW S, NEW s \in Seq(S), NEW x \in S
    PROVE  Front(Append(s, x)) = s /\ Last(Append(s, x)) = x
<1> DEFINE t == Append(s, x)
           n == Len(s)
<1>1. /\ t \in Seq(S) /\ n \in Nat /\ Len(t) = n + 1
      /\ \A a \in 1 .. n : t[a] = s[a]
      /\ t[n + 1] = x
    BY AppendParts
<1>2. \A a \in 1 .. n : t[a] \in S
    BY <1>1, ElementOfSeq
<1>3. SubSeq(t, 1, n) = s
    <2> HIDE DEF t
    <2>1. /\ SubSeq(t, 1, n) \in Seq(S)
          /\ Len(SubSeq(t, 1, n)) = IF 1 <= n THEN n - 1 + 1 ELSE 0
          /\ \A a \in 1 .. n - 1 + 1 : SubSeq(t, 1, n)[a] = t[1 + a - 1]
        BY <1>1, <1>2, SubSeqProperties
    <2>2. Len(SubSeq(t, 1, n)) = n
        BY <1>1, <2>1
    <2>3. \A a \in 1 .. n : SubSeq(t, 1, n)[a] = s[a]
        BY <1>1, <2>1
    <2> QED
        BY <1>1, <2>1, <2>2, <2>3, SeqEqual
<1>4. Len(t) - 1 = n
    BY <1>1
<1> QED
    BY <1>1, <1>3, <1>4 DEF Front, Last

\* One beacon gets its entry; the others are as they were.
LEMMA GatherStore ==
    ASSUME TypeOK, GatherInv, Store
    PROVE  GatherInv'
<1>1. PICK k \in DOMAIN data_map :
          /\ streams' = [streams EXCEPT ![k] = Append(@, data_map[k])]
          /\ data_map' = Without(data_map, k)
    BY DEF Store
<1>2. rx = "store" /\ rx' = "store" /\ parsed' = parsed /\ before' = before
    BY DEF Store, At
<1>3. k \in Mac /\ data_map[k] \in Seq(Reading) /\ streams[k] \in Seq(Seq(Reading))
    BY DEF TypeOK
<1>4. ASSUME NEW m PROVE SaidOf(m)' = SaidOf(m)
    BY <1>2 DEF SaidOf
<1>5. /\ DOMAIN data_map' = DOMAIN data_map \ {k}
      /\ \A m \in DOMAIN data_map' : data_map'[m] = data_map[m]
    BY <1>1 DEF Without
<1>6. ASSUME NEW m \in Mac PROVE StoredOnce(m)'
    <2>1. StoredOnce(m)
        BY <1>2 DEF GatherInv, At
    <2>2. CASE m = k
        <3>1. streams'[m] = Append(streams[m], data_map[m])
            BY <1>1, <1>3, <2>2 DEF TypeOK
        <3>2. streams[m] = before[m] /\ ToSet(data_map[m]) = SaidOf(m)
            BY <2>1, <2>2 DEF StoredOnce, Gathered
        <3>3. /\ Len(streams'[m]) = Len(streams[m]) + 1
              /\ Front(streams'[m]) = streams[m] /\ Last(streams'[m]) = data_map[m]
            BY <1>3, <2>2, <3>1, AppendParts, AppendEnd
        <3>4. SaidOf(m) # {}
            <4>1. data_map[m] # <<>>
                BY <2>2 DEF GatherInv
            <4>2. Len(data_map[m]) \in Nat /\ Len(data_map[m]) # 0
                BY <1>3, <2>2, <4>1, EmptySeq, LenProperties
            <4>3. 1 \in DOMAIN data_map[m]
                BY <1>3, <2>2, <4>2, LenProperties
            <4> QED
                BY <3>2, <4>3 DEF ToSet
        <3>5. m \notin DOMAIN data_map'
            BY <1>5, <2>2
        <3> QED
            BY <1>2, <1>4, <3>2, <3>3, <3>4, <3>5 DEF StoredOnce
    <2>3. CASE m # k
        <3>1. streams'[m] = streams[m]
            BY <1>1, <2>3 DEF TypeOK
        <3>2. m \in DOMAIN data_map' <=> m \in DOMAIN data_map
            BY <1>5, <2>3
        <3>3. Gathered(m)' = Gathered(m)
            BY <1>5, <3>2 DEF Gathered
        <3> QED
            BY <1>2, <1>4, <2>1, <3>1, <3>2, <3>3 DEF StoredOnce
    <2> QED
        BY <2>2, <2>3
<1>7. ASSUME NEW m \in DOMAIN data_map' PROVE data_map'[m] # <<>>
    BY <1>5 DEF GatherInv
<1> QED
    BY <1>2, <1>6, <1>7 DEF GatherInv, At

LEMMA GatherInit == Init => GatherInv
    BY DEF Init, GatherInv, At, Nothing

LEMMA GatherStep ==
    ASSUME Counted, LengthsFit, LengthsCover
    PROVE  TypeOK /\ LoopInv /\ GatherInv /\ [Next]_vars => GatherInv'
<1> SUFFICES ASSUME TypeOK, LoopInv, GatherInv, [Next]_vars PROVE GatherInv'
    OBVIOUS
<1>1. CASE Request
    <2>1. /\ rx' = "read" /\ streams' = streams /\ before' = streams
          /\ data_map' = Nothing /\ parsed' = Nothing
        BY <1>1 DEF Request, LoopInv
    <2>2. ASSUME NEW m PROVE ToSet(Gathered(m))' = {} /\ SaidOf(m)' = {}
        <3>1. Gathered(m)' = <<>>
            BY <2>1 DEF Gathered, Nothing
        <3>2. ToSet(Gathered(m))' = {}
            BY <3>1 DEF ToSet
        <3>3. SaidOf(m)' = {}
            BY <2>1 DEF SaidOf, Nothing
        <3> QED
            BY <3>2, <3>3
    <2> QED
        BY <2>1, <2>2 DEF GatherInv, At, Nothing
<1>2. CASE ReadPacket
    <2>1. /\ rx = "read" /\ rx' = "parse" /\ i' = 0
          /\ streams' = streams /\ before' = before
          /\ data_map' = data_map /\ parsed' = parsed
        BY <1>2 DEF ReadPacket, At
    <2>2. ASSUME NEW m PROVE SaidSoFar(m)' = {}
        BY <2>1 DEF SaidSoFar
    <2>3. ASSUME NEW m PROVE SaidOf(m)' = SaidOf(m) /\ Gathered(m)' = Gathered(m)
        BY <2>1 DEF SaidOf, Gathered
    <2> QED
        BY <2>1, <2>2, <2>3 DEF GatherInv, At
<1>3. CASE ReadEnds
    <2>1. /\ rx = "read" /\ rx' = "store" /\ streams = before
          /\ streams' = streams /\ before' = before
          /\ data_map' = data_map /\ parsed' = parsed
        BY <1>3 DEF ReadEnds, At, GatherInv
    <2>2. ASSUME NEW m \in Mac PROVE StoredOnce(m)
        <3>1. ToSet(Gathered(m)) = SaidOf(m)
            BY <2>1 DEF GatherInv, At
        <3>2. CASE m \in DOMAIN data_map
            BY <2>1, <3>1, <3>2 DEF StoredOnce
        <3>3. CASE m \notin DOMAIN data_map
            <4>1. SaidOf(m) = {}
                BY <3>1, <3>3 DEF Gathered, ToSet
            <4> QED
                BY <2>1, <3>3, <4>1 DEF StoredOnce
        <3> QED
            BY <3>2, <3>3
    <2>3. ASSUME NEW m PROVE SaidOf(m)' = SaidOf(m) /\ Gathered(m)' = Gathered(m)
        BY <2>1 DEF SaidOf, Gathered
    <2>4. ASSUME NEW m \in Mac PROVE StoredOnce(m)'
        BY <2>1, <2>2, <2>3 DEF StoredOnce
    <2> QED
        BY <2>1, <2>4 DEF GatherInv, At
<1>4. CASE Exit
    BY <1>4 DEF Exit, GatherInv, At, Nothing
<1>5. CASE ParseEntry
    BY <1>5, GatherEntry
<1>6. CASE ParseEnds
    <2>1. /\ rx = "parse" /\ rx' = "read" /\ streams' = streams /\ before' = before
          /\ data_map' = data_map
        BY <1>6 DEF ParseEnds, At
    <2>2. ASSUME NEW m \in Mac PROVE ToSet(Gathered(m))' = SaidOf(m)'
        <3>1. ToSet(Gathered(m)) = SaidOf(m) \cup SaidSoFar(m)
            BY <2>1 DEF GatherInv, At
        <3>2. Gathered(m)' = Gathered(m)
            BY <2>1 DEF Gathered
        <3> QED
            BY <1>6, <3>1, <3>2, SaidGrows
    <2> QED
        BY <2>1, <2>2 DEF GatherInv, At
<1>7. CASE Store
    BY <1>7, GatherStore
<1>8. CASE UNCHANGED vars
    <2>1. ASSUME NEW m
          PROVE  /\ SaidOf(m)' = SaidOf(m) /\ Gathered(m)' = Gathered(m)
                 /\ SaidSoFar(m)' = SaidSoFar(m)
        BY <1>8 DEF vars, loop_vars, SaidOf, SaidSoFar, Gathered
    <2>2. /\ rx' = rx /\ streams' = streams /\ before' = before /\ data_map' = data_map
        BY <1>8 DEF vars
    <2>3. ASSUME NEW m PROVE StoredOnce(m)' = StoredOnce(m)
        BY <2>1, <2>2 DEF StoredOnce
    <2> QED
        BY <2>1, <2>2, <2>3 DEF GatherInv, At
<1> QED
    BY <1>1, <1>2, <1>3, <1>4, <1>5, <1>6, <1>7, <1>8
    DEF Next, ReadStatusError, StoreDone, StoreThrows

\* StoredWholeOnce for any scanners and beacons, and for packets that announce no fewer
\* entries than they have and lengths that cover the count and fit into curr_len.
THEOREM StoresWholeOnce ==
    ASSUME Counted, LengthsFit, LengthsCover
    PROVE  Spec => []StoredWholeOnce
<1>1. TypeOK /\ LoopInv /\ GatherInv => StoredWholeOnce
    BY EndInside DEF GatherInv, StoredOnce, StoredWholeOnce
<1> QED
    BY <1>1, TypeInit, TypeStep, LoopInit, LoopStep, GatherInit, GatherStep, PTL DEF Spec

\* ReadsInside for any packets: however many entries a packet announces and wherever its
\* length ends, the loop stays inside its data if the length covers the count.  Of a
\* packet with a shorter length nothing is said: there the difference wraps and the loop
\* does read past the data.
THEOREM NeverReadsPast == Spec => []ReadsInside
    BY LoopKept, EndInside, PTL

-----------------------------------------------------------------------------
(***************************************************************************)
(* An entry of a stream has one reading of each scanner.                   *)
(***************************************************************************)
\* A scanner tracks a beacon once, PacketSound of Scanner: its packet names it once.
NamedOnce ==
    \A p \in Packet : \A a, b \in DOMAIN p.entries :
        p.entries[a].mac = p.entries[b].mac => a = b

\* What it means that a sequence of readings has one of each scanner.
LEMMA OneEachMeans ==
    ASSUME NEW s
    PROVE  OneEach(s) <=> \A a, b \in DOMAIN s : s[a][1] = s[b][1] => a = b
    BY DEF OneEach, IsInjective

\* A reading of another scanner can be added.
LEMMA OneEachMore ==
    ASSUME NEW s \in Seq(Reading), NEW x \in Reading, OneEach(s),
           \A a \in DOMAIN s : s[a][1] # x[1]
    PROVE  OneEach(Append(s, x))
<1> DEFINE t == Append(s, x)
           n == Len(s)
<1>1. /\ n \in Nat /\ DOMAIN s = 1 .. n /\ DOMAIN t = 1 .. n + 1
      /\ \A a \in 1 .. n : t[a] = s[a]
      /\ t[n + 1] = x
    BY AppendParts
<1>2. \A a, b \in DOMAIN s : s[a][1] = s[b][1] => a = b
    BY OneEachMeans
<1> HIDE DEF t, n
<1>3. \A a \in DOMAIN t : a \in 1 .. n \/ a = n + 1
    BY <1>1
<1>4. \A a, b \in DOMAIN t : t[a][1] = t[b][1] => a = b
    BY <1>1, <1>2, <1>3
<1> QED
    BY <1>4, OneEachMeans DEF t

\* The entry that is gathered is the first of its scanner for the beacon.
LEMMA EachEntry ==
    ASSUME NamedOnce, LengthsCover, TypeOK, LoopInv, EachInv, ParseEntry
    PROVE  EachInv'
<1> DEFINE e == packet.entries[i + 1]
<1>1. /\ i + 1 \in 1 .. Len(packet.entries) /\ i \in Nat
      /\ e.mac \in Mac /\ Pair(e) \in Reading
      /\ data_map' = With(data_map, e.mac, Append(Gathered(e.mac), Pair(e)))
    BY OneMore
<1>2. /\ rx = "parse" /\ rx' = "parse" /\ streams' = streams
      /\ source' = source /\ packet' = packet /\ parsed' = parsed /\ i' = i + 1
    BY DEF ParseEntry, At
<1>3. Pair(e)[1] = source
    BY DEF Pair
<1>4. ASSUME NEW b \in 1 .. i PROVE packet.entries[b].mac # e.mac
    <2>1. packet \in Packet
        BY <1>2 DEF TypeOK, At
    <2>2. DOMAIN packet.entries = 1 .. Len(packet.entries) /\ Len(packet.entries) \in Nat
        BY <2>1, PacketParts
    <2>3. b \in DOMAIN packet.entries /\ i + 1 \in DOMAIN packet.entries /\ b # i + 1
        BY <1>1, <2>2
    <2> QED
        BY <2>1, <2>3 DEF NamedOnce
<1> HIDE DEF e
<1> DEFINE k == e.mac
           old == Gathered(k)
           new == Append(old, Pair(e))
<1>5. ASSUME NEW a \in DOMAIN old PROVE old[a][1] \in DOMAIN parsed
    <2>1. k \in DOMAIN data_map /\ old = data_map[k]
        BY DEF Gathered
    <2> QED
        BY <1>2, <1>4, <2>1 DEF EachInv, At
<1>6. source \notin DOMAIN parsed
    BY <1>2 DEF LoopInv, At
<1>7. old \in Seq(Reading)
    BY GatheredTyped
<1>8. OneEach(old)
    <2>1. CASE k \in DOMAIN data_map
        BY <2>1 DEF EachInv, Gathered
    <2>2. CASE k \notin DOMAIN data_map
        BY <2>2, OneEachMeans DEF Gathered
    <2> QED
        BY <2>1, <2>2
<1>9. OneEach(new)
    BY <1>1, <1>3, <1>5, <1>6, <1>7, <1>8, OneEachMore
<1>10. /\ DOMAIN new = 1 .. Len(old) + 1 /\ DOMAIN old = 1 .. Len(old) /\ Len(old) \in Nat
       /\ \A a \in 1 .. Len(old) : new[a] = old[a]
       /\ new[Len(old) + 1] = Pair(e)
    BY <1>1, <1>7, AppendParts
<1>11. \A a \in DOMAIN new : new[a][1] \in DOMAIN parsed \/ new[a][1] = source
    <2>1. ASSUME NEW a \in DOMAIN new PROVE a \in DOMAIN old \/ a = Len(old) + 1
        BY <1>10
    <2> HIDE DEF new, old
    <2> QED
        BY <1>3, <1>5, <1>10, <2>1
<1>12. /\ DOMAIN data_map' = DOMAIN data_map \cup {k} /\ data_map'[k] = new
       /\ \A m \in DOMAIN data_map : m # k => data_map'[m] = data_map[m]
    BY <1>1 DEF With
<1>13. /\ i + 1 \in 1 .. i' /\ packet'.entries[i + 1].mac = k
       /\ \A b \in 1 .. i : b \in 1 .. i'
    BY <1>1, <1>2 DEF e
<1> HIDE DEF k, new, old
<1>14. ASSUME NEW m \in DOMAIN data_map', NEW a \in DOMAIN data_map'[m]
       PROVE  \/ data_map'[m][a][1] \in DOMAIN parsed'
              \/ /\ data_map'[m][a][1] = source'
                 /\ \E b \in 1 .. i' : packet'.entries[b].mac = m
    <2>1. CASE m = k
        BY <1>2, <1>11, <1>12, <1>13, <2>1
    <2>2. CASE m # k
        <3>1. m \in DOMAIN data_map /\ data_map'[m] = data_map[m]
            BY <1>12, <2>2
        <3>2. \/ data_map[m][a][1] \in DOMAIN parsed
              \/ /\ data_map[m][a][1] = source
                 /\ \E b \in 1 .. i : packet.entries[b].mac = m
            BY <1>2, <3>1 DEF EachInv
        <3> QED
            BY <1>2, <1>13, <3>1, <3>2
    <2> QED
        BY <2>1, <2>2
<1>15. ASSUME NEW m \in DOMAIN data_map' PROVE OneEach(data_map'[m])
    <2>1. CASE m = k
        BY <1>9, <1>12, <2>1
    <2>2. CASE m # k
        BY <1>12, <2>2 DEF EachInv
    <2> QED
        BY <2>1, <2>2
<1>16. OneReadingPerNode'
    BY <1>2 DEF EachInv, OneReadingPerNode
<1> QED
    BY <1>2, <1>14, <1>15, <1>16 DEF EachInv, At

\* What is added to a stream has one reading of each scanner.
LEMMA EachStore ==
    ASSUME TypeOK, EachInv, Store
    PROVE  EachInv'
<1>1. PICK k \in DOMAIN data_map :
          /\ streams' = [streams EXCEPT ![k] = Append(@, data_map[k])]
          /\ data_map' = Without(data_map, k)
    BY DEF Store
<1>2. rx' = "store"
    BY DEF Store, At
<1>3. k \in Mac /\ data_map[k] \in Seq(Reading) /\ streams[k] \in Seq(Seq(Reading))
    BY DEF TypeOK
<1>4. /\ DOMAIN data_map' = DOMAIN data_map \ {k}
      /\ \A m \in DOMAIN data_map' : data_map'[m] = data_map[m]
    BY <1>1 DEF Without
<1>5. ASSUME NEW m \in Mac, NEW a \in DOMAIN streams'[m]
      PROVE  OneEach(streams'[m][a])
    <2>1. CASE m = k
        <3>1. streams'[k] = Append(streams[k], data_map[k])
            BY <1>1, <1>3 DEF TypeOK
        <3> DEFINE n == Len(streams[k])
        <3>2. /\ n \in Nat /\ DOMAIN streams[k] = 1 .. n /\ DOMAIN streams'[k] = 1 .. n + 1
              /\ \A b \in 1 .. n : streams'[k][b] = streams[k][b]
              /\ streams'[k][n + 1] = data_map[k]
            BY <1>3, <3>1, AppendParts
        <3>3. a \in 1 .. n \/ a = n + 1
            BY <2>1, <3>2
        <3>4. OneEach(data_map[k]) /\ \A b \in 1 .. n : OneEach(streams[k][b])
            BY <1>3, <3>2 DEF EachInv, OneReadingPerNode
        <3> HIDE DEF n
        <3> QED
            BY <2>1, <3>2, <3>3, <3>4
    <2>2. CASE m # k
        <3>1. streams'[m] = streams[m]
            BY <1>1, <2>2 DEF TypeOK
        <3> QED
            BY <3>1 DEF EachInv, OneReadingPerNode
    <2> QED
        BY <2>1, <2>2
<1>6. ASSUME NEW m \in DOMAIN data_map' PROVE OneEach(data_map'[m])
    BY <1>4 DEF EachInv
<1>7. OneReadingPerNode'
    BY <1>5 DEF OneReadingPerNode
<1> QED
    BY <1>2, <1>6, <1>7 DEF EachInv, At

LEMMA EachInit == Init => EachInv
    BY DEF Init, EachInv, OneReadingPerNode, At, Nothing

LEMMA EachStep ==
    ASSUME NamedOnce, LengthsCover
    PROVE  TypeOK /\ LoopInv /\ EachInv /\ [Next]_vars => EachInv'
<1> SUFFICES ASSUME TypeOK, LoopInv, EachInv, [Next]_vars PROVE EachInv'
    OBVIOUS
<1>1. CASE Request
    <2>1. rx' = "read" /\ streams' = streams /\ data_map' = Nothing
        BY <1>1 DEF Request, LoopInv
    <2> QED
        BY <2>1 DEF EachInv, OneReadingPerNode, Nothing
<1>2. CASE ReadPacket
    <2>1. /\ rx = "read" /\ rx' = "parse" /\ streams' = streams
          /\ data_map' = data_map /\ parsed' = parsed
        BY <1>2 DEF ReadPacket, At
    <2> QED
        BY <2>1 DEF EachInv, OneReadingPerNode, At
<1>3. CASE ReadEnds
    <2>1. rx' = "store" /\ streams' = streams /\ data_map' = data_map
        BY <1>3 DEF ReadEnds
    <2> QED
        BY <2>1 DEF EachInv, OneReadingPerNode, At
<1>4. CASE Exit
    BY <1>4 DEF Exit, EachInv, OneReadingPerNode, At, Nothing
<1>5. CASE ParseEntry
    BY <1>5, EachEntry
<1>6. CASE ParseEnds
    <2>1. /\ rx = "parse" /\ rx' = "read" /\ streams' = streams /\ data_map' = data_map
          /\ DOMAIN parsed' = DOMAIN parsed \cup {source}
        BY <1>6 DEF ParseEnds, At, With
    <2>2. ASSUME NEW m \in DOMAIN data_map, NEW a \in DOMAIN data_map[m]
          PROVE  data_map[m][a][1] \in DOMAIN parsed'
        BY <2>1 DEF EachInv
    <2> QED
        BY <2>1, <2>2 DEF EachInv, OneReadingPerNode
<1>7. CASE Store
    BY <1>7, EachStore
<1>8. CASE UNCHANGED vars
    BY <1>8 DEF vars, loop_vars, EachInv, OneReadingPerNode, At
<1> QED
    BY <1>1, <1>2, <1>3, <1>4, <1>5, <1>6, <1>7, <1>8
    DEF Next, ReadStatusError, StoreDone, StoreThrows

\* OneReadingPerNode for any scanners and beacons, however many entries the packets
\* announce and wherever the reply ends: it needs that a packet names a beacon once and
\* that its length covers the count.
THEOREM OneOfEachNode ==
    ASSUME NamedOnce, LengthsCover
    PROVE  Spec => []OneReadingPerNode
<1>1. EachInv => OneReadingPerNode
    BY DEF EachInv
<1> QED
    BY <1>1, TypeInit, TypeStep, LoopInit, LoopStep, EachInit, EachStep, PTL DEF Spec
=============================================================================
