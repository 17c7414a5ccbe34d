--------------------------- MODULE Scanner_proofs ---------------------------
(***************************************************************************)
(* Theorems about Scanner, for every set of beacons, every whitelist,      *)
(* every set of failing calls and every bound, among them that it          *)
(* implements BeaconReport.                                                *)
(***************************************************************************)
EXTENDS Scanner, FiniteSetTheorems, SequenceTheorems, TLAPS

-----------------------------------------------------------------------------
(***************************************************************************)
(* Type correctness.                                                       *)
(***************************************************************************)
LEMMA TypeInit == Init => TypeOK
<1> SUFFICES ASSUME Init PROVE TypeOK
    OBVIOUS
<1>1. 0 \in Time
    BY BoundsAssumption DEF Time
<1>0. <<>> \in Seq(Sample) /\ <<>> \in Seq(Mac)
    BY EmptySeq
<1>2. ControlOK
    BY <1>1 DEF Init, ControlOK, Thread, MainPc, BtPc, DataPc, FilterPc
<1>3. ScanOK
    BY DEF Init, ScanOK, Thread
<1>4. QueueOK
    BY <1>0 DEF Init, QueueOK
<1>5. TrackOK
    <2>0. data_table = [m \in {} |-> m]
        BY DEF Init, Empty
    <2>1. DOMAIN data_table = {}
        BY <2>0
    <2>2. data_table \in [{} -> Sample]
        BY <2>0
    <2>4. key_list = <<>>
        BY DEF Init
    <2> QED
        BY <1>0, <2>1, <2>2, <2>4 DEF TrackOK
<1>6. PacketOK
    <2>1. NoPacket \in Packet
        BY <1>0 DEF Packet, NoPacket
    <2>2. /\ num_vals = 0 /\ current_time = 0 /\ i = 1
          /\ tx_buf = <<>> /\ daemon = NoPacket
        BY DEF Init
    <2> QED
        BY <1>0, <1>1, <2>1, <2>2 DEF PacketOK
<1>7. FilterOK
    <2>1. pc["filter"] = "unborn"
        BY DEF Init, Thread
    <2>2. /\ filter_state = "null" /\ mac_filter_table = {} /\ line = 1
          /\ filter_size = 0 /\ filter_capacity = 0 /\ lost = {}
        BY DEF Init
    <2>3. mac_filter_rdy = 1 /\ white_list_enabled = 0
        BY DEF Init
    <2> QED
        BY <2>1, <2>2, <2>3 DEF FilterOK
<1> QED
    BY <1>2, <1>3, <1>4, <1>5, <1>6, <1>7 DEF TypeOK

-----------------------------------------------------------------------------
(***************************************************************************)
(* Which steps change which part of the state.                             *)
(***************************************************************************)
LEMMA ScanFrame ==
    ASSUME [Next]_vars, ControlOK
    PROVE  \/ UNCHANGED <<bt_vars, pc["bt"]>>
           \/ MainCreateBt \/ BtOpen \/ BtLock \/ BtEnable
           \/ (\E m \in Mac : BtDiscover(m)) \/ BtFilter \/ BtWalk \/ BtAppend
           \/ BtTimeout \/ BtUnlock
<1>0. DOMAIN pc = Thread
    BY DEF ControlOK
<1> USE <1>0 DEF Thread, Goto, Create, bt_vars
<1>1. CASE UNCHANGED vars
    BY <1>1 DEF vars
<1>2. CASE MainNext
    BY <1>2 DEF MainNext, MainCreateData, MainCreateFilter, MainExit
<1>3. CASE BtNext
    BY <1>3 DEF BtNext
<1>4. CASE DataNext
    BY <1>4 DEF DataNext, DataCreate, DataLock, DataDrain, DataGrowFails,
                DataUnlock, DataPack, DataSend, DataSleep
<1>5. CASE FilterNext
    BY <1>5 DEF FilterNext, FilterAlloc, FilterSetup, FilterReset, FilterResetup,
                FilterOpen, FilterRead, FilterGrow, FilterGrown,
                FilterInsertFails, FilterEof, FilterSleep, SetUp, FilterRest
<1>6. CASE Tick
    BY <1>6 DEF Tick
<1> QED
    BY <1>1, <1>2, <1>3, <1>4, <1>5, <1>6 DEF Next

LEMMA QueueFrame ==
    ASSUME [Next]_vars
    PROVE  UNCHANGED queue_vars \/ BtAppend \/ DataCreate \/ DataDrain
<1> USE DEF queue_vars
<1>1. CASE UNCHANGED vars
    BY <1>1 DEF vars
<1>2. CASE MainNext
    BY <1>2 DEF MainNext, MainCreateBt, MainCreateData, MainCreateFilter, Create,
                MainExit
<1>3. CASE BtNext
    BY <1>3 DEF BtNext, BtOpen, BtLock, BtEnable, BtDiscover, BtFilter, BtWalk,
                BtTimeout, BtUnlock
<1>4. CASE DataNext
    BY <1>4 DEF DataNext, DataLock, DataGrowFails, DataUnlock, DataPack, DataSend,
                DataSleep
<1>5. CASE FilterNext
    BY <1>5 DEF FilterNext, FilterAlloc, FilterSetup, FilterReset, FilterResetup,
                FilterOpen, FilterRead, FilterGrow, FilterGrown,
                FilterInsertFails, FilterEof, FilterSleep, SetUp, FilterRest
<1>6. CASE Tick
    BY <1>6 DEF Tick
<1> QED
    BY <1>1, <1>2, <1>3, <1>4, <1>5, <1>6 DEF Next

LEMMA TrackFrame ==
    ASSUME [Next]_vars
    PROVE  UNCHANGED track_vars \/ DataDrain \/ DataPack
<1> USE DEF track_vars
<1>1. CASE UNCHANGED vars
    BY <1>1 DEF vars
<1>2. CASE MainNext
    BY <1>2 DEF MainNext, MainCreateBt, MainCreateData, MainCreateFilter, Create,
                MainExit
<1>3. CASE BtNext
    BY <1>3 DEF BtNext, BtOpen, BtLock, BtEnable, BtDiscover, BtFilter, BtWalk,
                BtAppend, BtTimeout, BtUnlock
<1>4. CASE DataNext
    BY <1>4 DEF DataNext, DataCreate, DataLock, DataGrowFails, DataUnlock, DataSend,
                DataSleep
<1>5. CASE FilterNext
    BY <1>5 DEF FilterNext, FilterAlloc, FilterSetup, FilterReset, FilterResetup,
                FilterOpen, FilterRead, FilterGrow, FilterGrown,
                FilterInsertFails, FilterEof, FilterSleep, SetUp, FilterRest
<1>6. CASE Tick
    BY <1>6 DEF Tick
<1> QED
    BY <1>1, <1>2, <1>3, <1>4, <1>5, <1>6 DEF Next

LEMMA PacketFrame ==
    ASSUME [Next]_vars
    PROVE  UNCHANGED <<packet_vars, daemon>> \/ DataUnlock \/ DataPack \/ DataSend
<1> USE DEF packet_vars
<1>1. CASE UNCHANGED vars
    BY <1>1 DEF vars
<1>2. CASE MainNext
    BY <1>2 DEF MainNext, MainCreateBt, MainCreateData, MainCreateFilter, Create,
                MainExit
<1>3. CASE BtNext
    BY <1>3 DEF BtNext, BtOpen, BtLock, BtEnable, BtDiscover, BtFilter, BtWalk,
                BtAppend, BtTimeout, BtUnlock
<1>4. CASE DataNext
    BY <1>4 DEF DataNext, DataCreate, DataLock, DataDrain, DataGrowFails, DataSleep
<1>5. CASE FilterNext
    BY <1>5 DEF FilterNext, FilterAlloc, FilterSetup, FilterReset, FilterResetup,
                FilterOpen, FilterRead, FilterGrow, FilterGrown,
                FilterInsertFails, FilterEof, FilterSleep, SetUp, FilterRest
<1>6. CASE Tick
    BY <1>6 DEF Tick
<1> QED
    BY <1>1, <1>2, <1>3, <1>4, <1>5, <1>6 DEF Next

LEMMA FilterFrame ==
    ASSUME [Next]_vars, ControlOK
    PROVE  \/ UNCHANGED <<filter_vars, pc["filter"]>>
           \/ MainCreateFilter \/ FilterNext
<1>0. DOMAIN pc = Thread
    BY DEF ControlOK
<1> USE <1>0 DEF Thread, Goto, Create, filter_vars
<1>1. CASE UNCHANGED vars
    BY <1>1 DEF vars
<1>2. CASE MainNext
    BY <1>2 DEF MainNext, MainCreateBt, MainCreateData, MainExit
<1>3. CASE BtNext
    BY <1>3 DEF BtNext, BtOpen, BtLock, BtEnable, BtDiscover, BtFilter, BtWalk,
                BtAppend, BtTimeout, BtUnlock
<1>4. CASE DataNext
    BY <1>4 DEF DataNext, DataCreate, DataLock, DataDrain, DataGrowFails,
                DataUnlock, DataPack, DataSend, DataSleep
<1>5. CASE Tick
    BY <1>5 DEF Tick
<1> QED
    BY <1>1, <1>2, <1>3, <1>4, <1>5 DEF Next

-----------------------------------------------------------------------------
(***************************************************************************)
(* What the helpers on the deque, the key list and the table return.       *)
(***************************************************************************)
LEMMA PoppedAndRest ==
    ASSUME QueueOK, bt_data_deque # <<>>
    PROVE  /\ Len(bt_data_deque) \in Nat /\ Len(bt_data_deque) >= 1
           /\ Popped \in Sample
           /\ Rest \in Seq(Sample)
           /\ Len(Rest) = Len(bt_data_deque) - 1
           /\ \A n \in 1 .. Len(Rest) : Rest[n] = bt_data_deque[n]
<1>0. Len(bt_data_deque) \in Nat \ {0}
    BY EmptySeq DEF QueueOK
<1>1. Len(bt_data_deque) \in Nat /\ Len(bt_data_deque) >= 1
    BY <1>0
<1>2. \A n \in 1 .. Len(bt_data_deque) : bt_data_deque[n] \in Sample
    BY ElementOfSeq DEF QueueOK
<1>3. Popped \in Sample
    BY <1>1, <1>2 DEF Popped
<1>4. \A n \in 1 .. Len(bt_data_deque) - 1 : bt_data_deque[n] \in Sample
    BY <1>1, <1>2
<1>5. /\ Rest \in Seq(Sample)
      /\ Len(Rest) = IF 1 <= Len(bt_data_deque) - 1
                     THEN Len(bt_data_deque) - 1 - 1 + 1 ELSE 0
      /\ \A n \in 1 .. Len(bt_data_deque) - 1 - 1 + 1 :
            Rest[n] = bt_data_deque[1 + n - 1]
    BY <1>1, <1>4, SubSeqProperties DEF Rest
<1>6. Len(Rest) = Len(bt_data_deque) - 1
    <2>1. \A l \in Nat : l >= 1 =>
              (IF 1 <= l - 1 THEN l - 1 - 1 + 1 ELSE 0) = l - 1
        OBVIOUS
    <2> QED
        BY <1>1, <1>5, <2>1
<1>7. \A n \in 1 .. Len(Rest) : Rest[n] = bt_data_deque[n]
    BY <1>1, <1>5, <1>6
<1> QED
    BY <1>1, <1>3, <1>5, <1>6, <1>7

LEMMA RemoveKeyProperties ==
    ASSUME key_list \in Seq(Mac), NEW n \in 1 .. Len(key_list)
    PROVE  /\ RemoveKey(n) \in Seq(Mac)
           /\ Len(RemoveKey(n)) = Len(key_list) - 1
           /\ \A k \in 1 .. Len(key_list) - 1 :
                 RemoveKey(n)[k] = key_list[IF k < n THEN k ELSE k + 1]
<1> DEFINE L == SubSeq(key_list, 1, n - 1)
           R == SubSeq(key_list, n + 1, Len(key_list))
<1>1. Len(key_list) \in Nat
    BY LenProperties
<1>2. \A k \in 1 .. Len(key_list) : key_list[k] \in Mac
    BY ElementOfSeq
<1>3. \A k \in 1 .. n - 1 : key_list[k] \in Mac
    BY <1>1, <1>2
<1>4. /\ L \in Seq(Mac)
      /\ Len(L) = n - 1
      /\ \A k \in 1 .. n - 1 : L[k] = key_list[k]
    <2>1. /\ L \in Seq(Mac)
          /\ Len(L) = IF 1 <= n - 1 THEN n - 1 - 1 + 1 ELSE 0
          /\ \A k \in 1 .. n - 1 - 1 + 1 : L[k] = key_list[1 + k - 1]
        BY <1>1, <1>3, SubSeqProperties
    <2> QED
        BY <1>1, <2>1
<1>5. \A k \in n + 1 .. Len(key_list) : key_list[k] \in Mac
    BY <1>1, <1>2
<1>6. /\ R \in Seq(Mac)
      /\ Len(R) = Len(key_list) - n
      /\ \A k \in 1 .. Len(key_list) - n : R[k] = key_list[n + k]
    <2>1. /\ R \in Seq(Mac)
          /\ Len(R) = IF n + 1 <= Len(key_list) THEN Len(key_list) - (n + 1) + 1 ELSE 0
          /\ \A k \in 1 .. Len(key_list) - (n + 1) + 1 : R[k] = key_list[n + 1 + k - 1]
        BY <1>1, <1>5, SubSeqProperties
    <2> QED
        BY <1>1, <2>1
<1>7. /\ L \o R \in Seq(Mac)
      /\ Len(L \o R) = Len(L) + Len(R)
      /\ \A k \in 1 .. Len(L) + Len(R) :
            (L \o R)[k] = IF k <= Len(L) THEN L[k] ELSE R[k - Len(L)]
    BY <1>4, <1>6, ConcatProperties
<1>8. RemoveKey(n) = L \o R
    BY DEF RemoveKey
<1> HIDE DEF L, R
<1>9. Len(L \o R) = Len(key_list) - 1
    BY <1>1, <1>4, <1>6, <1>7
<1>10. ASSUME NEW k \in 1 .. Len(key_list) - 1
       PROVE  (L \o R)[k] = key_list[IF k < n THEN k ELSE k + 1]
    <2>1. CASE k < n
        BY <1>1, <1>4, <1>6, <1>7, <2>1
    <2>2. CASE ~(k < n)
        <3>1. k - (n - 1) \in 1 .. Len(key_list) - n
            BY <1>1, <2>2
        <3>2. (L \o R)[k] = R[k - (n - 1)]
            BY <1>1, <1>4, <1>6, <1>7, <2>2
        <3>3. R[k - (n - 1)] = key_list[n + (k - (n - 1))]
            BY <1>6, <3>1
        <3> QED
            BY <1>1, <2>2, <3>2, <3>3
    <2> QED
        BY <2>1, <2>2
<1> QED
    BY <1>7, <1>8, <1>9, <1>10

-----------------------------------------------------------------------------
(***************************************************************************)
(* Each part of TypeOK is kept by every step.                              *)
(***************************************************************************)
LEMMA ControlStep ==
    ASSUME ControlOK, [Next]_vars
    PROVE  ControlOK'
<1>1. CASE UNCHANGED <<proc, pc, bt_mutex>> /\ now' \in Time
    BY <1>1 DEF ControlOK
<1>0. ASSUME UNCHANGED vars
      PROVE  UNCHANGED <<proc, pc, bt_mutex>> /\ now' \in Time
    BY <1>0 DEF vars, ControlOK
<1>6. ASSUME Tick
      PROVE  UNCHANGED <<proc, pc, bt_mutex>> /\ now' \in Time
    <2>1. now \in Time /\ now < MaxTime /\ now' = now + 1
        BY <1>6 DEF Tick, ControlOK
    <2>2. now' \in Time
        BY <2>1, BoundsAssumption DEF Time
    <2> QED
        BY <1>6, <2>2 DEF Tick
<1> USE DEF ControlOK, Thread, MainPc, BtPc, DataPc, FilterPc, Scanning, Goto, Abort
<1>2. CASE MainNext
    BY <1>2 DEF MainNext, MainCreateBt, MainCreateData, MainCreateFilter, Create,
                MainExit, At, Time
<1>3. CASE BtNext
    BY <1>3 DEF BtNext, BtOpen, BtLock, BtEnable, BtDiscover, BtFilter, BtWalk,
                BtAppend, BtTimeout, BtUnlock, At, Time
<1>4. CASE DataNext
    BY <1>4 DEF DataNext, DataCreate, DataLock, DataDrain, DataGrowFails,
                DataUnlock, DataPack, DataSend, DataSleep, At, Time
<1>5. CASE FilterNext
    <2>1. CASE FilterAlloc \/ FilterSetup \/ FilterReset \/ FilterResetup \/ FilterOpen
        BY <2>1 DEF FilterAlloc, FilterSetup, FilterReset, FilterResetup, FilterOpen,
                    SetUp, FilterRest, At, Time
    <2>2. CASE FilterRead \/ FilterGrow \/ FilterGrown
        BY <2>2 DEF FilterRead, FilterGrow, FilterGrown, FilterRest, At, Time
    <2>3. CASE FilterInsertFails \/ FilterEof \/ FilterSleep
        BY <2>3 DEF FilterInsertFails, FilterEof, FilterSleep, FilterRest, At, Time
    <2> QED
        BY <1>5, <2>1, <2>2, <2>3 DEF FilterNext
<1> QED
    BY <1>0, <1>1, <1>2, <1>3, <1>4, <1>5, <1>6 DEF Next

LEMMA ScanStep ==
    ASSUME ControlOK, ScanOK, [Next]_vars
    PROVE  ScanOK'
<1>0. DOMAIN pc = Thread /\ (pc["main"] = "create bt" => pc["bt"] = "unborn")
    BY DEF ControlOK
<1> USE <1>0 DEF ScanOK, Thread, Goto, At
<1>1. CASE UNCHANGED <<bt_vars, pc["bt"]>>
    BY <1>1 DEF bt_vars
<1>2. CASE MainCreateBt
    BY <1>2 DEF MainCreateBt, Create, bt_vars
<1>3. CASE BtOpen \/ BtLock \/ BtEnable \/ BtUnlock
    BY <1>3 DEF BtOpen, BtLock, BtEnable, BtUnlock, bt_vars
<1>4. ASSUME NEW m \in Mac, BtDiscover(m)
      PROVE  ScanOK'
    <2>1. call' \in Call
        <3>1. PICK r \in Readings : call' = [mac |-> m, rssi |-> r]
            BY <1>4 DEF BtDiscover
        <3> QED
            BY <3>1 DEF Call
    <2>2. call' # NoCall
        BY <2>1, NoCallAssumption
    <2> QED
        BY <1>4, <2>1, <2>2 DEF BtDiscover
<1>5. CASE BtFilter
    BY <1>5 DEF BtFilter
<1>6. CASE BtWalk
    BY <1>6 DEF BtWalk
<1>7. CASE BtAppend
    BY <1>7 DEF BtAppend
<1>8. CASE BtTimeout
    BY <1>8 DEF BtTimeout
<1> QED
    BY <1>1, <1>2, <1>3, <1>4, <1>5, <1>6, <1>7, <1>8, ScanFrame

LEMMA QueueStep ==
    ASSUME ControlOK, ScanOK, QueueOK, [Next]_vars
    PROVE  QueueOK'
<1>1. CASE UNCHANGED queue_vars
    BY <1>1 DEF QueueOK, queue_vars
<1>2. CASE BtAppend
    <2>1. call \in Call
        BY <1>2 DEF BtAppend, At, ScanOK
    <2>2. [mac |-> call.mac, rssi |-> call.rssi, time |-> now] \in Sample
        BY <2>1 DEF Call, Sample, ControlOK
    <2>3. Append(bt_data_deque, [mac |-> call.mac, rssi |-> call.rssi, time |-> now])
            \in Seq(Sample)
        BY <2>2, AppendProperties DEF QueueOK
    <2> QED
        BY <1>2, <2>3 DEF BtAppend, PushHead, QueueOK
<1>3. CASE DataCreate
    BY <1>3 DEF DataCreate, Created, QueueOK
<1>4. CASE DataDrain
    BY <1>4, PoppedAndRest DEF DataDrain, QueueOK
<1> QED
    BY <1>1, <1>2, <1>3, <1>4, QueueFrame

LEMMA TrackStep ==
    ASSUME ControlOK, QueueOK, TrackOK, PacketOK, [Next]_vars
    PROVE  TrackOK'
<1>1. CASE UNCHANGED track_vars
    BY <1>1 DEF TrackOK, track_vars
<1>2. CASE DataDrain
    <2>1. Popped \in Sample
        BY <1>2, PoppedAndRest DEF DataDrain
    <2>2. Popped.mac \in Mac /\ Popped.time \in Time
        BY <2>1 DEF Sample
    <2>3. key_list' \in Seq(Mac)
        <3>1. Append(key_list, Popped.mac) \in Seq(Mac)
            BY <2>2, AppendProperties DEF TrackOK
        <3> QED
            BY <1>2, <3>1 DEF DataDrain, TrackOK
    <2>5. /\ DOMAIN data_table' \subseteq Mac
          /\ data_table' \in [DOMAIN data_table' -> Sample]
          /\ \A m \in DOMAIN data_table' : data_table'[m].mac = m
        <3>1. CASE data_table' = Put(data_table, Popped)
            BY <2>1, <2>2, <3>1 DEF Put, TrackOK
        <3>2. ASSUME NEW chain \in SUBSET DOMAIN data_table,
                     data_table' = Without(data_table, chain)
              PROVE  <2>5!1 /\ <2>5!2 /\ <2>5!3
            BY <3>2 DEF Without, TrackOK
        <3> QED
            BY <1>2, <3>1, <3>2 DEF DataDrain
    <2> QED
        BY <2>3, <2>5 DEF TrackOK
<1>3. CASE DataPack
    <2>1. i \in 1 .. Len(key_list)
        BY <1>3, LenProperties DEF DataPack, PacketOK, TrackOK
    <2>2. RemoveKey(i) \in Seq(Mac)
        BY <2>1, RemoveKeyProperties DEF TrackOK
    <2>3. key_list' \in Seq(Mac)
        BY <1>3, <2>2 DEF DataPack, TrackOK
    <2>5. /\ DOMAIN data_table' \subseteq Mac
          /\ data_table' \in [DOMAIN data_table' -> Sample]
          /\ \A m \in DOMAIN data_table' : data_table'[m].mac = m
        BY <1>3 DEF DataPack, Without, TrackOK
    <2> QED
        BY <2>3, <2>5 DEF TrackOK
<1> QED
    BY <1>1, <1>2, <1>3, TrackFrame

LEMMA PacketStep ==
    ASSUME ControlOK, TrackOK, PacketOK, [Next]_vars
    PROVE  PacketOK'
<1>0. Len(key_list) \in Nat /\ 0 \in Time
    BY LenProperties, BoundsAssumption DEF TrackOK, Time
<1>1. CASE UNCHANGED <<packet_vars, daemon>>
    BY <1>1 DEF PacketOK, packet_vars
<1>2. CASE DataUnlock
    BY <1>0, <1>2 DEF DataUnlock, RoundTime, PacketOK, ControlOK
<1>3. CASE DataPack
    <2>1. i' \in Nat \ {0}
        BY <1>3 DEF DataPack, Following, PacketOK
    <2>2. tx_buf' \in Seq(Sample)
        <3>1. \A s \in Sample : Append(tx_buf, s) \in Seq(Sample)
            BY AppendProperties DEF PacketOK
        <3>2. \A m \in DOMAIN data_table : data_table[m] \in Sample
            BY DEF TrackOK
        <3> QED
            BY <1>3, <3>1, <3>2 DEF DataPack, PacketOK
    <2> QED
        BY <1>3, <2>1, <2>2 DEF DataPack, PacketOK
<1>4. CASE DataSend
    <2>1. daemon' \in Packet
        BY <1>4 DEF DataSend, PacketOK, Packet
    <2>2. <<>> \in Seq(Sample)
        BY EmptySeq
    <2> QED
        BY <1>0, <1>4, <2>1, <2>2 DEF DataSend, PacketOK
<1> QED
    BY <1>1, <1>2, <1>3, <1>4, PacketFrame

LEMMA LineInMac ==
    ASSUME LineMatches, line \in Nat \ {0}
    PROVE  Whitelist[line] \in Mac
<1>1. Whitelist \in Seq(Mac \cup {Junk})
    BY WhitelistAssumption DEF LineMatches
<1>2. line \in 1 .. Len(Whitelist)
    BY <1>1, LenProperties DEF LineMatches
<1> QED
    BY <1>1, <1>2, ElementOfSeq DEF LineMatches

LEMMA InsertTypes ==
    ASSUME NEW m \in Mac, FilterInsert(m), FilterOK
    PROVE  /\ mac_filter_table' \subseteq Mac /\ lost' \subseteq Mac
           /\ filter_size' \in Nat
           /\ filter_size' = 0 => mac_filter_table' = {}
           /\ mac_filter_table' \cup lost' = mac_filter_table \cup lost \cup {m}
    BY DEF FilterInsert, FilterOK

LEMMA FilterStep ==
    ASSUME ControlOK, FilterOK, [Next]_vars
    PROVE  FilterOK'
<1>0. DOMAIN pc = Thread
    BY DEF ControlOK
<1> USE <1>0 DEF FilterOK, Thread, Goto, At, FilterRest
<1>1. CASE UNCHANGED <<filter_vars, pc["filter"]>>
    BY <1>1 DEF filter_vars, table_vars, LineMatches
<1>2. CASE MainCreateFilter
    BY <1>2 DEF MainCreateFilter, Create, filter_vars, table_vars, LineMatches
<1>3. CASE FilterAlloc
    BY <1>3 DEF FilterAlloc, table_vars, LineMatches
<1>4. CASE FilterSetup \/ FilterResetup
    BY <1>4, BoundsAssumption DEF FilterSetup, FilterResetup, SetUp, table_vars
<1>5. CASE FilterReset
    BY <1>5 DEF FilterReset, table_vars
<1>6. CASE FilterOpen
    BY <1>6 DEF FilterOpen, FirstLine, table_vars
<1>7. CASE FilterRead \/ FilterGrown
    <2>1. LineMatches
        BY <1>7 DEF FilterRead, FilterGrown
    <2>2. Whitelist[line] \in Mac
        BY <2>1, LineInMac
    <2>3. /\ mac_filter_table' \subseteq Mac /\ lost' \subseteq Mac
          /\ filter_size' \in Nat
          /\ filter_size' = 0 => mac_filter_table' = {}
        BY <1>7, <2>2, InsertTypes DEF FilterRead, FilterGrown
    <2>4. line + 1 \in Nat \ {0} /\ 2 * filter_capacity \in Nat
        OBVIOUS
    <2>5. /\ line' = line + 1
          /\ filter_capacity' \in {filter_capacity, 2 * filter_capacity}
          /\ filter_state' = "ready"
          /\ UNCHANGED <<mac_filter_rdy, white_list_enabled>>
          /\ pc'["filter"] = "read"
        BY <1>7 DEF FilterRead, FilterGrown
    <2> QED
        BY <2>1, <2>3, <2>4, <2>5 DEF LineMatches
<1>8. CASE FilterEof \/ FilterSleep \/ FilterGrow \/ FilterInsertFails
    BY <1>8 DEF FilterEof, FilterSleep, FilterGrow, FilterInsertFails, table_vars,
                filter_vars, LineMatches
<1> QED
    BY <1>1, <1>2, <1>3, <1>4, <1>5, <1>6, <1>7, <1>8, FilterFrame DEF FilterNext

LEMMA TypeStep == TypeOK /\ [Next]_vars => TypeOK'
    BY ControlStep, ScanStep, QueueStep, TrackStep, PacketStep, FilterStep DEF TypeOK

\* Every variable keeps its type, whatever the threads do and whichever calls
\* fail: in particular the table holds samples of their own address only, the
\* loop index of the packet stays inside the list, and the callback is in
\* progress exactly where the scan thread says it is.
THEOREM TypeCorrect == Spec => []TypeOK
<1>1. Init => TypeOK
    BY TypeInit
<1>2. TypeOK /\ [Next]_vars => TypeOK'
    BY TypeStep
<1> QED
    BY <1>1, <1>2, PTL DEF Spec

-----------------------------------------------------------------------------
(***************************************************************************)
(* The mutex.                                                              *)
(***************************************************************************)
LEMMA MutexStep == TypeOK /\ MutexInv /\ [Next]_vars => MutexInv'
<1> SUFFICES ASSUME TypeOK, MutexInv, [Next]_vars
             PROVE  MutexInv'
    OBVIOUS
<1>0. /\ DOMAIN pc = Thread
      /\ pc["main"] = "create bt" => pc["bt"] = "unborn"
      /\ pc["main"] \in {"create bt", "create data"} => pc["data"] = "unborn"
    BY DEF TypeOK, ControlOK
<1> USE <1>0 DEF MutexInv, Thread, Scanning, At, Goto
<1>1. CASE UNCHANGED vars
    BY <1>1 DEF vars
<1>2. CASE MainNext
    BY <1>2 DEF MainNext, MainCreateBt, MainCreateData, MainCreateFilter, Create,
                MainExit
<1>3. CASE BtLock
    BY <1>3 DEF BtLock
<1>4. CASE BtUnlock
    BY <1>4 DEF BtUnlock
<1>5. CASE BtOpen \/ BtEnable \/ BtTimeout \/ \E m \in Mac : BtDiscover(m)
    BY <1>5 DEF BtOpen, BtEnable, BtTimeout, BtDiscover
<1>6. CASE BtFilter \/ BtWalk \/ BtAppend
    BY <1>6 DEF BtFilter, BtWalk, BtAppend
<1>7. CASE DataLock
    BY <1>7 DEF DataLock
<1>8. CASE DataUnlock
    BY <1>8 DEF DataUnlock
<1>9. CASE DataCreate \/ DataDrain \/ DataGrowFails \/ DataPack \/ DataSend \/ DataSleep
    BY <1>9 DEF DataCreate, DataDrain, DataGrowFails, DataPack, DataSend, DataSleep
<1>10. CASE FilterNext
    BY <1>10 DEF FilterNext, FilterAlloc, FilterSetup, FilterReset, FilterResetup,
                 FilterOpen, FilterRead, FilterGrow, FilterGrown,
                FilterInsertFails, FilterEof, FilterSleep, SetUp, FilterRest
<1>11. CASE Tick
    BY <1>11 DEF Tick
<1> QED
    BY <1>1, <1>2, <1>3, <1>4, <1>5, <1>6, <1>7, <1>8, <1>9, <1>10, <1>11
       DEF Next, BtNext, DataNext

\* bt_mutex keeps the discovery callback and the drain apart, in every
\* interleaving and whichever calls fail.  (That it may also be held for ever,
\* by a scan thread that has returned, is part of the statement.)
THEOREM MutexHeld == Spec => []MutexInv
<1>1. Init => MutexInv
    BY DEF Init, MutexInv, Thread, Scanning
<1>2. MutexInv /\ TypeOK /\ [Next]_vars => MutexInv'
    BY MutexStep
<1> QED
    BY <1>1, <1>2, TypeCorrect, PTL DEF Spec

\* No callback appends to the deque between the deque_count and the deque_pop
\* of a draining data thread: each step of a drain leaves it or takes its head.
THEOREM DrainAlone == Spec => DrainUndisturbed
<1>1. TypeOK /\ MutexInv /\ [Next]_vars
        => (pc["data"] = "drain" => bt_data_deque' \in {bt_data_deque, Rest})
    <2> SUFFICES ASSUME MutexInv, [Next]_vars, pc["data"] = "drain"
                 PROVE  bt_data_deque' \in {bt_data_deque, Rest}
        OBVIOUS
    <2>1. ~BtAppend
        BY DEF MutexInv, BtAppend, At, Scanning
    <2>2. CASE UNCHANGED queue_vars \/ DataCreate
        BY <2>2 DEF queue_vars, DataCreate
    <2>3. CASE DataDrain
        BY <2>3 DEF DataDrain
    <2> QED
        BY <2>1, <2>2, <2>3, QueueFrame
<1> QED
    BY <1>1, TypeCorrect, MutexHeld, PTL DEF Spec, DrainUndisturbed

-----------------------------------------------------------------------------
(***************************************************************************)
(* The order of the samples and their ages.                                *)
(***************************************************************************)
\* what the two properties need besides themselves: the table has no sample
\* from the future either
TableFromPast == \A m \in DOMAIN data_table : data_table[m].time <= now

OrderInv == QueueInOrder /\ AgeNotNegative /\ TableFromPast

LEMMA TimeIsNat == Time \subseteq Nat
    BY BoundsAssumption DEF Time

\* the steps of the other threads, as the data thread sees them
LEMMA DataFrame ==
    ASSUME [Next]_vars, ControlOK
    PROVE  \/ /\ UNCHANGED <<pc["data"], bt_data_deque, track_vars, packet_vars, daemon>>
              /\ now' >= now
           \/ BtAppend \/ MainCreateData \/ DataNext
<1>0. DOMAIN pc = Thread /\ now \in Nat
    BY TimeIsNat DEF ControlOK
<1> USE DEF Goto, queue_vars
<1>1. CASE UNCHANGED vars
    BY <1>0, <1>1 DEF vars
<1>2. CASE MainCreateBt \/ MainCreateFilter \/ MainExit
    <2>1. UNCHANGED <<bt_data_deque, track_vars, packet_vars, daemon, now>>
        BY <1>2 DEF MainCreateBt, MainCreateFilter, Create, MainExit
    <2>2. UNCHANGED pc["data"]
        BY <1>0, <1>2 DEF MainCreateBt, MainCreateFilter, Create, MainExit, Thread
    <2> QED
        BY <1>0, <2>1, <2>2
<1>3. CASE BtNext
    BY <1>0, <1>3 DEF BtNext, BtOpen, BtLock, BtEnable, BtDiscover, BtFilter, BtWalk,
                BtTimeout, BtUnlock, Thread
<1>4. CASE FilterNext
    BY <1>0, <1>4 DEF FilterNext, FilterAlloc, FilterSetup, FilterReset,
                FilterResetup, FilterOpen, FilterRead, FilterGrow, FilterGrown,
                FilterInsertFails, FilterEof, FilterSleep, SetUp,
                FilterRest, Thread
<1>5. CASE Tick
    BY <1>0, <1>5 DEF Tick
<1> QED
    BY <1>1, <1>2, <1>3, <1>4, <1>5 DEF Next, MainNext

\* samples and the clock are natural numbers
LEMMA TimesAreNat ==
    ASSUME TypeOK
    PROVE  /\ now \in Nat /\ current_time \in Nat
           /\ Len(bt_data_deque) \in Nat
           /\ DOMAIN bt_data_deque = 1 .. Len(bt_data_deque)
           /\ \A a \in DOMAIN bt_data_deque :
                 bt_data_deque[a].time \in Nat /\ bt_data_deque[a].mac \in Mac
           /\ \A m \in DOMAIN data_table : data_table[m].time \in Nat
<1>1. Time \subseteq Nat
    BY TimeIsNat
<1>2. \A s \in Sample : s.time \in Nat /\ s.mac \in Mac
    BY <1>1 DEF Sample
<1>3. Len(bt_data_deque) \in Nat /\ DOMAIN bt_data_deque = 1 .. Len(bt_data_deque)
    BY LenProperties DEF TypeOK, QueueOK
<1>4. \A a \in DOMAIN bt_data_deque : bt_data_deque[a] \in Sample
    BY <1>3, ElementOfSeq DEF TypeOK, QueueOK
<1>5. \A m \in DOMAIN data_table : data_table[m] \in Sample
    BY DEF TypeOK, TrackOK
<1> QED
    BY <1>1, <1>2, <1>3, <1>4, <1>5 DEF TypeOK, ControlOK, PacketOK

LEMMA OrderStep == TypeOK /\ OrderInv /\ [Next]_vars => OrderInv'
<1> SUFFICES ASSUME TypeOK, OrderInv, [Next]_vars
             PROVE  OrderInv'
    OBVIOUS
<1>0. DOMAIN pc = Thread
    BY DEF TypeOK, ControlOK
<1>1. CASE /\ UNCHANGED <<pc["data"], bt_data_deque, track_vars, packet_vars, daemon>>
           /\ now' >= now
    <2>1. now' \in Nat
        BY TypeStep, TimeIsNat DEF TypeOK, ControlOK
    <2> QED
        BY <1>1, <2>1, TimesAreNat
           DEF OrderInv, QueueInOrder, AgeNotNegative, TableFromPast, track_vars,
               packet_vars
<1>2. CASE BtAppend
    <2>1. UNCHANGED <<data_table, current_time, now>> /\ UNCHANGED pc["data"]
        BY <1>0, <1>2 DEF BtAppend, Goto, Thread, track_vars, packet_vars
    <2>2. CASE UNCHANGED bt_data_deque
        BY <2>1, <2>2 DEF OrderInv, QueueInOrder, AgeNotNegative, TableFromPast
    <2>3. ASSUME bt_data_deque' = PushHead(bt_data_deque,
                     [mac |-> call.mac, rssi |-> call.rssi, time |-> now])
          PROVE  OrderInv'
        <3> DEFINE s == [mac |-> call.mac, rssi |-> call.rssi, time |-> now]
        <3>1. s \in Sample
            BY <1>2 DEF BtAppend, At, TypeOK, ScanOK, ControlOK, Call, Sample
        <3>2. /\ Len(bt_data_deque') = Len(bt_data_deque) + 1
              /\ \A a \in 1 .. Len(bt_data_deque) : bt_data_deque'[a] = bt_data_deque[a]
              /\ bt_data_deque'[Len(bt_data_deque) + 1] = s
            BY <2>3, <3>1, AppendProperties DEF PushHead, TypeOK, QueueOK
        <3>3. DOMAIN bt_data_deque' = 1 .. Len(bt_data_deque) + 1
            BY <2>3, <3>1, <3>2, AppendProperties, LenProperties
               DEF PushHead, TypeOK, QueueOK
        <3>4. s.time = now
            OBVIOUS
        <3> HIDE DEF s
        <3> DEFINE n == Len(bt_data_deque)
        <3>6. \A a, b \in 1 .. n + 1 :
                  a <= b => bt_data_deque'[a].time <= bt_data_deque'[b].time
            <4> SUFFICES ASSUME NEW a \in 1 .. n + 1, NEW b \in 1 .. n + 1, a <= b
                         PROVE  bt_data_deque'[a].time <= bt_data_deque'[b].time
                OBVIOUS
            <4>1. CASE b \in 1 .. n
                <5>1. a \in DOMAIN bt_data_deque /\ b \in DOMAIN bt_data_deque
                    BY <4>1, TimesAreNat
                <5>2. bt_data_deque[a].time <= bt_data_deque[b].time
                    BY <5>1 DEF OrderInv, QueueInOrder
                <5> QED
                    BY <3>2, <5>1, <5>2, TimesAreNat
            <4>2. CASE a \in 1 .. n /\ b = n + 1
                <5>1. bt_data_deque[a].time <= now
                    BY <4>2, TimesAreNat DEF OrderInv, QueueInOrder
                <5> QED
                    BY <3>2, <3>4, <4>2, <5>1
            <4>3. CASE a = n + 1 /\ b = n + 1
                BY <3>2, <3>4, <4>3, TimesAreNat
            <4> QED
                BY <4>1, <4>2, <4>3, TimesAreNat
        <3>7. ASSUME NEW a \in 1 .. n + 1
              PROVE  LET m == bt_data_deque'[a].mac IN
                     /\ bt_data_deque'[a].time <= now
                     /\ pc["data"] # "drain" /\ m \in DOMAIN data_table
                           => data_table[m].time <= bt_data_deque'[a].time
            <4>1. CASE a \in 1 .. n
                BY <3>2, <4>1, TimesAreNat DEF OrderInv, QueueInOrder
            <4>2. CASE a = n + 1
                BY <3>2, <3>4, <4>2, TimesAreNat DEF OrderInv, TableFromPast
            <4> QED
                BY <4>1, <4>2, TimesAreNat
        <3>5. QueueInOrder'
            BY <2>1, <3>3, <3>6, <3>7 DEF QueueInOrder
        <3> QED
            BY <2>1, <3>5 DEF OrderInv, AgeNotNegative, TableFromPast
    <2> QED
        BY <1>2, <2>2, <2>3 DEF BtAppend
<1>3. CASE MainCreateData
    BY <1>0, <1>3
       DEF MainCreateData, Create, Thread, queue_vars, track_vars, packet_vars,
           OrderInv, QueueInOrder, AgeNotNegative, TableFromPast, At, TypeOK, ControlOK
<1>4. CASE DataCreate \/ DataLock \/ DataGrowFails \/ DataSend \/ DataSleep
    BY <1>0, <1>4
       DEF DataCreate, DataLock, DataGrowFails, DataSend, DataSleep, Goto, At, Thread,
           queue_vars, track_vars, packet_vars,
           OrderInv, QueueInOrder, AgeNotNegative, TableFromPast
<1>5. CASE DataDrain
    <2>1. /\ UNCHANGED <<pc, now, current_time>>
          /\ pc["data"] = "drain"
          /\ bt_data_deque' = Rest
        BY <1>5 DEF DataDrain, At, packet_vars
    <2>2. /\ Popped \in Sample
          /\ Len(Rest) = Len(bt_data_deque) - 1
          /\ \A n \in 1 .. Len(Rest) : Rest[n] = bt_data_deque[n]
          /\ DOMAIN Rest = 1 .. Len(Rest)
        BY <1>5, PoppedAndRest, LenProperties DEF DataDrain, TypeOK
    <2>3. Popped.time <= now
        BY <1>5, PoppedAndRest, TimesAreNat
           DEF DataDrain, TypeOK, Popped, OrderInv, QueueInOrder
    <2>4. QueueInOrder'
        <3>1. DOMAIN Rest \subseteq DOMAIN bt_data_deque
            BY <2>2, TimesAreNat
        <3>2. \A a \in DOMAIN Rest : Rest[a] = bt_data_deque[a]
            BY <2>2
        <3> QED
            BY <2>1, <3>1, <3>2 DEF OrderInv, QueueInOrder
    <2>5. TableFromPast'
        BY <1>5, <2>1, <2>3 DEF DataDrain, Put, Without, OrderInv, TableFromPast
    <2> QED
        BY <2>1, <2>4, <2>5 DEF OrderInv, AgeNotNegative
<1>6. CASE DataUnlock
    BY <1>0, <1>6
       DEF DataUnlock, RoundTime, Goto, At, Thread, queue_vars, track_vars,
           OrderInv, QueueInOrder, AgeNotNegative, TableFromPast
<1>7. CASE DataPack
    <2>1. UNCHANGED <<pc, bt_data_deque, current_time, now>>
        BY <1>7 DEF DataPack, queue_vars
    <2>2. /\ DOMAIN data_table' \subseteq DOMAIN data_table
          /\ \A m \in DOMAIN data_table' : data_table'[m] = data_table[m]
        BY <1>7 DEF DataPack, Without
    <2> QED
        BY <2>1, <2>2 DEF OrderInv, QueueInOrder, AgeNotNegative, TableFromPast
<1> QED
    BY <1>1, <1>2, <1>3, <1>4, <1>5, <1>6, <1>7, DataFrame DEF DataNext, TypeOK

LEMMA OrderKept == Spec => []OrderInv
<1>1. Init => OrderInv
    <2> SUFFICES ASSUME Init PROVE OrderInv
        OBVIOUS
    <2>1. /\ bt_data_deque = <<>> /\ data_table = [m \in {} |-> m]
          /\ pc["data"] = "unborn"
        BY DEF Init, Empty, Thread
    <2>2. DOMAIN bt_data_deque = {} /\ DOMAIN data_table = {}
        BY <2>1
    <2> QED
        BY <2>1, <2>2 DEF OrderInv, QueueInOrder, AgeNotNegative, TableFromPast
<1> QED
    BY <1>1, OrderStep, TypeCorrect, PTL DEF Spec

\* Samples wait in the order they were taken, and outside a drain none is
\* older than what the table has of its beacon, though the drain takes them
\* newest first: a later drain never puts an older sample back.
THEOREM QueueOrdered == Spec => []QueueInOrder
<1>1. OrderInv => QueueInOrder
    BY DEF OrderInv
<1> QED
    BY <1>1, OrderKept, PTL

\* The unsigned difference of line 218 never wraps: no sample of the table is
\* newer than the time the packet was begun.
THEOREM AgesNotNegative == Spec => []AgeNotNegative
<1>1. OrderInv => AgeNotNegative
    BY DEF OrderInv
<1> QED
    BY <1>1, OrderKept, PTL

-----------------------------------------------------------------------------
(***************************************************************************)
(* The two indexes of the beacons and the packet, when neither the key of  *)
(* a new beacon (line 178) nor its node in the table can fail to be        *)
(* allocated.                                                              *)
(***************************************************************************)
IndexFaults == {"key", "entry"}

\* While a packet is built each turn adds one entry and may drop one beacon,
\* and the beacons still to come are not in it yet.
PackingInv ==
    /\ pc["data"] # "pack" => i = 1 /\ tx_buf = <<>>
    /\ pc["data"] = "pack" =>
          /\ Len(tx_buf) = i - 1
          /\ i - 1 <= num_vals
          /\ Len(key_list) <= num_vals
          /\ num_vals <= Len(key_list) + (i - 1)
    /\ Distinct(tx_buf)
    /\ \A a \in DOMAIN tx_buf, b \in DOMAIN key_list :
          b >= i => tx_buf[a].mac # key_list[b]

IndexInv == BeaconsListedOnce /\ PackingInv /\ DaemonSound

LEMMA ListTypes ==
    ASSUME TypeOK
    PROVE  /\ Len(key_list) \in Nat /\ DOMAIN key_list = 1 .. Len(key_list)
           /\ Len(tx_buf) \in Nat /\ DOMAIN tx_buf = 1 .. Len(tx_buf)
           /\ i \in Nat /\ i >= 1 /\ num_vals \in Nat
           /\ \A b \in DOMAIN key_list : key_list[b] \in Mac
    BY LenProperties, ElementOfSeq DEF TypeOK, TrackOK, PacketOK

LEMMA DrainIndex ==
    ASSUME TypeOK, IndexInv, DataDrain, Faults \cap IndexFaults = {}
    PROVE  IndexInv'
<1>1. pc["data"] = "drain" /\ UNCHANGED <<pc, num_vals, i, tx_buf, daemon>>
    BY DEF DataDrain, At, packet_vars
<1>2. Popped.mac \in Mac
    BY PoppedAndRest DEF DataDrain, TypeOK, Sample
<1>3. data_table' = Put(data_table, Popped)
    BY DEF DataDrain, Fails, IndexFaults
<1>4. DOMAIN data_table' = DOMAIN data_table \cup {Popped.mac}
    BY <1>3 DEF Put
<1>5. BeaconsListedOnce'
    <2>1. CASE Known(Popped.mac)
        <3>1. UNCHANGED key_list /\ DOMAIN data_table' = DOMAIN data_table
            BY <1>4, <2>1 DEF DataDrain, Known
        <3> QED
            BY <3>1 DEF IndexInv, BeaconsListedOnce
    <2>2. CASE ~Known(Popped.mac)
        <3>1. key_list' = Append(key_list, Popped.mac)
            BY <2>2 DEF DataDrain, Fails, IndexFaults
        <3>2. /\ Len(key_list') = Len(key_list) + 1
              /\ \A b \in 1 .. Len(key_list) : key_list'[b] = key_list[b]
              /\ key_list'[Len(key_list) + 1] = Popped.mac
              /\ DOMAIN key_list' = 1 .. Len(key_list) + 1
            BY <1>2, <3>1, AppendProperties, LenProperties DEF TypeOK, TrackOK
        <3>3. Popped.mac \notin {key_list[b] : b \in DOMAIN key_list}
            BY <2>2 DEF Known, IndexInv, BeaconsListedOnce
        <3>4. \A a, b \in DOMAIN key_list' : key_list'[a] = key_list'[b] => a = b
            BY <3>2, <3>3, ListTypes DEF IndexInv, BeaconsListedOnce
        <3>5. {key_list'[b] : b \in DOMAIN key_list'}
                = {key_list[b] : b \in DOMAIN key_list} \cup {Popped.mac}
            BY <3>2, ListTypes
        <3> QED
            BY <1>4, <3>4, <3>5 DEF IndexInv, BeaconsListedOnce
    <2> QED
        BY <2>1, <2>2
<1>6. PackingInv'
    BY <1>1 DEF IndexInv, PackingInv, Distinct
<1> QED
    BY <1>1, <1>5, <1>6 DEF IndexInv, DaemonSound, Distinct

\* One turn of the packet loop packs the beacon at the index, and evicts it if it
\* has expired.
LEMMA PackTurn ==
    ASSUME TypeOK, IndexInv, DataPack
    PROVE  LET m == key_list[i] IN
           /\ pc["data"] = "pack"
           /\ UNCHANGED <<pc, bt_data_deque, num_vals, current_time, daemon, now>>
           /\ i \in 1 .. Len(key_list) /\ i' = i + 1
           /\ m \in Mac /\ m \in DOMAIN data_table
           /\ data_table[m] \in Sample /\ data_table[m].mac = m
           /\ Len(tx_buf') = Len(tx_buf) + 1
           /\ DOMAIN tx_buf' = 1 .. Len(tx_buf) + 1
           /\ \A a \in 1 .. Len(tx_buf) : tx_buf'[a] = tx_buf[a]
           /\ tx_buf'[Len(tx_buf) + 1] = data_table[m]
           /\ \/ ~Expired(data_table[m]) /\ UNCHANGED track_vars
              \/ /\ Expired(data_table[m])
                 /\ key_list' = RemoveKey(i)
                 /\ data_table' = Without(data_table, {m})
<1> DEFINE m == key_list[i]
<1>1. /\ pc["data"] = "pack"
      /\ UNCHANGED <<pc, bt_data_deque, num_vals, current_time, daemon, now>>
      /\ i \in 1 .. Len(key_list) /\ i' = i + 1
    BY ListTypes DEF DataPack, At, Following, queue_vars
<1>2. m \in Mac /\ m \in DOMAIN data_table
    BY <1>1, ListTypes DEF IndexInv, BeaconsListedOnce
<1>3. data_table[m] \in Sample /\ data_table[m].mac = m
    BY <1>2 DEF TypeOK, TrackOK
<1>4. tx_buf' = Append(tx_buf, data_table[m])
    BY <1>2 DEF DataPack
<1>5. /\ Len(tx_buf') = Len(tx_buf) + 1
      /\ \A a \in 1 .. Len(tx_buf) : tx_buf'[a] = tx_buf[a]
      /\ tx_buf'[Len(tx_buf) + 1] = data_table[m]
      /\ DOMAIN tx_buf' = 1 .. Len(tx_buf) + 1
    BY <1>3, <1>4, AppendProperties, LenProperties DEF TypeOK, PacketOK
<1>6. \/ ~Expired(data_table[m]) /\ UNCHANGED track_vars
      \/ /\ Expired(data_table[m])
         /\ key_list' = RemoveKey(i)
         /\ data_table' = Without(data_table, {m})
    BY <1>2 DEF DataPack, track_vars
<1> QED
    BY <1>1, <1>2, <1>3, <1>5, <1>6

LEMMA PackIndex ==
    ASSUME TypeOK, IndexInv, DataPack
    PROVE  IndexInv'
<1> DEFINE m == key_list[i]
<1>1. /\ pc["data"] = "pack" /\ UNCHANGED <<pc, num_vals, daemon>>
      /\ i \in 1 .. Len(key_list) /\ i' = i + 1
      /\ m \in Mac /\ m \in DOMAIN data_table
    BY PackTurn
<1>2. /\ Len(tx_buf') = Len(tx_buf) + 1
      /\ \A a \in 1 .. Len(tx_buf) : tx_buf'[a] = tx_buf[a]
      /\ tx_buf'[Len(tx_buf) + 1].mac = m
      /\ DOMAIN tx_buf' = 1 .. Len(tx_buf) + 1
    BY PackTurn
<1>3. \A a \in 1 .. Len(tx_buf), b \in i .. Len(key_list) :
          tx_buf[a].mac # key_list[b]
    BY <1>1, ListTypes DEF IndexInv, PackingInv
<1>4. Distinct(tx_buf)'
    <2> SUFFICES ASSUME NEW a \in 1 .. Len(tx_buf) + 1, NEW b \in 1 .. Len(tx_buf) + 1,
                        tx_buf'[a].mac = tx_buf'[b].mac
                 PROVE  a = b
        BY <1>2 DEF Distinct
    <2>1. CASE a \in 1 .. Len(tx_buf) /\ b \in 1 .. Len(tx_buf)
        BY <1>2, <2>1, ListTypes DEF IndexInv, PackingInv, Distinct
    <2>2. \A k \in 1 .. Len(tx_buf) : tx_buf'[k].mac # m
        BY <1>1, <1>2, <1>3, ListTypes
    <2> QED
        BY <1>2, <2>1, <2>2, ListTypes
\* the keys are as before, or the one at i is gone
<1>5. \/ UNCHANGED <<key_list, data_table>>
      \/ /\ key_list' = RemoveKey(i)
         /\ data_table' = Without(data_table, {m})
    BY PackTurn DEF track_vars
<1>6. CASE UNCHANGED <<key_list, data_table>>
    <2>1. BeaconsListedOnce'
        BY <1>6 DEF IndexInv, BeaconsListedOnce
    <2>2. \A a \in DOMAIN tx_buf', b \in DOMAIN key_list' :
              b >= i' => tx_buf'[a].mac # key_list'[b]
        <3> SUFFICES ASSUME NEW a \in DOMAIN tx_buf', NEW b \in DOMAIN key_list', b >= i'
                     PROVE  tx_buf'[a].mac # key_list'[b]
            OBVIOUS
        <3>1. b \in i .. Len(key_list) /\ b # i /\ key_list'[b] = key_list[b]
            BY <1>1, <1>6, ListTypes
        <3>2. CASE a \in 1 .. Len(tx_buf)
            BY <1>2, <1>3, <3>1, <3>2
        <3>3. CASE a = Len(tx_buf) + 1
            BY <1>1, <1>2, <3>1, <3>3, ListTypes DEF IndexInv, BeaconsListedOnce
        <3> QED
            BY <1>2, <3>2, <3>3, ListTypes
    <2>3. PackingInv'
        BY <1>1, <1>2, <1>4, <1>6, <2>2, ListTypes DEF IndexInv, PackingInv
    <2> QED
        BY <1>1, <2>1, <2>3 DEF IndexInv, DaemonSound, Distinct
<1>7. CASE key_list' = RemoveKey(i) /\ data_table' = Without(data_table, {m})
    <2>1. /\ Len(key_list') = Len(key_list) - 1
          /\ \A k \in 1 .. Len(key_list) - 1 :
                key_list'[k] = key_list[IF k < i THEN k ELSE k + 1]
          /\ DOMAIN key_list' = 1 .. Len(key_list) - 1
        BY <1>1, <1>7, RemoveKeyProperties, LenProperties DEF TypeOK, TrackOK
    <2>2. DOMAIN data_table' = DOMAIN data_table \ {m}
        BY <1>7 DEF Without
    <2> DEFINE Old(k) == IF k < i THEN k ELSE k + 1
    <2>3. \A a, b \in DOMAIN key_list' : key_list'[a] = key_list'[b] => a = b
        <3> SUFFICES ASSUME NEW a \in DOMAIN key_list', NEW b \in DOMAIN key_list',
                            key_list'[a] = key_list'[b]
                     PROVE  a = b
            OBVIOUS
        <3>1. /\ a \in Nat /\ b \in Nat /\ i \in Nat
              /\ Old(a) \in DOMAIN key_list /\ Old(b) \in DOMAIN key_list
            BY <1>1, <2>1, ListTypes
        <3>2. key_list[Old(a)] = key_list[Old(b)]
            BY <2>1
        <3>3. Old(a) = Old(b)
            BY <3>1, <3>2 DEF IndexInv, BeaconsListedOnce
        <3> QED
            BY <3>1, <3>3
    <2>4. \A a \in DOMAIN key_list' : key_list'[a] \in DOMAIN data_table \ {m}
        BY <1>1, <2>1, ListTypes DEF IndexInv, BeaconsListedOnce
    <2>5. ASSUME NEW x \in DOMAIN data_table \ {m}
          PROVE  \E a \in DOMAIN key_list' : key_list'[a] = x
        <3>1. PICK b \in DOMAIN key_list : key_list[b] = x
            BY DEF IndexInv, BeaconsListedOnce
        <3>2. b # i /\ b \in 1 .. Len(key_list)
            BY <3>1, ListTypes
        <3>3. CASE b < i
            <4>1. b \in 1 .. Len(key_list) - 1 /\ key_list'[b] = x
                BY <1>1, <2>1, <3>1, <3>2, <3>3, ListTypes
            <4> QED
                BY <2>1, <4>1
        <3>4. CASE b > i
            <4>1. b - 1 \in 1 .. Len(key_list) - 1 /\ key_list'[b - 1] = x
                BY <1>1, <2>1, <3>1, <3>2, <3>4, ListTypes
            <4> QED
                BY <2>1, <4>1
        <3> QED
            BY <1>1, <3>2, <3>3, <3>4, ListTypes
    <2>6. BeaconsListedOnce'
        BY <2>2, <2>3, <2>4, <2>5 DEF BeaconsListedOnce
    <2>7. \A a \in DOMAIN tx_buf', b \in DOMAIN key_list' :
              b >= i' => tx_buf'[a].mac # key_list'[b]
        <3> SUFFICES ASSUME NEW a \in DOMAIN tx_buf', NEW b \in DOMAIN key_list', b >= i'
                     PROVE  tx_buf'[a].mac # key_list'[b]
            OBVIOUS
        <3>1. /\ b + 1 \in i .. Len(key_list) /\ b + 1 # i
              /\ key_list'[b] = key_list[b + 1]
            BY <1>1, <2>1, ListTypes
        <3>2. CASE a \in 1 .. Len(tx_buf)
            BY <1>2, <1>3, <3>1, <3>2
        <3>3. CASE a = Len(tx_buf) + 1
            BY <1>1, <1>2, <3>1, <3>3, ListTypes DEF IndexInv, BeaconsListedOnce
        <3> QED
            BY <1>2, <3>2, <3>3, ListTypes
    <2>8. PackingInv'
        BY <1>1, <1>2, <1>4, <2>1, <2>7, ListTypes DEF IndexInv, PackingInv
    <2> QED
        BY <1>1, <2>6, <2>8 DEF IndexInv, DaemonSound, Distinct
<1> QED
    BY <1>5, <1>6, <1>7

LEMMA IndexStep ==
    ASSUME TypeOK, IndexInv, [Next]_vars, Faults \cap IndexFaults = {}
    PROVE  IndexInv'
<1>0. DOMAIN pc = Thread
    BY DEF TypeOK, ControlOK
<1>1. CASE UNCHANGED <<pc["data"], bt_data_deque, track_vars, packet_vars, daemon>>
    BY <1>1 DEF IndexInv, BeaconsListedOnce, PackingInv, DaemonSound, Distinct,
                track_vars, packet_vars
<1>2. CASE BtAppend
    BY <1>0, <1>2 DEF BtAppend, Goto, Thread, track_vars, packet_vars, IndexInv,
                      BeaconsListedOnce, PackingInv, DaemonSound, Distinct
<1>3. CASE \/ MainCreateData \/ DataCreate \/ DataLock \/ DataGrowFails \/ DataSleep
    <2>1. /\ UNCHANGED <<track_vars, packet_vars, daemon>>
          /\ pc["data"] # "pack" /\ pc'["data"] # "pack"
        BY <1>0, <1>3 DEF MainCreateData, Create, DataCreate, DataLock, DataGrowFails,
                          DataSleep, Goto, At, Thread, TypeOK, ControlOK
    <2> QED
        BY <2>1 DEF IndexInv, BeaconsListedOnce, PackingInv, DaemonSound, Distinct,
                    track_vars, packet_vars
<1>4. CASE DataDrain
    BY <1>4, DrainIndex
<1>5. CASE DataUnlock
    <2>1. /\ UNCHANGED <<track_vars, i, tx_buf, daemon>>
          /\ i = 1 /\ tx_buf = <<>>
          /\ pc'["data"] = "pack" => num_vals' = Len(key_list)
        BY <1>0, <1>5 DEF DataUnlock, Goto, At, Thread, IndexInv, PackingInv
    <2>2. PackingInv'
        BY <2>1, ListTypes DEF PackingInv, Distinct, track_vars
    <2> QED
        BY <2>1, <2>2 DEF IndexInv, BeaconsListedOnce, DaemonSound, Distinct, track_vars
<1>6. CASE DataPack
    BY <1>6, PackIndex
<1>7. CASE DataSend
    <2>1. /\ pc["data"] = "pack" /\ pc'["data"] = "sleep" /\ i > Len(key_list)
          /\ UNCHANGED track_vars /\ i' = 1 /\ tx_buf' = <<>>
        BY <1>0, <1>7 DEF DataSend, Goto, At, Thread
    <2>2. PackingInv'
        BY <2>1 DEF PackingInv, Distinct
    <2>3. DaemonSound'
        <3>1. CASE UNCHANGED daemon
            BY <3>1 DEF IndexInv, DaemonSound, Distinct
        <3>2. CASE daemon' = [count |-> num_vals, entries |-> tx_buf]
            BY <2>1, <3>2, ListTypes DEF IndexInv, PackingInv, DaemonSound, Distinct
        <3> QED
            BY <1>7, <3>1, <3>2 DEF DataSend
    <2> QED
        BY <2>1, <2>2, <2>3 DEF IndexInv, BeaconsListedOnce, track_vars
<1> QED
    BY <1>1, <1>2, <1>3, <1>4, <1>5, <1>6, <1>7, DataFrame DEF DataNext, TypeOK

LEMMA IndexKept ==
    ASSUME Faults \cap IndexFaults = {}
    PROVE  Spec => []IndexInv
<1>1. Init => IndexInv
    <2> SUFFICES ASSUME Init PROVE IndexInv
        OBVIOUS
    <2>1. /\ key_list = <<>> /\ data_table = [m \in {} |-> m]
          /\ i = 1 /\ tx_buf = <<>> /\ daemon = NoPacket /\ pc["data"] = "unborn"
        BY DEF Init, Empty, Thread
    <2>2. DOMAIN key_list = {} /\ DOMAIN data_table = {} /\ DOMAIN tx_buf = {}
        BY <2>1
    <2>3. daemon.count = 0 /\ daemon.entries = <<>>
        BY <2>1 DEF NoPacket
    <2> QED
        BY <2>1, <2>2, <2>3
           DEF IndexInv, BeaconsListedOnce, PackingInv, DaemonSound, Distinct
<1>2. TypeOK /\ IndexInv /\ [Next]_vars => IndexInv'
    BY IndexStep
<1> QED
    BY <1>1, <1>2, TypeCorrect, PTL DEF Spec

\* The list and the table index the same beacons in every reachable state, if
\* neither the duplicate of a key nor an entry of the table fails to be
\* allocated (lines 179 and 187): unlisted beacons are never evicted, and
\* beacons listed twice are sent twice.
THEOREM IndexesAgree ==
    ASSUME Faults \cap IndexFaults = {}
    PROVE  Spec => []BeaconsListedOnce
BY IndexKept, PTL DEF IndexInv

\* The entries of a packet have different addresses, so their number is at
\* most that of the addresses there are.
LEMMA DistinctFits ==
    ASSUME NEW s \in Seq(Sample), Distinct(s)
    PROVE  Len(s) <= Cardinality(Mac)
<1> DEFINE f == [a \in 1 .. Len(s) |-> s[a].mac]
<1>1. Len(s) \in Nat /\ DOMAIN s = 1 .. Len(s)
    BY LenProperties
<1>2. \A a \in 1 .. Len(s) : s[a] \in Sample
    BY ElementOfSeq
<1>3. f \in [1 .. Len(s) -> Mac]
    BY <1>2 DEF Sample
<1>4. \A a, b \in 1 .. Len(s) : f[a] = f[b] => a = b
    BY <1>1 DEF Distinct
<1>5. IsFiniteSet(1 .. Len(s)) /\ Cardinality(1 .. Len(s)) = Len(s)
    <2>1. 1 \in Int /\ Len(s) \in Int
        BY <1>1
    <2>2. IF 1 > Len(s) THEN Len(s) = 0 ELSE Len(s) - 1 + 1 = Len(s)
        BY <1>1
    <2> HIDE DEF f
    <2> QED
        BY <2>1, <2>2, FS_Interval
<1>6. IsFiniteSet(Mac) /\ Cardinality(Mac) \in Nat
    BY RoomAssumption, FS_CardinalityType
<1>7. ~(Cardinality(Mac) < Cardinality(1 .. Len(s)))
    <2> HIDE DEF f
    <2> QED
        BY <1>3, <1>4, <1>5, <1>6, FS_PigeonHole
<1> QED
    BY <1>1, <1>5, <1>6, <1>7

\* Whatever is evicted while a packet is built, the daemon gets each beacon
\* once, and between half as many entries as the header announces and as many;
\* tx_buf never overflows, with room for as many entries as there are beacons.
THEOREM PacketsSound ==
    ASSUME Faults \cap IndexFaults = {}
    PROVE  Spec => []PacketSound
<1>1. Cardinality(Mac) \in Nat /\ Cardinality(Mac) <= TxRoom /\ TxRoom \in Nat
    BY RoomAssumption, BoundsAssumption, FS_CardinalityType
<1>2. TypeOK /\ IndexInv => PacketFits
    <2> SUFFICES ASSUME TypeOK, IndexInv PROVE PacketFits
        OBVIOUS
    <2>1. tx_buf \in Seq(Sample) /\ Distinct(tx_buf)
        BY DEF TypeOK, PacketOK, IndexInv, PackingInv
    <2>2. Len(tx_buf) <= Cardinality(Mac) /\ Len(tx_buf) \in Nat
        BY <2>1, DistinctFits, LenProperties
    <2> QED
        BY <1>1, <2>1, <2>2 DEF PacketFits
<1>3. IndexInv => DaemonSound
    BY DEF IndexInv
<1> QED
    BY <1>2, <1>3, IndexKept, TypeCorrect, PTL DEF PacketSound

-----------------------------------------------------------------------------
(***************************************************************************)
(* The scanner implements BeaconReport, under the same assumption.         *)
(***************************************************************************)
\* While a packet is built, an entry is what the table has of its beacon or has
\* expired, and if none has expired every beacon passed so far is in the packet.
BuiltInv ==
    pc["data"] = "pack" =>
        /\ current_time <= now
        /\ \A a \in DOMAIN tx_buf :
              \/ tx_buf[a].mac \in DOMAIN data_table /\ data_table[tx_buf[a].mac] = tx_buf[a]
              \/ tx_buf[a].mac \notin DOMAIN data_table /\ Expired(tx_buf[a])
        /\ Packed \subseteq DOMAIN data_table =>
              \A k \in DOMAIN key_list : k < i => key_list[k] \in Packed

\* Each turn of the loop keeps what BuiltInv says of the packet.
LEMMA PackBuilt ==
    ASSUME TypeOK, IndexInv, BuiltInv, DataPack
    PROVE  BuiltInv'
<1> DEFINE m == key_list[i]
           n == Len(tx_buf)
<1>1. /\ pc["data"] = "pack" /\ UNCHANGED <<current_time, now>>
      /\ i \in 1 .. Len(key_list) /\ i' = i + 1
      /\ m \in DOMAIN data_table /\ data_table[m].mac = m
      /\ DOMAIN tx_buf' = 1 .. n + 1
      /\ \A a \in 1 .. n : tx_buf'[a] = tx_buf[a]
      /\ tx_buf'[n + 1] = data_table[m]
    BY PackTurn
<1>2. n \in Nat /\ DOMAIN tx_buf = 1 .. n
    BY ListTypes
<1>3. \A a \in 1 .. n : tx_buf[a].mac # m
    BY <1>1, <1>2, ListTypes DEF IndexInv, PackingInv
<1>4. Packed' = Packed \cup {m}
    BY <1>1, <1>2 DEF Packed
<1>5. \A s : Expired(s)' <=> Expired(s)
    BY <1>1 DEF Expired
<1>6. CASE ~Expired(data_table[m]) /\ UNCHANGED track_vars
    <2>1. UNCHANGED <<key_list, data_table>>
        BY <1>6 DEF track_vars
    <2>2. ASSUME NEW a \in DOMAIN tx_buf'
          PROVE  \/ /\ tx_buf'[a].mac \in DOMAIN data_table
                    /\ data_table[tx_buf'[a].mac] = tx_buf'[a]
                 \/ tx_buf'[a].mac \notin DOMAIN data_table /\ Expired(tx_buf'[a])
        <3>1. CASE a \in 1 .. n
            BY <1>1, <1>2, <3>1 DEF BuiltInv
        <3>2. CASE a = n + 1
            BY <1>1, <3>2
        <3> QED
            BY <1>1, <1>2, <3>1, <3>2
    <2>3. ASSUME Packed' \subseteq DOMAIN data_table, NEW k \in DOMAIN key_list, k < i + 1
          PROVE  key_list[k] \in Packed'
        <3>1. CASE k < i
            BY <1>1, <1>4, <2>3, <3>1 DEF BuiltInv
        <3>2. CASE k = i
            BY <1>4, <3>2
        <3> QED
            BY <1>1, <2>3, <3>1, <3>2, ListTypes
    <2> QED
        BY <1>1, <1>5, <2>1, <2>2, <2>3 DEF BuiltInv
<1>7. CASE /\ Expired(data_table[m])
           /\ data_table' = Without(data_table, {m})
    <2>1. /\ DOMAIN data_table' = DOMAIN data_table \ {m}
          /\ \A x \in DOMAIN data_table' : data_table'[x] = data_table[x]
        BY <1>7 DEF Without
    <2>2. ASSUME NEW a \in DOMAIN tx_buf'
          PROVE  \/ /\ tx_buf'[a].mac \in DOMAIN data_table'
                    /\ data_table'[tx_buf'[a].mac] = tx_buf'[a]
                 \/ tx_buf'[a].mac \notin DOMAIN data_table' /\ Expired(tx_buf'[a])
        <3>1. CASE a \in 1 .. n
            BY <1>1, <1>2, <1>3, <2>1, <3>1 DEF BuiltInv
        <3>2. CASE a = n + 1
            BY <1>1, <1>7, <2>1, <3>2
        <3> QED
            BY <1>1, <1>2, <3>1, <3>2
    <2>3. ~(Packed' \subseteq DOMAIN data_table')
        BY <1>4, <2>1
    <2> QED
        BY <1>1, <1>5, <2>2, <2>3 DEF BuiltInv
<1> QED
    BY <1>6, <1>7, PackTurn

LEMMA BuiltStep ==
    ASSUME TypeOK, IndexInv, BuiltInv, [Next]_vars
    PROVE  BuiltInv'
<1>0. DOMAIN pc = Thread
    BY DEF TypeOK, ControlOK
<1>1. CASE /\ UNCHANGED <<pc["data"], bt_data_deque, track_vars, packet_vars, daemon>>
           /\ now' >= now
    <2>1. now \in Nat /\ now' \in Nat /\ current_time \in Nat
        BY TypeStep, TimeIsNat DEF TypeOK, ControlOK, PacketOK
    <2> QED
        BY <1>1, <2>1 DEF BuiltInv, Packed, Expired, track_vars, packet_vars
<1>2. CASE BtAppend
    <2>1. UNCHANGED <<pc["data"], track_vars, packet_vars, now>>
        BY <1>0, <1>2 DEF BtAppend, Goto, Thread
    <2> QED
        BY <2>1 DEF BuiltInv, Packed, Expired, track_vars, packet_vars
<1>3. CASE MainCreateData \/ DataCreate \/ DataLock \/ DataDrain \/ DataSend \/ DataSleep
    <2>1. pc'["data"] # "pack"
        BY <1>0, <1>3 DEF MainCreateData, Create, DataCreate, DataLock, DataDrain, DataSend,
                          DataSleep, Goto, At, Thread, TypeOK, ControlOK
    <2> QED
        BY <2>1 DEF BuiltInv
<1>4. CASE DataGrowFails
    BY <1>4 DEF DataGrowFails, At, BuiltInv
<1>5. CASE DataUnlock
    <2>1. /\ UNCHANGED <<now, key_list, tx_buf>>
          /\ i' = 1 /\ tx_buf' = <<>>
          /\ pc'["data"] = "pack" => current_time' = now
        BY <1>0, <1>5 DEF DataUnlock, RoundTime, Goto, At, Thread, track_vars, IndexInv,
                          PackingInv
    <2>2. now \in Nat /\ \A k \in DOMAIN key_list : ~(k < 1)
        BY TimesAreNat, ListTypes
    <2> QED
        BY <2>1, <2>2 DEF BuiltInv
<1>6. CASE DataPack
    BY <1>6, PackBuilt
<1> QED
    BY <1>1, <1>2, <1>3, <1>4, <1>5, <1>6, DataFrame DEF DataNext, TypeOK

LEMMA BuiltKept ==
    ASSUME Faults \cap IndexFaults = {}
    PROVE  Spec => []BuiltInv
<1>1. Init => BuiltInv
    BY DEF Init, BuiltInv, Thread
<1>2. TypeOK /\ IndexInv /\ BuiltInv /\ [Next]_vars => BuiltInv'
    BY BuiltStep
<1> QED
    BY <1>1, <1>2, IndexKept, TypeCorrect, PTL DEF Spec

\* What counts as tracked: the table, and of the beacons evicted since the packet was
\* begun the entry in it.
TrackedParts ==
    /\ DOMAIN Tracked = DOMAIN data_table \cup Packed
    /\ \A m \in DOMAIN data_table : Tracked[m] = data_table[m]
    /\ \A a \in DOMAIN tx_buf : Tracked[tx_buf[a].mac] = tx_buf[a]

LEMMA TrackedNow == IndexInv /\ BuiltInv => TrackedParts
<1> SUFFICES ASSUME IndexInv, BuiltInv PROVE TrackedParts
    OBVIOUS
<1>1. DOMAIN Tracked = DOMAIN data_table \cup Packed
    BY DEF Tracked
<1>2. \A m \in DOMAIN data_table : Tracked[m] = data_table[m]
    BY DEF Tracked
<1>3. ASSUME NEW a \in DOMAIN tx_buf
      PROVE  Tracked[tx_buf[a].mac] = tx_buf[a]
    <2>1. pc["data"] = "pack"
        BY DEF IndexInv, PackingInv
    <2>2. CASE tx_buf[a].mac \in DOMAIN data_table
        BY <1>2, <2>1, <2>2 DEF BuiltInv
    <2>3. CASE tx_buf[a].mac \notin DOMAIN data_table
        <3>1. PackedSample(tx_buf[a].mac) = tx_buf[a]
            BY DEF PackedSample, IndexInv, PackingInv, Distinct
        <3> QED
            BY <2>3, <3>1 DEF Tracked, Packed
    <2> QED
        BY <2>2, <2>3
<1> QED
    BY <1>1, <1>2, <1>3 DEF TrackedParts

LEMMA TrackedNext == IndexInv' /\ BuiltInv' => TrackedParts'
    BY TrackedNow, PTL

\* What BeaconReport sees of a step that leaves the table and the packet alone.
LEMMA TrackedSame ==
    ASSUME UNCHANGED <<data_table, tx_buf>>
    PROVE  Tracked' = Tracked
    BY DEF Tracked, Packed, PackedSample

\* The callback hears a sample.
LEMMA HearStep ==
    ASSUME TypeOK, BtAppend, bt_data_deque' # bt_data_deque
    PROVE  Reports!Next
<1>1. /\ UNCHANGED <<data_table, tx_buf, daemon, now>>
      /\ bt_data_deque' = Append(bt_data_deque,
             [mac |-> call.mac, rssi |-> call.rssi, time |-> now])
    BY DEF BtAppend, PushHead, track_vars, packet_vars
<1>2. call.mac \in Mac /\ call.rssi \in Readings
    BY DEF BtAppend, At, TypeOK, ScanOK, ControlOK, Call
<1>3. Tracked' = Tracked
    BY <1>1, TrackedSame
<1> QED
    BY <1>1, <1>2, <1>3 DEF Reports!Next, Reports!Hear

\* The drain absorbs the sample at the head of the deque.
LEMMA AbsorbStep ==
    ASSUME TypeOK, IndexInv, DataDrain, Faults \cap IndexFaults = {}
    PROVE  Reports!Next
<1> DEFINE n == Len(bt_data_deque)
<1>1. /\ UNCHANGED <<tx_buf, daemon, now>>
      /\ tx_buf = <<>>
      /\ bt_data_deque' = Rest
      /\ data_table' = Put(data_table, Popped)
    BY DEF DataDrain, At, Fails, IndexFaults, packet_vars, IndexInv, PackingInv
<1>2. Packed = {} /\ Packed' = {}
    BY <1>1 DEF Packed
<1>3. Tracked = data_table /\ Tracked' = data_table'
    <2>1. data_table = [m \in DOMAIN data_table |-> data_table[m]]
        BY DEF TypeOK, TrackOK
    <2>2. data_table' = [m \in DOMAIN data_table' |-> data_table'[m]]
        BY <1>1 DEF Put
    <2> QED
        BY <1>2, <2>1, <2>2 DEF Tracked
<1>4. n \in DOMAIN bt_data_deque /\ bt_data_deque[n] = Popped
    BY PoppedAndRest, TimesAreNat DEF DataDrain, TypeOK, Popped
<1>5. Rest = SubSeq(bt_data_deque, 1, n - 1) \o SubSeq(bt_data_deque, n + 1, n)
    <2>1. n \in Nat /\ Rest \in Seq(Sample)
        BY PoppedAndRest DEF DataDrain, TypeOK
    <2>2. SubSeq(bt_data_deque, n + 1, n) = <<>>
        BY <2>1
    <2> QED
        BY <2>1, <2>2, ConcatEmptySeq DEF Rest
<1>6. Tracked' = [m \in DOMAIN Tracked \cup {bt_data_deque[n].mac} |->
                    IF m = bt_data_deque[n].mac THEN bt_data_deque[n] ELSE Tracked[m]]
    BY <1>1, <1>3, <1>4 DEF Put
<1> QED
    BY <1>1, <1>4, <1>5, <1>6 DEF Reports!Next, Reports!Absorb

\* A turn of the packet loop changes nothing that BeaconReport sees: the beacon it
\* evicts is in the packet.
LEMMA PackStutters ==
    ASSUME TypeOK, IndexInv, BuiltInv, IndexInv', BuiltInv', DataPack
    PROVE  UNCHANGED Reports!vars
<1> DEFINE m == key_list[i]
           n == Len(tx_buf)
<1>1. /\ UNCHANGED <<bt_data_deque, daemon, now>>
      /\ m \in DOMAIN data_table /\ data_table[m].mac = m
      /\ DOMAIN tx_buf' = 1 .. n + 1 /\ DOMAIN tx_buf = 1 .. n /\ n \in Nat
      /\ \A a \in 1 .. n : tx_buf'[a] = tx_buf[a]
      /\ tx_buf'[n + 1] = data_table[m]
      /\ \/ data_table' = data_table
         \/ data_table' = Without(data_table, {m})
    BY PackTurn, ListTypes DEF track_vars
<1>2. TrackedParts /\ TrackedParts'
    BY TrackedNow, TrackedNext
<1>3. Packed' = Packed \cup {m}
    BY <1>1 DEF Packed
<1>4. /\ DOMAIN data_table' \subseteq DOMAIN data_table
      /\ DOMAIN data_table \subseteq DOMAIN data_table' \cup {m}
      /\ \A x \in DOMAIN data_table' : data_table'[x] = data_table[x]
    BY <1>1 DEF Without
<1>5. DOMAIN Tracked' = DOMAIN Tracked
    BY <1>1, <1>2, <1>3, <1>4 DEF TrackedParts
<1>6. ASSUME NEW x \in DOMAIN Tracked
      PROVE  Tracked'[x] = Tracked[x]
    <2>1. CASE x \in DOMAIN data_table'
        BY <1>2, <1>4, <2>1 DEF TrackedParts
    <2>2. CASE x = m
        BY <1>1, <1>2, <2>2 DEF TrackedParts
    <2>3. CASE x \in Packed
        <3>1. PICK a \in DOMAIN tx_buf : tx_buf[a].mac = x
            BY <2>3 DEF Packed
        <3> QED
            BY <1>1, <1>2, <3>1 DEF TrackedParts
    <2> QED
        BY <1>2, <1>4, <2>1, <2>2, <2>3 DEF TrackedParts
<1>7. Tracked' = Tracked
    <2>1. Tracked = [x \in DOMAIN Tracked |-> Tracked[x]]
        BY DEF Tracked
    <2>2. Tracked' = [x \in DOMAIN Tracked' |-> Tracked'[x]]
        BY DEF Tracked
    <2> QED
        BY <1>5, <1>6, <2>1, <2>2
<1> QED
    BY <1>1, <1>7 DEF Reports!vars

\* Sending the packet is the report: it carries the beacons packed, and drops those
\* among them that were evicted.
LEMMA SendStep ==
    ASSUME TypeOK, IndexInv, BuiltInv, DataSend
    PROVE  Reports!Next
<1> DEFINE carried == Packed
           dropped == Packed \ DOMAIN data_table
<1>1. /\ pc["data"] = "pack" /\ i > Len(key_list)
      /\ UNCHANGED <<bt_data_deque, key_list, data_table, now>>
      /\ tx_buf' = <<>>
      /\ daemon' = [count |-> num_vals, entries |-> tx_buf] \/ UNCHANGED daemon
    BY DEF DataSend, At, queue_vars, track_vars
<1>2. TrackedParts
    BY TrackedNow
<1>3. Tracked' = data_table
    <2>1. Packed' = {}
        BY <1>1 DEF Packed
    <2>2. data_table = [m \in DOMAIN data_table |-> data_table[m]]
        BY DEF TypeOK, TrackOK
    <2> QED
        BY <1>1, <2>1, <2>2 DEF Tracked
<1>4. Tracked' = [m \in DOMAIN Tracked \ dropped |-> Tracked[m]]
    <2>1. DOMAIN Tracked \ dropped = DOMAIN data_table
        BY <1>2 DEF TrackedParts
    <2>2. data_table = [m \in DOMAIN data_table |-> data_table[m]]
        BY DEF TypeOK, TrackOK
    <2> QED
        BY <1>2, <1>3, <2>1, <2>2 DEF TrackedParts
<1>5. ASSUME NEW m \in dropped
      PROVE  Reports!Silent(m)
    <2>1. PICK a \in DOMAIN tx_buf : tx_buf[a].mac = m
        BY DEF Packed
    <2>2. current_time - tx_buf[a].time > Expiry /\ current_time <= now
        BY <1>1, <2>1 DEF BuiltInv, Expired
    <2>3. Tracked[m] = tx_buf[a]
        BY <1>2, <2>1 DEF TrackedParts
    <2>4. tx_buf[a].time \in Nat
        <3>1. tx_buf[a] \in Sample
            BY ListTypes, ElementOfSeq DEF TypeOK, PacketOK
        <3> QED
            BY <3>1, TimeIsNat DEF Sample
    <2>5. current_time \in Nat /\ now \in Nat /\ Expiry \in Nat
        BY TimesAreNat, BoundsAssumption
    <2> QED
        BY <2>2, <2>3, <2>4, <2>5 DEF Reports!Silent
<1>6. dropped = {} => carried = DOMAIN Tracked
    <2> SUFFICES ASSUME dropped = {} PROVE DOMAIN data_table \subseteq Packed
        BY <1>2 DEF TrackedParts
    <2>1. \A k \in DOMAIN key_list : key_list[k] \in Packed
        BY <1>1, ListTypes DEF BuiltInv
    <2> QED
        BY <2>1 DEF IndexInv, BeaconsListedOnce
<1>7. {tx_buf[a] : a \in DOMAIN tx_buf} = {Tracked[m] : m \in carried}
    BY <1>2 DEF TrackedParts, Packed
<1>8. {daemon'.entries[a] : a \in DOMAIN daemon'.entries}
        \in {{daemon.entries[a] : a \in DOMAIN daemon.entries}, {Tracked[m] : m \in carried}}
    <2>1. CASE UNCHANGED daemon
        BY <2>1
    <2>2. CASE daemon' = [count |-> num_vals, entries |-> tx_buf]
        <3>1. daemon'.entries = tx_buf
            BY <2>2
        <3> QED
            BY <1>7, <3>1
    <2> QED
        BY <1>1, <2>1, <2>2
<1>9. /\ carried \in SUBSET DOMAIN Tracked /\ dropped \in SUBSET DOMAIN Tracked
      /\ dropped \subseteq carried
    BY <1>2 DEF TrackedParts
<1> HIDE DEF carried, dropped
<1> QED
    BY <1>1, <1>4, <1>5, <1>6, <1>8, <1>9 DEF Reports!Next, Reports!Report

\* Every step of the threads maps to a step of BeaconReport or to none.
LEMMA ReportStep ==
    ASSUME TypeOK, IndexInv, BuiltInv, TypeOK', IndexInv', BuiltInv', [Next]_vars,
           Faults \cap IndexFaults = {}
    PROVE  [Reports!Next]_(Reports!vars)
<1>1. ASSUME UNCHANGED <<bt_data_deque, data_table, tx_buf, daemon, now>>
      PROVE  UNCHANGED Reports!vars
    BY <1>1, TrackedSame DEF Reports!vars
<1>2. CASE /\ UNCHANGED <<pc["data"], bt_data_deque, track_vars, packet_vars, daemon>>
           /\ now' >= now
    <2>1. UNCHANGED <<bt_data_deque, data_table, tx_buf, daemon>>
        BY <1>2 DEF track_vars, packet_vars
    <2>2. CASE now' = now
        BY <1>1, <2>1, <2>2
    <2>3. CASE now' # now
        <3>1. now' \in now + 1 .. MaxTime
            <4>1. now \in Time /\ now' \in Time
                BY DEF TypeOK, ControlOK
            <4> QED
                BY <1>2, <2>3, <4>1, BoundsAssumption DEF Time
        <3> QED
            BY <2>1, <3>1, TrackedSame DEF Reports!Next, Reports!Tick
    <2> QED
        BY <2>2, <2>3
<1>3. CASE BtAppend
    <2>1. UNCHANGED <<data_table, tx_buf, daemon, now>>
        BY <1>3 DEF BtAppend, track_vars, packet_vars
    <2> QED
        BY <1>1, <1>3, <2>1, HearStep
<1>4. CASE MainCreateData \/ DataCreate \/ DataLock \/ DataGrowFails \/ DataSleep
    <2>1. UNCHANGED <<bt_data_deque, data_table, tx_buf, daemon, now>>
        BY <1>4 DEF MainCreateData, Create, DataCreate, DataLock, DataGrowFails, DataSleep,
                    queue_vars, track_vars, packet_vars
    <2> QED
        BY <1>1, <2>1
<1>5. CASE DataDrain
    BY <1>5, AbsorbStep
<1>6. CASE DataUnlock
    <2>1. UNCHANGED <<bt_data_deque, data_table, tx_buf, daemon, now>>
        BY <1>6 DEF DataUnlock, queue_vars, track_vars
    <2> QED
        BY <1>1, <2>1
<1>7. CASE DataPack
    BY <1>7, PackStutters
<1>8. CASE DataSend
    BY <1>8, SendStep
<1> QED
    BY <1>2, <1>3, <1>4, <1>5, <1>6, <1>7, <1>8, DataFrame DEF DataNext, TypeOK

\* The scanner implements BeaconReport, for every set of beacons, whitelist and bound:
\* the mutex, the LIFO drain and the index of the packet loop are enough for each
\* report to be a snapshot that loses no beacon, if keys and entries can be allocated.
THEOREM ReportsImplemented ==
    ASSUME Faults \cap IndexFaults = {}
    PROVE  Spec => ImplementsReports
<1>1. Init => Reports!Init
    <2> SUFFICES ASSUME Init PROVE Reports!Init
        OBVIOUS
    <2>1. /\ bt_data_deque = <<>> /\ data_table = [m \in {} |-> m] /\ tx_buf = <<>>
          /\ daemon.entries = <<>> /\ now = 0
        BY DEF Init, Empty, NoPacket
    <2>2. DOMAIN data_table \cup Packed = {}
        BY <2>1 DEF Packed
    <2>3. Tracked = [m \in {} |-> m]
        BY <2>2 DEF Tracked
    <2>4. {daemon.entries[a] : a \in DOMAIN daemon.entries} = {}
        BY <2>1
    <2> QED
        BY <2>1, <2>3, <2>4 DEF Reports!Init
<1>2. /\ TypeOK /\ IndexInv /\ BuiltInv
      /\ TypeOK' /\ IndexInv' /\ BuiltInv'
      /\ [Next]_vars
      => [Reports!Next]_(Reports!vars)
    BY ReportStep
<1> QED
    BY <1>1, <1>2, TypeCorrect, IndexKept, BuiltKept, PTL
       DEF Spec, ImplementsReports, Reports!Spec

-----------------------------------------------------------------------------
(***************************************************************************)
(* The whitelist.                                                          *)
(***************************************************************************)
\* The file is opened with the table empty, and the table holds the lines read
\* so far but for those it lost.
ReadInv ==
    /\ pc["filter"] = "fopen" => mac_filter_table = {}
    /\ pc["filter"] \in {"read", "grow"} =>
          /\ line <= Len(Whitelist) + 1
          /\ mac_filter_table \cup lost = {Whitelist[n] : n \in 1 .. line - 1}
    /\ WhitelistLoaded

LEMMA ReadStep == TypeOK /\ ReadInv /\ [Next]_vars => ReadInv'
<1> SUFFICES ASSUME TypeOK, ReadInv, [Next]_vars PROVE ReadInv'
    OBVIOUS
<1>0. DOMAIN pc = Thread /\ line \in Nat /\ line >= 1
    <2>1. line \in Nat \ {0}
        BY DEF TypeOK, FilterOK
    <2>2. DOMAIN pc = Thread
        BY DEF TypeOK, ControlOK
    <2> QED
        BY <2>1, <2>2
<1>1. CASE UNCHANGED <<pc["filter"], filter_vars>>
    BY <1>1 DEF ReadInv, WhitelistLoaded, filter_vars, table_vars
<1>2. CASE MainCreateFilter \/ FilterAlloc \/ FilterSetup \/ FilterSleep
    <2>1. pc'["filter"] \notin {"fopen", "read", "grow", "sleep"}
             \/ UNCHANGED <<pc["filter"], mac_filter_table, lost, line>>
        BY <1>0, <1>2 DEF MainCreateFilter, Create, FilterAlloc, FilterSetup, SetUp,
                          FilterSleep, Goto, At, Thread, filter_vars, table_vars
    <2> QED
        BY <2>1 DEF ReadInv, WhitelistLoaded
<1>3. CASE FilterReset \/ FilterResetup
    <2>1. /\ pc'["filter"] \in {"fopen", "reset", "resetup"}
          /\ pc'["filter"] = "fopen" => mac_filter_table' = {}
        BY <1>0, <1>3 DEF FilterReset, FilterResetup, SetUp, Goto, At, Thread,
                          table_vars, TypeOK, FilterOK
    <2> QED
        BY <2>1 DEF ReadInv, WhitelistLoaded
<1>4. CASE FilterOpen
    <2>1. CASE pc'["filter"] = "done"
        BY <2>1 DEF ReadInv, WhitelistLoaded
    <2>2. CASE pc'["filter"] = "read" /\ Whitelist # NoFile /\ line' = 1
        <3>1. mac_filter_table' = {} /\ lost' = {}
            BY <1>4 DEF FilterOpen, At, ReadInv
        <3>2. Len(Whitelist) \in Nat
            BY <2>2, WhitelistAssumption, LenProperties
        <3>3. 1 .. line' - 1 = {} /\ line' <= Len(Whitelist) + 1
            BY <2>2, <3>2
        <3>4. {Whitelist[n] : n \in 1 .. line' - 1} = {}
            BY <3>3
        <3> QED
            BY <2>2, <3>1, <3>3, <3>4 DEF ReadInv, WhitelistLoaded
    <2> QED
        BY <1>0, <1>4, <2>1, <2>2 DEF FilterOpen, FirstLine, Goto, Thread
<1>5. CASE FilterRead \/ FilterGrown
    <2>1. /\ LineMatches /\ FilterInsert(Whitelist[line]) /\ line' = line + 1
          /\ pc["filter"] \in {"read", "grow"} /\ pc'["filter"] = "read"
        BY <1>0, <1>5 DEF FilterRead, FilterGrown, At, Goto, Thread, TypeOK, FilterOK
    <2>2. Len(Whitelist) \in Nat /\ line <= Len(Whitelist)
        BY <2>1, WhitelistAssumption, LenProperties DEF LineMatches
    <2>3. 1 .. line' - 1 = (1 .. line - 1) \cup {line}
        BY <1>0, <2>1
    <2>4. Whitelist[line] \in Mac
        BY <1>0, <2>1, LineInMac
    <2>5. mac_filter_table' \cup lost' = mac_filter_table \cup lost \cup {Whitelist[line]}
        BY <2>1, <2>4, InsertTypes DEF TypeOK
    <2>6. mac_filter_table' \cup lost' = {Whitelist[n] : n \in 1 .. line' - 1}
        BY <2>1, <2>3, <2>5 DEF ReadInv
    <2>7. line' <= Len(Whitelist) + 1
        BY <1>0, <2>1, <2>2
    <2> QED
        BY <2>1, <2>6, <2>7 DEF ReadInv, WhitelistLoaded
<1>6. CASE FilterEof
    <2>1. /\ pc["filter"] = "read" /\ pc'["filter"] = "sleep"
          /\ line > Len(Whitelist)
          /\ UNCHANGED <<mac_filter_table, lost>>
        BY <1>0, <1>6 DEF FilterEof, At, Goto, Thread, table_vars
    <2>2. Len(Whitelist) \in Nat /\ DOMAIN Whitelist = 1 .. Len(Whitelist)
        BY <2>1, WhitelistAssumption, LenProperties DEF TypeOK, FilterOK
    <2>3. line - 1 = Len(Whitelist)
        BY <1>0, <2>1, <2>2 DEF ReadInv
    <2> QED
        BY <2>1, <2>2, <2>3 DEF ReadInv, WhitelistLoaded
<1>7. CASE FilterGrow \/ FilterInsertFails
    <2>1. /\ UNCHANGED <<mac_filter_table, lost, line>>
          /\ \/ UNCHANGED pc["filter"]
             \/ pc["filter"] = "read" /\ pc'["filter"] = "grow"
        BY <1>0, <1>7 DEF FilterGrow, FilterInsertFails, At, Goto, Thread,
                          table_vars, filter_vars
    <2> QED
        BY <2>1 DEF ReadInv, WhitelistLoaded
<1> QED
    BY <1>1, <1>2, <1>3, <1>4, <1>5, <1>6, <1>7, FilterFrame DEF FilterNext, TypeOK

\* After each reload the whitelist is the set of the addresses in the file, for
\* every file: the old table is gone and no line was read twice or left out.
THEOREM WhitelistIsFile == Spec => []WhitelistLoaded
<1>1. Init => ReadInv
    BY DEF Init, ReadInv, WhitelistLoaded, Thread
<1>2. TypeOK /\ ReadInv /\ [Next]_vars => ReadInv'
    BY ReadStep
<1>3. ReadInv => WhitelistLoaded
    BY DEF ReadInv
<1> QED
    BY <1>1, <1>2, <1>3, TypeCorrect, PTL DEF Spec

-----------------------------------------------------------------------------
(***************************************************************************)
(* Where the process can end.                                              *)
(***************************************************************************)
MemoryFaults == {"deque", "grow", "filter"}

\* The deque is missing only until the data thread has created it, and the whitelist
\* table has no array of its own only in the windows of its thread.
WindowInv ==
    /\ deque_created \/ pc["data"] \in {"unborn", "create"}
    /\ filter_state # "unset"
    /\ filter_state = "null" => pc["filter"] \in {"unborn", "alloc"} /\ pc["bt"] # "walk"
    /\ filter_state = "raw" => pc["filter"] = "setup"
    /\ filter_state = "freed" => pc["filter"] \in {"resetup", "grow"}
    /\ AbortsOnlyInWindows

LEMMA WindowStep ==
    ASSUME TypeOK, WindowInv, [Next]_vars, Faults \cap MemoryFaults = {}
    PROVE  WindowInv'
<1>0. /\ DOMAIN pc = Thread
      /\ ~Fails("deque") /\ ~Fails("grow") /\ ~Fails("filter")
      /\ filter_state \in {"null", "raw", "ready", "freed"}
    BY DEF TypeOK, ControlOK, FilterOK, WindowInv, Fails, MemoryFaults
<1> USE <1>0 DEF Thread, Goto, At, WindowInv, AbortsOnlyInWindows, MemoryFaults
<1>1. CASE UNCHANGED vars
    BY <1>1 DEF vars, queue_vars, filter_vars
<1>2. CASE MainNext
    BY <1>2 DEF MainNext, MainCreateBt, MainCreateData, MainCreateFilter, MainExit,
                Create, queue_vars, filter_vars, TypeOK, ControlOK
<1>3. CASE BtNext
    <2>1. CASE BtFilter \/ BtWalk \/ BtAppend
        BY <2>1 DEF BtFilter, BtWalk, BtAppend, Abort, queue_vars, filter_vars
    <2>2. CASE \/ BtOpen \/ BtLock \/ BtEnable \/ (\E m \in Mac : BtDiscover(m))
               \/ BtTimeout \/ BtUnlock
        BY <2>2 DEF BtOpen, BtLock, BtEnable, BtDiscover, BtTimeout, BtUnlock,
                    queue_vars, filter_vars
    <2> QED
        BY <1>3, <2>1, <2>2 DEF BtNext
<1>4. CASE DataNext
    <2>1. /\ proc = "running" /\ proc' = "running" /\ UNCHANGED filter_state
          /\ UNCHANGED <<pc["bt"], pc["filter"]>>
        BY <1>4 DEF DataNext, DataCreate, DataLock, DataDrain, DataGrowFails,
                    DataUnlock, DataPack, DataSend, DataSleep, filter_vars
    <2>2. deque_created' \/ pc'["data"] \in {"unborn", "create"}
        <3>1. CASE DataCreate
            BY <3>1 DEF DataCreate, Created
        <3>2. CASE ~DataCreate
            BY <1>4, <3>2 DEF DataNext, DataLock, DataDrain, DataGrowFails,
                    DataUnlock, DataPack, DataSend, DataSleep, queue_vars
        <3> QED
            BY <3>1, <3>2
    <2> QED
        BY <2>1, <2>2
<1>5. CASE FilterNext
    <2>1. /\ proc = "running" /\ proc' = "running"
          /\ UNCHANGED <<deque_created, pc["bt"], pc["data"]>>
        BY <1>5 DEF FilterNext, FilterAlloc, FilterSetup, FilterReset, FilterResetup,
                FilterOpen, FilterRead, FilterGrow, FilterGrown, FilterInsertFails,
                FilterEof, FilterSleep, SetUp, FilterRest, queue_vars
    <2> DEFINE Window == /\ filter_state' \in {"ready", "raw", "freed"}
                         /\ filter_state' = "raw" => pc'["filter"] = "setup"
                         /\ filter_state' = "freed" => pc'["filter"] \in {"resetup", "grow"}
    <2>2. ASSUME FilterAlloc \/ FilterSetup \/ FilterResetup \/ FilterGrow \/ FilterGrown
          PROVE  Window
        BY <2>2 DEF FilterAlloc, FilterSetup, FilterResetup, FilterGrow, FilterGrown,
                    SetUp, Abort
    <2>3. ASSUME FilterReset PROVE Window
        BY <2>3 DEF FilterReset
    <2>4. ASSUME FilterOpen \/ FilterEof \/ FilterSleep PROVE Window
        BY <2>4 DEF FilterOpen, FilterEof, FilterSleep, filter_vars
    <2>5. ASSUME FilterRead PROVE Window
        BY <2>5 DEF FilterRead
    <2>6. ~FilterInsertFails
        BY DEF FilterInsertFails
    <2>7. Window
        BY <1>5, <2>2, <2>3, <2>4, <2>5, <2>6 DEF FilterNext
    <2> QED
        BY <2>1, <2>7
<1>6. CASE Tick
    BY <1>6 DEF Tick, queue_vars, filter_vars
<1> QED
    BY <1>1, <1>2, <1>3, <1>4, <1>5, <1>6 DEF Next

\* The process ends by itself in two places only, while memory lasts: a device is
\* reported before the deque is there, or its address is looked up in a whitelist
\* table that is being set up, destroyed or rehashed by its own thread.
THEOREM AbortsInWindows == Spec => []AbortsOnlyInWindows
<1>1. CASE Faults \cap MemoryFaults = {}
    <2>1. Init => WindowInv
        BY DEF Init, WindowInv, AbortsOnlyInWindows, Thread
    <2>2. TypeOK /\ WindowInv /\ [Next]_vars => WindowInv'
        BY <1>1, WindowStep
    <2>3. WindowInv => AbortsOnlyInWindows
        BY DEF WindowInv
    <2> QED
        BY <2>1, <2>2, <2>3, TypeCorrect, PTL DEF Spec
<1>2. CASE Faults \cap MemoryFaults # {}
    <2>1. AbortsOnlyInWindows
        BY <1>2 DEF AbortsOnlyInWindows, MemoryFaults
    <2> QED
        BY <2>1, PTL
<1> QED
    BY <1>1, <1>2

=============================================================================
