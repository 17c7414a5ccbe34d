------------------------------ MODULE Scanner ------------------------------
(***************************************************************************)
(* The BLE scanner process of blAlfred_scanner/scanner_alfred              *)
(* (src/ble_scanner.c): the main thread that creates the other three, the  *)
(* scan thread with the callback gattlib runs in it, the data thread that  *)
(* drains the samples and pushes a packet to the alfred daemon, and the    *)
(* thread that keeps the whitelist.  The deque, the hash tables and the    *)
(* array list are taken here as the sequence, function and sequence they   *)
(* stand for; Deque, HashTable and ArrayList model how the C code stores   *)
(* them.  Sleeps are untimed: a sleeping thread may wake at any moment.    *)
(***************************************************************************)
EXTENDS Integers, Sequences, FiniteSets

CONSTANTS
    Mac,        \* addresses of the beacons in range
    Readings,   \* values rssi may hold after gattlib_get_rssi_from_mac, 0 included
    NoCall,     \* no discovery callback is in progress
    Faults,     \* the calls that may fail in this instance
    Whitelist,  \* the lines of the whitelist file, addresses or Junk, or NoFile
    NoFile,     \* there is no whitelist file
    Junk,       \* a line "%2x:%2x:..." does not match
    Expiry,     \* the 30 seconds of line 218, in units of the clock
    TxRoom,     \* entries that fit in tx_buf
    FilterCapacity, \* capacity the whitelist table is set up with, 20 in the code
    MaxTime,    \* bound: the clock stops here
    MaxQueue,   \* bound: no discovery while this many samples wait
    MaxKeys     \* bound: no failed insertion when the list is this long

Fault == {"thread", "open", "scan", "sample", "deque", "table", "key",
          "entry", "grow", "send", "filter", "fopen"}

ASSUME FaultsAssumption == Faults \subseteq Fault
ASSUME BoundsAssumption ==
    /\ Expiry \in Nat /\ MaxTime \in Nat /\ MaxQueue \in Nat \ {0}
    /\ TxRoom \in Nat /\ MaxKeys \in Nat /\ FilterCapacity \in Nat
ASSUME RoomAssumption == IsFiniteSet(Mac) /\ Cardinality(Mac) <= TxRoom
ASSUME ReadingsAssumption == 0 \in Readings
ASSUME WhitelistAssumption ==
    Junk \notin Mac /\ (Whitelist = NoFile \/ Whitelist \in Seq(Mac \cup {Junk}))

Time   == 0 .. MaxTime
Sample == [mac : Mac, rssi : Readings, time : Time]
Call   == [mac : Mac, rssi : Readings]

ASSUME NoCallAssumption == NoCall \notin Call

Thread == {"main", "bt", "data", "filter"}

VARIABLES
    proc,              \* "running", "aborted" by an assertion or a wild access, "exited"
    pc,                \* where each thread stands
    bt_mutex,          \* "free" or the thread that holds it
    seen,              \* addresses reported by the scan in progress
    call,              \* the discovery callback in progress
    deque_created,     \* g_bt_data_deque # NULL
    bt_data_deque,     \* its items, the last one is the head
    key_list,          \* the addresses of the beacons, in the order of the packet
    data_table,        \* the sample kept for each beacon
    num_vals, current_time, i, tx_buf,   \* the packet in preparation
    daemon,            \* the packet the alfred daemon received last
    filter_state,      \* g_mac_filter_table: NULL, allocated but not set up, set up,
                       \* its array freed, or its array not allocated
    mac_filter_table,  \* the addresses in it
    filter_size, filter_capacity,   \* its fields size and capacity
    lost,              \* history: addresses whose node, or chain, was lost
    mac_filter_rdy, white_list_enabled,
    line,              \* position in the whitelist file
    now                \* time(NULL)

bt_vars     == <<seen, call>>
queue_vars  == <<deque_created, bt_data_deque>>
track_vars  == <<key_list, data_table>>
packet_vars == <<num_vals, current_time, i, tx_buf>>
table_vars  == <<mac_filter_table, filter_size, filter_capacity, lost>>
filter_vars == <<filter_state, table_vars, mac_filter_rdy, white_list_enabled, line>>
vars == <<proc, pc, bt_mutex, bt_vars, queue_vars, track_vars, packet_vars,
          daemon, filter_vars, now>>

Empty == [m \in {} |-> m]
NoPacket == [count |-> 0, entries |-> <<>>]

Init ==
    /\ proc = "running"
    /\ pc = [t \in Thread |-> IF t = "main" THEN "create bt" ELSE "unborn"]
    /\ bt_mutex = "free"
    /\ seen = {} /\ call = NoCall
    /\ deque_created = FALSE /\ bt_data_deque = <<>>
    /\ key_list = <<>> /\ data_table = Empty
    /\ num_vals = 0 /\ current_time = 0 /\ i = 1 /\ tx_buf = <<>>
    /\ daemon = NoPacket
    /\ filter_state = "null" /\ mac_filter_table = {}
    /\ filter_size = 0 /\ filter_capacity = 0 /\ lost = {}
    /\ mac_filter_rdy = 1 /\ white_list_enabled = 0 /\ line = 1
    /\ now = 0

At(t, where)   == proc = "running" /\ pc[t] = where
Goto(t, where) == pc' = [pc EXCEPT ![t] = where]
Fails(f)       == f \in Faults
Abort          == proc' = "aborted"

(***************************************************************************)
(* main: the threads start in this order, and each runs as soon as it is   *)
(* created.                                                                *)
(***************************************************************************)
Create(where, t, first, next) ==
    /\ At("main", where)
    /\ \/ /\ pc' = [pc EXCEPT !["main"] = next, ![t] = first]
          /\ UNCHANGED proc
       \/ /\ Fails("thread")
          /\ proc' = "exited"
          /\ UNCHANGED pc
    /\ UNCHANGED <<bt_mutex, bt_vars, queue_vars, track_vars, packet_vars,
                   daemon, filter_vars, now>>

MainCreateBt     == Create("create bt", "bt", "open", "create data")
MainCreateData   == Create("create data", "data", "create", "create filter")
MainCreateFilter == Create("create filter", "filter", "alloc", "join")

\* main returns, and ends the process, once all three threads have returned
MainExit ==
    /\ At("main", "join")
    /\ \A t \in Thread \ {"main"} : pc[t] = "done"
    /\ proc' = "exited"
    /\ UNCHANGED <<pc, bt_mutex, bt_vars, queue_vars, track_vars, packet_vars,
                   daemon, filter_vars, now>>

(***************************************************************************)
(* The scan thread.                                                        *)
(***************************************************************************)
BtOpen ==
    /\ At("bt", "open")
    /\ \/ Goto("bt", "lock")
       \/ Fails("open") /\ Goto("bt", "done")
    /\ UNCHANGED <<proc, bt_mutex, bt_vars, queue_vars, track_vars, packet_vars,
                   daemon, filter_vars, now>>

BtLockUnchecked ==
    /\ At("bt", "lock")
    /\ bt_mutex' = "bt"
    /\ Goto("bt", "enable")
    /\ UNCHANGED <<proc, bt_vars, queue_vars, track_vars, packet_vars, daemon,
                   filter_vars, now>>

BtLock ==
    /\ At("bt", "lock")
    /\ bt_mutex = "free"
    /\ bt_mutex' = "bt"
    /\ Goto("bt", "enable")
    /\ UNCHANGED <<proc, bt_vars, queue_vars, track_vars, packet_vars, daemon,
                   filter_vars, now>>

\* a failed scan leaves through EXIT, which does not unlock
BtEnable ==
    /\ At("bt", "enable")
    /\ \/ Goto("bt", "scan")
       \/ Fails("scan") /\ Goto("bt", "done")
    /\ UNCHANGED <<proc, bt_mutex, bt_vars, queue_vars, track_vars, packet_vars,
                   daemon, filter_vars, now>>

\* each scan reports a device once; the result of reading its rssi is ignored
BtDiscover(m) ==
    /\ At("bt", "scan")
    /\ m \notin seen
    /\ Len(bt_data_deque) < MaxQueue
    /\ seen' = seen \cup {m}
    /\ \E r \in Readings : call' = [mac |-> m, rssi |-> r]
    /\ Goto("bt", "filter")
    /\ UNCHANGED <<proc, bt_mutex, queue_vars, track_vars, packet_vars, daemon,
                   filter_vars, now>>

\* the checks of line 92 to 102 up to the assertion on the whitelist table:
\* before ht_setup its nodes pointer is uninitialised memory, and after an
\* ht_setup that failed it is NULL
BtFilter ==
    /\ At("bt", "filter")
    /\ \/ /\ mac_filter_rdy = 1 \/ white_list_enabled = 0
          /\ \/ filter_state = "null" /\ Goto("bt", "append") /\ UNCHANGED proc
             \/ filter_state \notin {"null", "unset"} /\ Goto("bt", "walk") /\ UNCHANGED proc
             \/ filter_state \in {"raw", "unset"} /\ Abort /\ UNCHANGED pc
          /\ UNCHANGED call
       \/ /\ mac_filter_rdy = 0 /\ white_list_enabled = 1
          /\ Goto("bt", "scan")
          /\ call' = NoCall
          /\ UNCHANGED proc
    /\ UNCHANGED <<bt_mutex, seen, queue_vars, track_vars, packet_vars, daemon,
                   filter_vars, now>>

\* ht_contains walks the chain of the address, without a lock
BtWalk ==
    /\ At("bt", "walk")
    /\ \/ /\ \/ white_list_enabled = 0
             \/ call.mac \in mac_filter_table
             \/ filter_state # "ready"
          /\ Goto("bt", "append")
          /\ UNCHANGED <<proc, call>>
       \/ /\ white_list_enabled = 1
          /\ call.mac \notin mac_filter_table \/ filter_state # "ready"
          /\ Goto("bt", "scan")
          /\ call' = NoCall
          /\ UNCHANGED proc
       \/ /\ filter_state # "ready"
          /\ Abort
          /\ UNCHANGED <<pc, call>>
    /\ UNCHANGED <<bt_mutex, seen, queue_vars, track_vars, packet_vars, daemon,
                   filter_vars, now>>

\* deque_append adds at the head
AtTail(queue, s)   == <<s>> \o queue
PushHead(queue, s) == Append(queue, s)

\* deque_append asserts that the data thread has created the deque
BtAppend ==
    /\ At("bt", "append")
    /\ \/ /\ deque_created
          /\ bt_data_deque' = PushHead(bt_data_deque,
                 [mac |-> call.mac, rssi |-> call.rssi, time |-> now])
          /\ Goto("bt", "scan")
          /\ call' = NoCall
          /\ UNCHANGED proc
       \/ /\ Fails("sample")
          /\ Goto("bt", "scan")
          /\ call' = NoCall
          /\ UNCHANGED <<proc, bt_data_deque>>
       \/ /\ ~deque_created
          /\ Abort
          /\ UNCHANGED <<pc, call, bt_data_deque>>
    /\ UNCHANGED <<bt_mutex, seen, deque_created, track_vars, packet_vars,
                   daemon, filter_vars, now>>

BtTimeout ==
    /\ At("bt", "scan")
    /\ seen' = {}
    /\ Goto("bt", "unlock")
    /\ UNCHANGED <<proc, bt_mutex, call, queue_vars, track_vars, packet_vars,
                   daemon, filter_vars, now>>

BtUnlockForgets ==
    /\ At("bt", "unlock")
    /\ Goto("bt", "open")
    /\ UNCHANGED <<proc, bt_mutex, bt_vars, queue_vars, track_vars, packet_vars,
                   daemon, filter_vars, now>>

BtUnlock ==
    /\ At("bt", "unlock")
    /\ bt_mutex' = "free"
    /\ Goto("bt", "open")
    /\ UNCHANGED <<proc, bt_vars, queue_vars, track_vars, packet_vars, daemon,
                   filter_vars, now>>

(***************************************************************************)
(* The data thread.                                                        *)
(***************************************************************************)
CreatedLate == deque_created
Created == TRUE

DataCreate ==
    /\ At("data", "create")
    /\ \/ deque_created' = Created /\ Goto("data", "lock")
       \/ deque_created' = FALSE /\ Fails("deque") /\ Goto("data", "done")
       \/ deque_created' = Created /\ Fails("table") /\ Goto("data", "done")
    /\ UNCHANGED <<proc, bt_mutex, bt_vars, bt_data_deque, track_vars,
                   packet_vars, daemon, filter_vars, now>>

DataLock ==
    /\ At("data", "lock")
    /\ bt_mutex = "free"
    /\ bt_mutex' = "data"
    /\ Goto("data", "drain")
    /\ UNCHANGED <<proc, bt_vars, queue_vars, track_vars, packet_vars, daemon,
                   filter_vars, now>>

\* the newest sample leaves the deque first (deque_pop takes the head)
Popped == bt_data_deque[Len(bt_data_deque)]
Rest   == SubSeq(bt_data_deque, 1, Len(bt_data_deque) - 1)

Without(table, gone) == [m \in DOMAIN table \ gone |-> table[m]]
PutEverywhere(table, s) == [m \in DOMAIN table \cup {s.mac} |-> s]
Put(table, s) ==
    [m \in DOMAIN table \cup {s.mac} |-> IF m = s.mac THEN s ELSE table[m]]

KnownNever(m)  == FALSE
KnownAlways(m) == TRUE
Known(m) == m \in DOMAIN data_table

\* one turn of the loop of lines 172 to 187
DataDrain ==
    /\ At("data", "drain")
    /\ bt_data_deque # <<>>
    /\ bt_data_deque' = Rest
    /\ \/ Known(Popped.mac) /\ UNCHANGED key_list
       \/ /\ ~Known(Popped.mac)
          /\ key_list' = Append(key_list, Popped.mac)
       \/ /\ ~Known(Popped.mac)
          /\ Fails("key")
          /\ UNCHANGED key_list
    /\ \/ data_table' = Put(data_table, Popped)
       \* _ht_push_front stores the NULL it got, and the chain is lost
       \/ /\ Fails("entry")
          /\ ~Known(Popped.mac)
          /\ Len(key_list) < MaxKeys
          /\ \E chain \in SUBSET DOMAIN data_table :
                data_table' = Without(data_table, chain)
    /\ UNCHANGED <<proc, pc, bt_mutex, bt_vars, deque_created, packet_vars,
                   daemon, filter_vars, now>>

\* growing the list asserts the memory, growing the table uses a NULL array
DataGrowFails ==
    /\ At("data", "drain")
    /\ bt_data_deque # <<>>
    /\ Fails("grow")
    /\ Abort
    /\ UNCHANGED <<pc, bt_mutex, bt_vars, queue_vars, track_vars, packet_vars,
                   daemon, filter_vars, now>>

RoundTimeAtStart == 0
RoundTime == now

NoBeaconOrOne == Len(key_list) < 2
NoBeacon == key_list = <<>>

\* the unlock, then the header of the packet; with no beacon no packet is sent
DataUnlock ==
    /\ At("data", "drain")
    /\ bt_data_deque = <<>>
    /\ bt_mutex' = "free"
    /\ \/ /\ NoBeacon
          /\ Goto("data", "sleep")
          /\ UNCHANGED <<num_vals, current_time>>
       \/ /\ ~NoBeacon
          /\ Goto("data", "pack")
          /\ num_vals' = Len(key_list)
          /\ current_time' = RoundTime
    /\ UNCHANGED <<proc, bt_vars, queue_vars, track_vars, i, tx_buf, daemon,
                   filter_vars, now>>

ExpiredEarly(s)   == current_time - s.time >= Expiry
ExpiredSwapped(s) == s.time - current_time > Expiry
Expired(s) == current_time - s.time > Expiry
RemoveNextKey(n) == SubSeq(key_list, 1, n) \o SubSeq(key_list, n + 2, Len(key_list))
RemoveKey(n) == SubSeq(key_list, 1, n - 1) \o SubSeq(key_list, n + 1, Len(key_list))

FollowingTwo(n) == n + 2
Following(n) == n + 1

\* one turn of the loop of lines 200 to 225: the index moves on even when the
\* beacon at it was removed and the next one took its place.  That ht_erase of the last
\* beacon of a grown table allocates a smaller array, and leaves none when malloc fails,
\* is modelled in HashTable only.
DataPack ==
    /\ At("data", "pack")
    /\ i <= Len(key_list)
    /\ i' = Following(i)
    /\ LET m == key_list[i] IN
       \/ /\ m \notin DOMAIN data_table
          /\ UNCHANGED <<tx_buf, key_list, data_table>>
       \/ /\ m \in DOMAIN data_table
          /\ ~Expired(data_table[m])
          /\ tx_buf' = Append(tx_buf, data_table[m])
          /\ UNCHANGED <<key_list, data_table>>
       \/ /\ m \in DOMAIN data_table
          /\ Expired(data_table[m])
          /\ tx_buf' = Append(tx_buf, data_table[m])
          /\ key_list' = RemoveKey(i)
          /\ data_table' = Without(data_table, {m})
    /\ UNCHANGED <<proc, pc, bt_mutex, bt_vars, queue_vars, num_vals,
                   current_time, daemon, filter_vars, now>>

\* alfred_send_data; its result is ignored, and the locals of the packet end
DataSend ==
    /\ At("data", "pack")
    /\ i > Len(key_list)
    /\ \/ daemon' = [count |-> num_vals, entries |-> tx_buf]
       \/ Fails("send") /\ UNCHANGED daemon
    /\ num_vals' = 0 /\ current_time' = 0 /\ i' = 1 /\ tx_buf' = <<>>
    /\ Goto("data", "sleep")
    /\ UNCHANGED <<proc, bt_mutex, bt_vars, queue_vars, track_vars, filter_vars,
                   now>>

DataSleep ==
    /\ At("data", "sleep")
    /\ Goto("data", "lock")
    /\ UNCHANGED <<proc, bt_mutex, bt_vars, queue_vars, track_vars, packet_vars,
                   daemon, filter_vars, now>>

(***************************************************************************)
(* The whitelist thread.                                                   *)
(***************************************************************************)
FilterRest == <<bt_mutex, bt_vars, queue_vars, track_vars, packet_vars, daemon, now>>

FilterAlloc ==
    /\ At("filter", "alloc")
    /\ \/ /\ filter_state' = "raw"
          /\ Goto("filter", "setup")
          /\ UNCHANGED proc
       \/ /\ Fails("filter")
          /\ Abort
          /\ UNCHANGED <<pc, filter_state>>
    /\ UNCHANGED <<FilterRest, table_vars, mac_filter_rdy, white_list_enabled, line>>

\* the result of ht_setup is ignored; it leaves the size when it fails
SetUp(where, next) ==
    /\ At("filter", where)
    /\ \/ /\ filter_state' = "ready"
          /\ filter_size' = 0 /\ filter_capacity' = FilterCapacity
       \/ /\ Fails("filter")
          /\ filter_state' = "unset"
          /\ UNCHANGED <<filter_size, filter_capacity>>
    /\ mac_filter_table' = {} /\ lost' = {}
    /\ Goto("filter", next)
    /\ UNCHANGED <<FilterRest, proc, mac_filter_rdy, white_list_enabled, line>>

FilterSetup   == SetUp("setup", "reset")
FilterResetup == SetUp("resetup", "fopen")

\* ht_destroy frees the table and leaves its pointers as they are; it asserts
\* that there is an array. Without one the first size is uninitialised memory.
FilterReset ==
    /\ At("filter", "reset")
    /\ mac_filter_rdy' = 0
    /\ \/ /\ filter_size = 0
          /\ Goto("filter", "fopen")
          /\ UNCHANGED <<proc, filter_state>>
       \/ /\ filter_size > 0 /\ filter_state = "ready"
          /\ filter_state' = "freed"
          /\ Goto("filter", "resetup")
          /\ UNCHANGED proc
       \/ /\ filter_state = "unset"
          /\ Abort
          /\ UNCHANGED <<pc, filter_state>>
    /\ UNCHANGED <<FilterRest, table_vars, white_list_enabled, line>>

WhereItStopped == line
FirstLine == 1

FilterOpen ==
    /\ At("filter", "fopen")
    /\ \/ /\ Whitelist # NoFile
          /\ line' = FirstLine
          /\ Goto("filter", "read")
          /\ UNCHANGED white_list_enabled
       \/ /\ Whitelist = NoFile \/ Fails("fopen")
          /\ white_list_enabled' = 0
          /\ Goto("filter", "done")
          /\ UNCHANGED line
    /\ lost' = {}
    /\ UNCHANGED <<FilterRest, proc, filter_state, mac_filter_table, filter_size,
                   filter_capacity, mac_filter_rdy>>

\* fscanf never passes a line it does not match: the loop stays there.  It inserts the
\* address of the line before again, or at the first line one that no line gave, which
\* is left out here as nothing depends on it.
LineMatches == Whitelist # NoFile /\ line <= Len(Whitelist) /\ Whitelist[line] # Junk

\* the result of ht_insert is ignored: where malloc fails the chain is lost
FilterInsert(m) ==
    \/ /\ m \in mac_filter_table
       /\ UNCHANGED <<mac_filter_table, filter_size, lost>>
    \/ /\ m \notin mac_filter_table
       /\ mac_filter_table' = mac_filter_table \cup {m}
       /\ filter_size' = filter_size + 1
       /\ UNCHANGED lost
    \/ /\ m \notin mac_filter_table
       /\ Fails("entry")
       /\ \E chain \in SUBSET mac_filter_table :
             /\ mac_filter_table' = mac_filter_table \ chain
             /\ lost' = lost \cup chain \cup {m}
       /\ UNCHANGED filter_size

FilterRead ==
    /\ At("filter", "read")
    /\ LineMatches
    /\ filter_state = "ready" /\ filter_size # filter_capacity
    /\ FilterInsert(Whitelist[line])
    /\ line' = line + 1
    /\ UNCHANGED <<FilterRest, proc, pc, filter_state, filter_capacity,
                   mac_filter_rdy, white_list_enabled>>

\* a full table is rehashed first: its array is freed before the next step
FilterGrow ==
    /\ At("filter", "read")
    /\ LineMatches
    /\ filter_state = "ready" /\ filter_size = filter_capacity
    /\ filter_state' = "freed"
    /\ Goto("filter", "grow")
    /\ UNCHANGED <<FilterRest, proc, table_vars, mac_filter_rdy, white_list_enabled, line>>

FilterGrown ==
    /\ At("filter", "grow")
    /\ filter_state' = "ready"
    /\ filter_capacity' = 2 * filter_capacity
    /\ FilterInsert(Whitelist[line])
    /\ line' = line + 1
    /\ Goto("filter", "read")
    /\ UNCHANGED <<FilterRest, proc, mac_filter_rdy, white_list_enabled>>

\* ht_insert asserts that there is an array, and uses a NULL one when it could
\* not grow
FilterInsertFails ==
    /\ \/ At("filter", "read") /\ LineMatches /\ filter_state = "unset"
       \/ At("filter", "grow") /\ Fails("grow")
    /\ Abort
    /\ UNCHANGED <<FilterRest, pc, filter_vars>>

FilterEof ==
    /\ At("filter", "read")
    /\ line > Len(Whitelist)
    /\ mac_filter_rdy' = 1
    /\ Goto("filter", "sleep")
    /\ UNCHANGED <<FilterRest, proc, filter_state, table_vars, white_list_enabled, line>>

FilterSleep ==
    /\ At("filter", "sleep")
    /\ Goto("filter", "reset")
    /\ UNCHANGED <<FilterRest, proc, filter_vars>>

Tick ==
    /\ proc = "running"
    /\ now < MaxTime
    /\ now' = now + 1
    /\ UNCHANGED <<proc, pc, bt_mutex, bt_vars, queue_vars, track_vars,
                   packet_vars, daemon, filter_vars>>

MainNext == MainCreateBt \/ MainCreateData \/ MainCreateFilter \/ MainExit
BtNext ==
    \/ BtOpen \/ BtLock \/ BtEnable \/ (\E m \in Mac : BtDiscover(m))
    \/ BtFilter \/ BtWalk \/ BtAppend \/ BtTimeout \/ BtUnlock
DataNext ==
    \/ DataCreate \/ DataLock \/ DataDrain \/ DataGrowFails \/ DataUnlock
    \/ DataPack \/ DataSend \/ DataSleep
FilterNext ==
    \/ FilterAlloc \/ FilterSetup \/ FilterReset \/ FilterResetup \/ FilterOpen
    \/ FilterRead \/ FilterGrow \/ FilterGrown \/ FilterInsertFails
    \/ FilterEof \/ FilterSleep

Next == MainNext \/ BtNext \/ DataNext \/ FilterNext \/ Tick

Spec == Init /\ [][Next]_vars

(***************************************************************************)
(* Every created thread runs, and a thread waiting for a mutex that is     *)
(* free again and again gets it: between its unlock and its next lock the  *)
(* scan thread closes and opens the adapter, D-Bus round trips long enough *)
(* for the woken thread.  The whitelist thread and the clock owe nothing.  *)
(***************************************************************************)
FairSpec ==
    /\ Spec
    /\ WF_vars(MainNext) /\ WF_vars(BtNext) /\ WF_vars(DataNext)
    /\ SF_vars(BtLock) /\ SF_vars(DataLock)

-----------------------------------------------------------------------------
(***************************************************************************)
(* Type correctness.                                                       *)
(***************************************************************************)
MainPc   == {"create bt", "create data", "create filter", "join"}
Scanning == {"enable", "scan", "filter", "walk", "append", "unlock"}
BtPc     == {"unborn", "open", "lock", "done"} \cup Scanning
DataPc   == {"unborn", "create", "lock", "drain", "pack", "sleep", "done"}
FilterPc == {"unborn", "alloc", "setup", "reset", "resetup", "fopen", "read",
             "grow", "sleep", "done"}

Packet == [count : Nat, entries : Seq(Sample)]

ControlOK ==
    /\ proc \in {"running", "aborted", "exited"}
    /\ DOMAIN pc = Thread
    /\ pc["main"] \in MainPc
    /\ pc["bt"] \in BtPc
    /\ pc["data"] \in DataPc
    /\ pc["filter"] \in FilterPc
    /\ pc["main"] = "create bt" => pc["bt"] = "unborn"
    /\ pc["main"] \in {"create bt", "create data"} => pc["data"] = "unborn"
    /\ pc["main"] # "join" => pc["filter"] = "unborn"
    /\ bt_mutex \in {"free", "bt", "data"}
    /\ now \in Time

ScanOK ==
    /\ seen \subseteq Mac
    /\ call \in Call \cup {NoCall}
    /\ (pc["bt"] \in {"filter", "walk", "append"}) <=> (call # NoCall)

QueueOK ==
    /\ deque_created \in BOOLEAN
    /\ bt_data_deque \in Seq(Sample)

TrackOK ==
    /\ key_list \in Seq(Mac)
    /\ DOMAIN data_table \subseteq Mac
    /\ data_table \in [DOMAIN data_table -> Sample]
    /\ \A m \in DOMAIN data_table : data_table[m].mac = m

PacketOK ==
    /\ num_vals \in Nat /\ current_time \in Time /\ i \in Nat \ {0}
    /\ tx_buf \in Seq(Sample)
    /\ daemon \in Packet

FilterOK ==
    /\ filter_state \in {"null", "raw", "ready", "freed", "unset"}
    /\ mac_filter_table \subseteq Mac /\ lost \subseteq Mac
    /\ filter_size \in Nat /\ filter_capacity \in Nat
    /\ filter_size = 0 => mac_filter_table = {}
    /\ mac_filter_rdy \in {0, 1} /\ white_list_enabled \in {0, 1}
    /\ line \in Nat \ {0}
    /\ pc["filter"] = "read" => Whitelist # NoFile
    /\ pc["filter"] = "grow" => LineMatches

\* Every variable keeps its type; threads are born in order, the table maps an
\* address to a sample of that address, the callback in progress is there
\* exactly while the scan thread is inside ble_discovered_device, and lines are
\* read from a file.
TypeOK == ControlOK /\ ScanOK /\ QueueOK /\ TrackOK /\ PacketOK /\ FilterOK

(***************************************************************************)
(* Safety.                                                                 *)
(***************************************************************************)
\* The comment of line 23, "We use a mutex to make the BLE connections
\* synchronous": the data thread is in its drain exactly while it holds
\* bt_mutex, and gattlib runs the callback only while the scan thread does.
MutexInv ==
    /\ bt_mutex = "data" <=> pc["data"] = "drain"
    /\ pc["bt"] \in Scanning => bt_mutex = "bt"
    /\ bt_mutex = "bt" => pc["bt"] \in Scanning \cup {"done"}

\* While the data thread drains, each step leaves the deque as it is or takes
\* the head: no callback appends between deque_count and deque_pop.
DrainUndisturbed ==
    [][pc["data"] = "drain" => bt_data_deque' \in {bt_data_deque, Rest}]_vars

Distinct(s) == \A a, b \in DOMAIN s : s[a].mac = s[b].mac => a = b

\* key_list and data_table are two indexes of the same beacons (line 159): an
\* address is in the list once, and is in it exactly if it is in the table.
BeaconsListedOnce ==
    /\ \A a, b \in DOMAIN key_list : key_list[a] = key_list[b] => a = b
    /\ {key_list[a] : a \in DOMAIN key_list} = DOMAIN data_table

\* Samples wait in the order they were taken, none is from the future, and
\* outside the drain none is older than what the table has of its beacon: one
\* drain never undoes an earlier one.
QueueInOrder ==
    /\ \A a, b \in DOMAIN bt_data_deque :
          a <= b => bt_data_deque[a].time <= bt_data_deque[b].time
    /\ \A a \in DOMAIN bt_data_deque :
          /\ bt_data_deque[a].time <= now
          /\ LET m == bt_data_deque[a].mac IN
             pc["data"] # "drain" /\ m \in DOMAIN data_table
                => data_table[m].time <= bt_data_deque[a].time

\* The age computed in line 218 is never negative: while the packet is built
\* no sample of the table is newer than current_time.
AgeNotNegative ==
    pc["data"] = "pack" =>
        \A m \in DOMAIN data_table : data_table[m].time <= current_time

\* The packet in preparation fits in tx_buf, which has no check of its own:
\* it holds at most one entry for each beacon, evictions notwithstanding.
PacketFits == Distinct(tx_buf) /\ Len(tx_buf) <= TxRoom

\* What the daemon got names each beacon once, has no more entries than its
\* header announces, and at least half of them: each eviction skips one.
DaemonSound ==
    /\ Distinct(daemon.entries)
    /\ Len(daemon.entries) <= daemon.count
    /\ daemon.count <= 2 * Len(daemon.entries)

\* A packet is sound from its first entry to the daemon, whatever is evicted meanwhile.
PacketSound == PacketFits /\ DaemonSound

\* Between two reloads the whitelist holds the addresses of the file, whatever
\* the table went through (destroyed, set up again, read line by line, grown),
\* but for those in chains a failed allocation of this reload lost.
WhitelistLoaded ==
    pc["filter"] = "sleep" =>
        mac_filter_table \cup lost = {Whitelist[n] : n \in DOMAIN Whitelist}

\* As long as memory lasts only the scan thread can end the process, and only while
\* the data thread has not created the deque, or while the whitelist thread sets its
\* table up, destroys it or grows it: the callback walks that table without a lock, and
\* does so although white_list_enabled, which is never set (line 27), ignores the result.
AbortsOnlyInWindows ==
    proc = "aborted" =>
        \/ Faults \cap {"deque", "grow", "filter"} # {}
        \/ pc["bt"] = "append" /\ pc["data"] \in {"unborn", "create"}
        \/ pc["bt"] \in {"filter", "walk"} /\ pc["filter"] \in {"setup", "resetup", "grow"}

(***************************************************************************)
(* Liveness, under FairSpec.                                               *)
(***************************************************************************)
InDeque(m) == \E a \in DOMAIN bt_data_deque : bt_data_deque[a].mac = m
InDaemon(m) == \E a \in DOMAIN daemon.entries : daemon.entries[a].mac = m

\* A beacon that was heard is in a packet the daemon receives later, through
\* the LIFO drain and the evictions of its neighbours.
Reported ==
    \A m \in Mac : InDeque(m) ~> (InDaemon(m) \/ proc # "running")

\* A beacon whose sample has expired leaves the table or is heard again, even
\* though each eviction passes over the beacon after the evicted one.
Stale(m) == m \in DOMAIN data_table /\ now - data_table[m].time > Expiry
Forgotten == \A m \in Mac : Stale(m) ~> (~Stale(m) \/ proc # "running")

\* A beacon that is no more in the table leaves the packet of the daemon, unless it
\* is heard again or no beacon is left: then no packet is sent (line 193).
Withdrawn ==
    \A m \in Mac : InDaemon(m) ~>
        \/ ~InDaemon(m) \/ m \in DOMAIN data_table
        \/ key_list = <<>> \/ proc # "running"

\* A data thread that waits for bt_mutex gets it.
DataThreadServed ==
    pc["data"] = "lock" ~> (pc["data"] = "drain" \/ proc # "running")

(***************************************************************************)
(* The scanner implements BeaconReport.  A packet takes many steps to      *)
(* build; the abstract report is its last one, so until then the beacons   *)
(* evicted while it is built, which are in tx_buf, count as tracked.       *)
(***************************************************************************)
Packed == {tx_buf[a].mac : a \in DOMAIN tx_buf}
PackedSample(m) == tx_buf[CHOOSE a \in DOMAIN tx_buf : tx_buf[a].mac = m]

Tracked ==
    [m \in DOMAIN data_table \cup Packed |->
        IF m \in DOMAIN data_table THEN data_table[m] ELSE PackedSample(m)]

Reports == INSTANCE BeaconReport WITH
    pending  <- bt_data_deque,
    tracked  <- Tracked,
    reported <- {daemon.entries[a] : a \in DOMAIN daemon.entries}

\* Every step of the threads is a step of BeaconReport or changes nothing it
\* sees: the mutex, the LIFO drain and the index of the packet loop are enough
\* for each report to be a snapshot that loses no beacon.
ImplementsReports == Reports!Spec

=============================================================================
