# Verification of rpzero_scanner

The repository turns Raspberry Pi Zeros into Bluetooth beacon scanners. Each Pi
runs `ble_scanner`, which hands a packet of beacons to the local alfred daemon;
alfred spreads it over the mesh; on a server `AlfredRX` collects the packets
into Redis, `coord_map` loads the coordinates of the Pis, and `indoor_locale`
computes where a beacon is.

This directory holds TLA+ modules of that system, TLC instances that check them,
and theorems proved with TLAPS. The repository has no tests; the reference for
everything here is its code.

## 1. Inventory

### The parts

| part | source | state | operations | correct when |
|---|---|---|---|---|
| scanner process | `blAlfred_scanner/scanner_alfred/src/ble_scanner.c` | `bt_mutex`, `g_bt_data_deque`, `g_mac_filter_table`, `mac_filter_rdy`, `white_list_enabled`; local to the data thread: `key_list`, `data_table`, the packet | `main`, `bt_thread_func`, `ble_discovered_device` (called by gattlib in the scan thread), `data_update_thread_func`, `read_mac_list_thread` | callback and drain exclude each other, list and table agree, each packet is a snapshot of the tracked beacons that fits, silent beacons go, heard beacons arrive |
| deque | `deque.c` | linked nodes, head, tail, count | append, pop, peek, count at the head; the rest is not called by the scanner | a double-ended queue; no freed node is followed |
| hash table | `hashtable.c` | chains, size, capacity | setup, destroy, insert, contains, lookup, erase, clear, reserve | a map; no assertion trips |
| array list | `arraylist.c` | buffer, size, capacity | add, insert, remove, get, set, slice, splice... | a sequence; the buffer is not left |
| alfred client | `client.c` | a socket per call | `alfred_send_data` | the packet arrives, or is lost as a whole |
| gattlib's scan | `blAlfred_scanner/dbus/gattlib_adapter.c`, `bluez/gattlib_adapter.c` | D-Bus: adapter, scan loop, timeout, handlers, discovered devices; BlueZ: a raw HCI socket and its filter | open, scan enable / disable, close | a scan ends, reports each device once and leaves nothing behind |
| gattlib's connections over D-Bus | `dbus/gattlib.c`, `gattlib_notification.c`, `gattlib_char.c`, `gattlib_stream.c` | per connection a context, a main loop, an event thread, a list of notified characteristics | connect, disconnect, discover, read, write, notify, streams | nothing freed is used, events are dispatched, calls return |
| gattlib's connections over BlueZ | `bluez/gattlib_connect.c`, `gattlib_discover.c`, `gattlib_read_write.c` | one thread with its loop and a count; per connection the GAttrib, its sources, the argument of a connect | the same, and `gattlib_connect_async` | the same |
| gattlib's helpers | `common`, `dbus/gattlib_advertisement.c` | none | parse UUIDs, advertisements, Eddystone | (not modelled) |
| alfred receiver | `alfred_rx/src` | the map from beacon to readings | request, read packets, add to streams | every complete entry reaches the stream of its beacon |
| localisation | `indoor_locale/src/main.rs` | none | read the last entry, keep one floor, solve | uses at least three nodes of one floor |
| coordinate loader | `coord_map/src/main.rs` | the `node_coords` hash in Redis | delete, set line by line | readers see the old or the new map |

The sources of BlueZ (`bluez/bluez4`, `bluez/bluez5`), the D-Bus interface descriptions, the
logging backends and the build trees are vendored, generated or output only, and are not
modelled. They are nearly nine tenths of the repository's C: the program itself has some
7900 lines.

### How they interact

The scan thread locks `bt_mutex`, enables a scan, and gattlib runs a GLib loop *in
that thread* that calls `ble_discovered_device` for each device; the callback
appends a sample to the deque without locking. When the scan's timeout ends the
loop the thread unlocks, closes the adapter and starts again. The data thread locks
the mutex in between, pops all samples into `data_table` and `key_list`, unlocks,
packs an entry for each listed beacon, removes the expired ones from both indexes
in the same loop, and writes the packet to alfred's socket. The whitelist thread
replaces `g_mac_filter_table` each minute without any lock, while the callback
reads it. `main` creates the three threads in the order scan, data, whitelist.

gattlib has two backends with one interface (`include/gattlib.h`); `CMakeLists.txt` takes the
D-Bus one from BlueZ 5.42 on, and the scanner is built with it. Over D-Bus every loop, of a
scan, of a connect, and of the event thread of each connection, iterates GLib's default context:
one thread owns it at a time and dispatches for all. Over BlueZ one thread runs a context
that all connections attach their sources to, and a scan polls in the caller's thread.

### What is hard

* Interleavings: the deque is protected only because the mutex is held during
  the whole scan; the whitelist table is not protected at all; threads use what
  threads created later set up.
* Order: samples are drained newest first, and each overwrites the one before.
* Iteration with removal: an eviction shifts the list under the loop's index.
* Failures: most results (`gattlib_get_rssi_from_mac`, `ht_setup`, `ht_insert`,
  the key's `malloc`, `alfred_send_data`) are ignored, and one error path keeps the mutex.
* Time: expiry subtracts timestamps taken by two threads.
* Loops: GLib forgets a quit that comes before the loop runs; a late `ServicesResolved` quits
  whatever loop the connection has by then; a discovery nests the dispatch of the context it is called in.
* Lifetimes: timeouts, handlers and answers that come after what they point to was freed.
* Memory: a pop leaves dangling pointers behind, a remove moves a cell too many.

`PROJECT.json` lists the hazards one by one, each at its line.

## 2. Modules

| module | models | role |
|---|---|---|
| `Scanner` | `ble_scanner.c`, `alfred_send_data` | the process: main and its three threads, one action per step between two points where another thread can matter |
| `BeaconReport` | the same, seen by alfred | abstract specification: hear, absorb, report in one step |
| `MCScanner` | | instances for TLC |
| `Scanner_proofs`, `Deque_proofs`, `HashTable_proofs`, `ArrayList_proofs`, `Scans_proofs`, `Gattlib_proofs`, `AlfredRx_proofs`, `Locale_proofs` | | the theorems about the module each is named after |
| `Deque` / `DequeSpec` / `MCDeque` | `deque.c` / its comments | linked list on an explicit heap / double-ended queue |
| `HashTable` / `MapSpec` / `MCHashTable` | `hashtable.c` / its comments | chains with growth and failing malloc / map |
| `ArrayList` / `ListSpec` / `MCArrayList` | `arraylist.c` / its comments | buffer cell by cell / sequence |
| `ScanClient` | `include/gattlib.h` | what the two backends share of a scan |
| `GattScan` | `dbus/gattlib_adapter.c` | adapter, scan loop, timeout, signal handlers, disable from two threads |
| `HciScan` | `bluez/gattlib_adapter.c` | raw socket, its filter, the poll (version 5) or select (version 4) loop, disable from two threads |
| `Scans` | `CMakeLists.txt` | composes the two: a build has one backend |
| `GattClient` | `include/gattlib.h` | what the two backends share of connections: a client that makes one call at a time |
| `GattDbus` | `dbus/gattlib.c`, `gattlib_notification.c` | connect, event threads, property changes, notifications, disconnect |
| `GattBluez` | `bluez/gattlib_connect.c`, `gattlib_discover.c`, `gattlib_read_write.c` | the shared thread, connect, late answers, nested discovery, notifications, requests, disconnect |
| `Gattlib` | `CMakeLists.txt` | composes the two |
| `AlfredRx` / `MCAlfredRx` | `alfred_rx/src/client.cpp` | one execution after another: read packets, gather, add to streams |
| `Locale` / `MCLocale` | `indoor_locale/src/main.rs`, `coord_map/src/main.rs` | localisation and loader against each other, a Redis command at a time |
| `Multilateration` / `MCMultilateration` | `multilateration` of `main.rs` | the linear equations on integers; `Locale` uses it to tell a singular matrix |

`Scanner` uses a sequence, a function and a sequence for its deque, `data_table` and
`key_list`. That is justified by the three data-structure runs: within the calls the
scanner makes, the C code implements exactly these (`ImplementsDeque`,
`ImplementsMap`, `ImplementsList`). What happens to them when malloc fails is
carried over by hand: a lost chain (`Without` in `DataDrain` and `FilterInsert`), an
abort (`DataGrowFails`, `FilterInsertFails`).

### Scanner: state and actions

`pc` says where each thread stands. A location is the code up to the next
interaction with shared state.

| thread | locations, with the lines they stand for |
|---|---|
| main | `create bt` 239, `create data` 244, `create filter` 248, `join` 254-267 |
| bt | `open` 125, `lock` 131, `enable` 132, `scan` (the GLib loop), `filter` 92-102, `walk` (inside `ht_contains`), `append` 103-110, `unlock` 139; `done` after an error |
| data | `create` 153-167, `lock` 171, `drain` 172-188, `pack` 200-226, `sleep` 194 and 228 |
| filter | `alloc` 34, `setup` 35, `reset` 42-44, `resetup` 45, `fopen` 48, `read` 55-61, `grow` (in `ht_insert`, between freeing the old array and using the new one), `sleep` 64 |

The callback is three steps because the whitelist thread can act between its test for
NULL, the assertion and walk of `ht_contains`, and the append. `filter_state` tells what
the pointer `g_mac_filter_table` leads to: nothing, memory `ht_setup` has not
written (`raw`), a table, a table whose array was freed (`freed`), or one whose array
was not allocated (`unset`). A callback that walks a table in any state but `ready`
may get any answer or end the process. `DataPack` is one turn of the loop, eviction and shift
included; `i` counts from 1.

`Faults` names the calls that may fail in an instance; a failing call takes the error path
of the code, or the consequence of ignoring it. The history variable `lost` (whitelist addresses lost to a failed allocation) appears in
properties only.

Abstractions: addresses are model values; rssi is a member of `Readings`, never
interpreted; the clock is `now`, which never goes back (`time()` could, if the system
clock is set; then the age properties do not hold); sleeps are untimed; writes to the socket
reach alfred as a whole or not at all; formatting and printing are left out.
`white_list_enabled` is kept although nothing sets it to 1, so the branches that depend on it
are dead in the model as in the code.

### The data structures

`Deque` keeps freed nodes as pointers one may still hold: a step that dereferences one, or
NULL, makes `wild` true. Several functions are wrong by themselves
(`deque_appendleft` on an empty deque, `deque_popleft`, `deque_remove` at an end,
rotation of a single element, `deque_clear` and `deque_copy`, which follow `next` from the head), so
the history variable `use` tells clients apart: *tame* ones only append, peek,
count and pop, as the scanner, or only append and read from the tail. The
promises are for tame clients; `CountBacked` is for all. `HashTable` and `ArrayList` have no
such restriction, except that a destroyed table is only set up again.

### gattlib's scan

`client` is the thread that uses the adapter, `scanner` the body of `_ble_scan_loop`, which runs
in that thread (`client = "blocked"`) or in one of its own. `disabling` is the place in
`gattlib_adapter_scan_disable` of its two possible callers: the loop's thread (at the end of
the scan, or from within the discovery callback) and any other one. Every step of disable
reads `scan_loop` again, as the C code does. Main loops have the reference count
and the running flag of GLib; using one with no reference left makes `wild` true. `raced` is
a history variable: a disable overlapped another one, or the part of `_ble_scan_loop` before
`g_main_loop_run` has set the flag. A client enables and closes only when no scan runs,
and devices are signalled only while the loop runs.

The scanner process uses this in the simplest way: a blocking scan with a timeout, and a disable
after it, which does nothing. `Scanner` has that use in `BtEnable`, `BtDiscover` and `BtTimeout`:
that a scan reports a device once is `ReportedOnce`, that it ends is `ScanEnds`.

`HciScan` is the BlueZ backend. `client` goes through `gattlib_adapter_scan_enable` request by request
and then through `ble_scan`; `left` is the argument of the next poll. Every request of libbluetooth
(`hci_send_req`) saves the socket's filter, sets its own, waits, and puts back what it found: `requested` is
that of a disable in another thread, which may so interleave with `TakeFilter` and `RestoreFilter`, the two
places where `ble_scan` does the same. `raced` then says that they overlapped. The model has
both versions, as they differ: select keeps what is left of the timeout, poll does not; select
reports an error as readable, poll as an error that the code passes over.

### gattlib's connections

A member of `Conn` is one call of `gattlib_connect`, with the connection it makes. `call` is the place of
the client in the call it makes; `memory` is that of `gatt_connection_t` and its context. `wild` collects what was
used after it was freed, and a behaviour stops there: nothing is claimed of what
follows.

In `GattDbus`, `is_running` has the loops `<<"connect", c>>` and `<<"event", c>>` that `g_main_loop_quit` has not
ended, `owner` the thread that iterates the default context (the client, or the event
thread of a connection), and `handling` the signal that its dispatch is in. `Loop(c)` is what
`conn_context->connection_loop` points to at each place of `gattlib_connect`, which is what a late
`ServicesResolved` quits. Since the thread of another connection may dispatch for this one, connect makes its
loop (line 197), adds the timeout (199) and runs the loop (201) in three steps, and the handler of `ServicesResolved`
removes the timeout (52, `RemoveTimeout`) and quits the loop (55, `QuitLoop`) in two. `early` is a history of what that
handler, or the timeout, did to a connection before connect had come to the line it was meant for: a removal before 199 leaves a
timeout that outlives its loop, and a quit before 201 is forgotten, so that connect may wait for ever.
`notified` counts the handlers that `notified_characteristics` lists, `untracked` has the
connections with one it does not list: that of a battery, or one whose entry could not be
allocated. `Acquire`, `Leaves` and `Resolve` are GLib's and bluetoothd's part.

In `GattBluez`, a thread is named after the connection that started it; `current` is the one whose context
`g_gattlib_thread` holds, to which every new source goes (`AttachTo`). `on` says which thread's context
each source of a connection is attached to. `nested` is the stack of connect callbacks a
thread is in: `io_connect_cb` starts a discovery and iterates the context of `g_gattlib_thread` until it
is done, which is its own only as long as no other thread came. `arg` is the `io_connect_arg`, on the
stack of `gattlib_connect` or on the heap of `gattlib_connect_async`, and `gone` when its function returned
or freed it. `busy` is the end of a callback that a thread is at: connect polls the marks that
`connection_timeout` and `io_connect_cb` set (417), destroys the timeout (422, `BluezConnectWakes`), looks at the marks again (424,
`BluezConnectReturns`), and may return before they have ended. `BluezTimerFires` and `BluezTimesOut`,
`ConnectCallback` and `ConnectCallbackEnds`, `EventArrives` and `EventHandled` are the two halves of a callback. `UsedAlive` says of each use of
something freed which order of steps it takes: the argument, by the answer to a connect that timed out; the argument again
(line 164), by a callback whose mark let the client return; the argument, by a timer that fired as the answer came; and the
source of a timer (line 422), when it had fired by the time the client looked, besides the answer. `ref` never counts the connection that starts the thread, so it is never positive:
a second connect starts a second thread, and no disconnect ever ends a loop (`TypeOK`, proved).

The client passes no adapter of its own, and one address type. Discovery, reads and
writes over D-Bus are single synchronous calls that keep nothing, and are left out; over BlueZ they
are `Request` and `Reply`, as they wait for the loop.

### The server

`AlfredRx` reads a reply packet by packet: the daemon, which is external, answers with packets of any of the
scanners in any order, and each read may be the last (`ReadEnds`, `ReadStatusError`). The
packets of an instance are those `Scanner` can send: distinct beacons, and a header that counts
evicted ones too (`PacketSound`), and one that is cut in the middle of an entry. Lengths are those the header announces, in bytes, with the
code's unsigned difference; what memcpy would find past the data is any entry. A length that does not cover the count
(0 or 1) makes the difference wrap, and the code reads on past the packet: `LongEnough` excepts it. `Store` adds one entry to one stream;
`StoreThrows` is an exception of redis++. `parsed` and `before` are history variables.

`Locale` interleaves three programs at the level of Redis commands: the receiver (`Xadd`, with
entries that also repeat a name), the loader (`LoadDel`, `LoadLine`, dying anywhere), and the localisation,
which reads the entry once, then the floor of each node, then the coordinates of the nodes it
kept. Every command may fail (`Fails`), and then the program panics: the loader leaves the hash as it is, the localisation ends
`"unanswered"`. The first missing name panics too, and the first field that does not parse (`Malformed`): coordinates at
line 115, or a reading on the floor that is kept at line 84. Names of nodes are abstract; the code cuts them from the address.
`coords_then` and `reloaded` are history variables.

## 3. Runs

| run | instance | shows |
|---|---|---|
| `Scanner_core` | 3 beacons (symmetric), clock 0..1, expiry 0, 2 waiting samples, lost sends, failing adapter | mutex, drain, both indexes, order of samples, ages, soundness of packets, where the process may abort, refinement of `BeaconReport` |
| `Scanner_failures` | 1 beacon, all failures, whitelist of two lines that makes a table of capacity 1 grow | each reload of the whitelist ends with the file; fires every action |
| `Scanner_live` | 2 beacons, no failures, fairness | heard beacons are reported, silent ones forgotten, and withdrawn from the daemon's packet |
| `Scanner_scan_failure` | violation, fairness | finding 1 |
| `Deque` | 3 nodes, 2 values, 3-bit count | memory safety with the whole list reachable, refinement of `DequeSpec`, count backed by nodes |
| `HashTable` | 4 keys that collide in two chains and part in four, minimum capacity 2, load factor 2, failing malloc | well-formed chains whose entries size covers, no assertion, refinement of `MapSpec` |
| `ArrayList` | 2 items, initial capacity 1, at most 4 items, hence two doublings | refinement of `ListSpec`, the extent of the overrun |
| `Scans` | 2 scans, 2 devices, with and without timeout, either backend, all failures, fairness | no freed loop or list is used, by a late timeout neither, nothing is left between scans (loops, handlers, the socket's filter), devices are reported once, scans end; with the stated exceptions |
| `Gattlib` | 2 connections, either backend, all failures, fairness | nothing freed is reached, each connection is served, connect and disconnect return; with the stated exceptions |
| `AlfredRx` | 3 nodes (symmetric), 2 beacons, 4 packets, one of them cut within an entry, 2 executions that store | each execution reads inside its packets and stores every beacon of its reply whole and once, one reading of a node in an entry |
| `Locale` | 7 nodes, of which two share a name, 2 files, 11 entries, commands of either program may fail, coordinates and readings that do not parse | the hash is what was loaded, verdicts follow the reference definition when all commands are answered, a position rests on three readings of nodes that span the plane |
| `Multilateration` | violation; 3 or 4 of 6 places at distance 1 or 10 around 4 beacons | finding 2 |

Deadlock is not checked in the runs of `Scanner`, the data structures, `AlfredRx` and `Gattlib`, nor for the fixed
number of nodes of `Multilateration`: the process may exit, abort, or have all threads returned, `HashTable` and `ArrayList` stop at an
assertion, the receiver may not be executed again, and a call of gattlib may wait for ever.

### Bounds

* Three beacons are the fewest with which an eviction in the middle of the list
  skips one beacon and passes a third; with expiry 0 and a clock of two values each
  sample can be fresh or expired, and a beacon evicted can be heard again. The expiry
  is only ever compared with a difference, so 0 stands for 30.
* `MaxQueue` 2 lets one drain meet two samples, of one beacon or two; `MaxKeys`
  stops failed insertions from lengthening the list for ever.
* `Scanner_failures` has one beacon because the whitelist thread multiplies the
  states; its properties are about one sample, the mutex and the file. The file names the beacon
  twice so that the second line meets a full table and an address already there.
* `HashTable` meets a growth to four chains with rehashing, the shrink of an emptied table, reservations
  above and below its threshold, and every failed allocation; capacities 2 and 7 instead of 8 and
  20 only make them happen sooner. `ArrayList` starts at one cell instead of four.
* In `Deque` three nodes are enough for a head, a tail and a middle, and for malloc
  to hand a freed node out again.
* `Scans` has two scans, so that what the first leaves (a handler, a timeout, a
  freed list, a controller that still scans) meets the second; three scans give nothing new. A timeout of 2
  lets an event come when part of it is over.
* `Gattlib` has two connections, so that one is made while the other has events, a thread takes
  the place of another, and a handler of one runs while the other is freed; one handler per connection, as
  only whether there is one matters. Three connections without failures were explored too (9.9 million states).
* In `AlfredRx` a packet has up to two beacons, its header announces as many or one more, and the data may end
  within an entry;
  the two executions let an entry meet an earlier one. `LengthBits` is 8, which the lengths do not reach, as
  lengths do not reach 32 bits in the code.
* The entries of `Locale` have too few nodes, one floor, a tie of two floors of three nodes, a reading at the
  cutoff, nodes in one line, a node on a floor that is not counted, and a reading that does not parse, on the floor that is kept
  or another; the second file moves a node, drops two, has coordinates that do not parse and ends with an empty line.
* `MCMultilateration` uses distances that the integer exponent of `rssi_to_distance` gives exactly.

Each state space is explored completely.

### Fairness

`FairSpec` gives weak fairness to main, the scan thread and the data thread: created
threads run, and the GLib loop ends at its timeout. It gives strong fairness to the two
lock operations: a thread whose mutex is free again and again gets it. POSIX does not
promise that, but between unlock (139) and the next lock (131) the scan thread
closes and opens the adapter with synchronous D-Bus calls, and the data thread sleeps
for seconds. The whitelist thread, the clock and the discovery of a given device owe
nothing. No liveness property needs fairness of discovery. `FairSpec` of `Scans` is weak fairness of
the thread that runs the scan, with a GLib that dispatches due timeouts, of time, and of a disable that has
begun; the client, the devices and failures owe nothing. In `Gattlib` a call that has begun goes on, created
threads run, and a handler or callback that has begun goes on to its end; GLib polls all sources of a context in each iteration, so that timeouts and loops
that were quit get strong fairness; a device owes no answer. The waits this leaves
open are named: `DbusWaitsForEver` (a disconnect before the event thread ran its loop, and a connect that was ended before
it ran its own and has no timeout any more) and `BluezWaitsForEver` (for the device, and a discovery whose thread was
replaced).

### Findings

1. `DataThreadServed`: a scan that fails leaves the mutex locked, against the
   purpose `ble_scanner.c:23` gives it.
2. `PositionRecovered`: the squared distances enter the equations of `main.rs:200` with the wrong
   sign, so the result is the position of the beacon only when all distances are equal. With the
   sign reversed the same run finds no error.

More disagreements came up that have no run of their own:

* The comment of `ble_scanner.c:210` speaks of the last datapoint, but the drain takes the newest
  sample first and keeps the oldest, so a beacon heard recently may be evicted on an older
  sample. (It also says one hour where the code says 30 seconds.)
* A device reported before the data thread has created the deque trips the assertion of
  `deque.c:156`, and the callback may meet a whitelist table that is not ready, against the assertion of
  `hashtable.c:158`: `AbortsOnlyInWindows` says that, while memory lasts, the process aborts nowhere else.
* `ht_swap` swaps the arrays of two tables and not their capacities. Nothing calls it.
* `gattlib.h:233` promises a scan that blocks until its timeout or a disable. Over D-Bus a disable of
  another thread that meets the start of the loop removes the timeout and is forgotten itself. Over
  BlueZ a disable does not end the scan at all, and version 5 gives each poll the whole timeout.
* `gattlib.h:223` has timeout 0 scan indefinitely; over BlueZ such a scan ends at the first moment without an event.
* `gattlib_connect.c:208` and `:502` say when the BlueZ thread is shared and when its loop ends; as the
  first connection is not counted neither happens (`Served`, `TypeOK`).
* Over D-Bus: a connect whose timeout expired counts as connected; a `ServicesResolved` that another connection's thread
  dispatches before the loop of connect runs is lost, with the timeout when that was there, so that connect waits for ever, and without it leaves a
  timeout that may quit a freed loop; one after connect quits the event loop; the signal of a battery is never
  disconnected; a disconnect before the event thread ran its loop joins it for ever; a failed
  `StartNotify` keeps its handle; `gattlib_disconnect` frees the adapter the caller passed;
  `gattlib_discover_char` lists handles up to 0xFF only.
* Over BlueZ: a connect that timed out leaves an attempt that writes to the returned stack frame; one that
  was answered may return while `io_connect_cb` is still to read its argument (line 164), which it may even free; one that
  connected and timed out destroys a timeout that is freed already (line 422), returns NULL and keeps the connection; an error
  is not looked at until the timeout;
  an indication is passed to the notification handler, behind the test for an indication
  handler (`gattlib_connect.c:75`).

## 4. Proofs

`Scanner_proofs` proves for every set of beacons, every whitelist, every expiry and
bound, and every set of failing calls unless said otherwise:

| theorem | property | argument |
|---|---|---|
| `TypeCorrect` | `TypeOK` | inductive; one frame lemma per group of variables says which actions touch it, one step lemma per group |
| `MutexHeld` | `MutexInv` | inductive with `TypeOK` |
| `DrainAlone` | `DrainUndisturbed` | from `MutexInv`: the append needs `pc["bt"]` in the callback, hence the mutex |
| `QueueOrdered`, `AgesNotNegative` | `QueueInOrder`, `AgeNotNegative` | inductive invariant `OrderInv` |
| `IndexesAgree`, `PacketsSound` | `BeaconsListedOnce`, `PacketSound` | inductive invariant `IndexInv`; assumption `Faults \cap {"key", "entry"} = {}` |
| `WhitelistIsFile` | `WhitelistLoaded` | inductive invariant `ReadInv` |
| `AbortsInWindows` | `AbortsOnlyInWindows` | inductive invariant `WindowInv`: the deque exists once the data thread is past `create`, and each state of the table but a ready one belongs to locations of the whitelist thread; assumption that memory lasts |

`QueueInOrder` is not inductive: it says nothing of a drain in progress, during which
the table holds samples newer than those still waiting. `OrderInv` adds that everything, waiting or
tracked, is no newer than `now`, and that what the table has from earlier drains is no
newer than what waits, which the mutex protects until the drain is over.

`IndexInv` adds the state of the packet loop, `PackingInv`: after `i - 1` turns `tx_buf`
has `i - 1` entries, the header is between the length of the list and that plus `i - 1`
(each turn drops at most one beacon and moves the index by one), and no beacon still to come is in
the packet. It needs `BeaconsListedOnce`, without which the same beacon could be
packed twice, and hence the assumption on allocations. That a packet fits `tx_buf` follows because entries with
different addresses are no more than the addresses (`DistinctFits`, by the pigeonhole
principle); its assumption `RoomAssumption` is that `tx_buf` has room for the beacons in range,
2700 in the code, which a crowd of devices with random addresses could exceed.

`ReadInv` says that the table and the lost addresses are the lines read so far, and that the file
is opened with an empty table. That the latter survives failed allocations rests on the size
field: a table of size 0 has no address.

`Gattlib_proofs` proves about `Gattlib`, for any connections, handlers and failing calls:

| theorem | property | argument |
|---|---|---|
| `TypesOK` | `TypeOK` | `IInv`, the inductive invariant of whichever backend is in use |
| `AllUsedAlive` | `UsedAlive` | the same |
| `AllServed` | `Served` | the same |

`IInv` is `DbusInv` or `BluezInv`. `DbusInv` relates the place of the client in a call to the loops that run, the
timeouts that wait, the owner of the context and the thread of the connection: for instance a pending timeout has
its connect loop unless `early` says that it was looked for too early, and a connection that is not returned yet has no
thread. `BluezInv` says that the count is never positive, hence that no loop is ever quit; that each source is attached to a
thread whose loop runs; that a pending timer has its argument; and, in `BusyInv`, at which progress of its connection a
thread can be within a callback. The two never touch each other's variables, so a
step preserves `IInv` if each backend's step lemma (`DbusStep`, `BluezStep`) does.

`Scanner_proofs` also has the refinement:

| theorem | property | argument |
|---|---|---|
| `ReportsImplemented` | `ImplementsReports` | one lemma per action, on top of `IndexInv` and `OrderInv`; same assumption on allocations as `PacketsSound` |

A report of `BeaconReport` is one step, whereas the packet is built in as many as there are beacons and
drops beacons on the way. The mapping keeps a dropped beacon as tracked until the packet is sent (`Tracked`), and
`BuiltInv` says why that is right: what is in the packet and no longer in the table had expired when
the packet was begun, what is in both is the same sample, and a packet from which nothing was
dropped has gone through the whole list. The drain, which takes the newest sample first, is
`Absorb` of the last one, and a beacon that becomes tracked is never one dropped from a packet under way, because the
drain comes before the packet.

`Scans_proofs` proves about `Scans`, for any number of scans and devices, timeouts and failing calls:

| theorem | property | argument |
|---|---|---|
| `TypesOK`, `AllUsedAlive`, `ScansLeaveNothing`, `DevicesReportedOnce` | `TypeOK`, `UsedAlive`, `NothingLeft`, `ReportedOnce` | `IInv`, which is `DbusInv` or `HciInv` |

`DbusInv` gives, for scans that were not `raced`, the references of each loop by the places of the scanning thread
and of the two callers of disable, says which loop a pending timeout holds, and counts the handlers that
failed starts left. `HciInv` has the filter of the socket at each place of `ble_scan`, and the one that a request in
progress will put back.

`AlfredRx_proofs`, for any nodes, beacons and packets, any cut of the reply and any failing store:

| theorem | property | argument |
|---|---|---|
| `TypeCorrect` | `TypeOK` | inductive |
| `NeverReadsPast` | | inductive invariant `LoopInv`: `curr_len` is where entry `i + 1` begins, so the code's test of the length admits an entry only if it is there; for any packets, and about those whose length covers the count (`LongEnough`). No run checks this one alone; `StoredWholeOnce` contains it |
| `StoresWholeOnce` | `StoredWholeOnce` | `GatherInv`, what of the reply was read is in the map; assumptions `Counted`, `LengthsFit` and `LengthsCover` |
| `OneOfEachNode` | `OneReadingPerNode` | `EachInv`; assumptions `NamedOnce` and `LengthsCover` |

`Counted` says that a packet announces no fewer entries than it has, `NamedOnce` that it names a beacon
once: both are what `PacketsSound` proves of the packets of the scanner. `LengthsFit` says that the length of a packet fits the
unsigned field it is computed in: a packet is at most the 65535 bytes of a length field of alfred, in 32 bits. `LengthsCover` says that
it is at least that of the count, as the scanner always writes one.

`ArrayList_proofs` and `Deque_proofs`, for any items, capacity, heap and width of the count:

| theorem | property | argument |
|---|---|---|
| `ArrayList_proofs!TypeCorrect` | `TypeOK` | `ArrayInv`: also the capacity is positive, else the doubling of `arraylist_allocate` never ends |
| `OverrunsOnlyWhenFull` | `OverrunOnlyWhenFull` | from `ArrayInv`, action by action |
| `ListImplemented` | `ImplementsList` | each operation on the cells is the one on the sequence of the first `size` of them; that the doubled capacity is enough needs that there is a least power of two above any number |
| `Deque_proofs!TypeCorrect` | `TypeOK` | inductive |
| `CountsWhatIsThere` | `CountBacked` | `BackedInv`: as long as no bad pointer was followed, `number_items` is the number of nodes but for those that `deque_clear` leaked, which nothing points to |
| `TameIsSafe`, `DequeImplemented` | `MemorySafe`, `ImplementsDeque` | `DequeInv`: the allocated nodes form a sequence that ends at the head and is linked by `prev`; while nothing was popped it begins at the tail and is linked by `next` too |

The model walks the list with a recursive function; that the walk is that sequence is the work of
`HopPath`, `WalkOfChain` and the lemmas before them. `ASSUME WidthAssumption` says that the counter has a natural number
of bits, 32 in the code (`uint32_t`).

`HashTable_proofs`, for any keys, capacities, minimum capacity and load factor, with `malloc` failing at any time:

| theorem | property | argument |
|---|---|---|
| `TypeCorrect`, `ChainsWellFormed`, `EndsOnlyAfterFailure` | `TypeOK`, `WellFormed`, `NeverEnds` | `IInv` |
| `MapImplemented` | `ImplementsMap` | from `IInv`, call by call: what a call does to the set of entries (`UpdatedIs`, `PushedIs`, `ErasedIs`, `RehashedHolds`) is what the map does (`MapOfUpdated`, `MapOfWithout`) |

`IInv` adds to the properties what they rest on: the capacity is at least the minimum, so that doubling it
leaves room; until `malloc` fails there are no more entries than chains, which is what the assertions test; the array is lost only to a failed `malloc`;
and the threshold is the capacity times the load factor, without which `ht_reserve` might shrink the array
below the number of entries (`ReservesMore`). `RehashedHolds` follows the two loops of `_ht_rehash`: each node moved
meets an array in which its key is not yet, so the chains stay well formed after every single node. The
assumptions are that a hash is a natural number and that the minimum capacity and the load factor
are not zero.

`Locale_proofs`, for any names, any files of node coordinates and any entries:

| theorem | property | argument |
|---|---|---|
| `TypeCorrect` | `TypeOK` | `TypeInv`, with the values of each list |
| `HashHoldsFile` | `HashIsFile` | inductive with `TypeInv`: `WrittenOn`, a line writes its name and leaves the others |
| `EndsAsAsked` | `EndsAsSpecified` | `IInv` and the property itself; it is about localisations whose commands were all answered and that no reload overlapped |
| `ThreeNodes` | `RestsOnThree` | `IInv`: three nodes that span the plane are three points, hence three names |

`IInv` adds `Progress`, what the lists hold at each place (`Qualified`: the readings kept are, one by one,
those of a floor that most nodes are on, above the cutoff), and `Unraced`, that without a reload what was read is what the hash had
at the start. `SingularInLine` is the algebra under both theorems: the matrix `A^T A` of any number of nodes is
singular just when all of them are in one line. Adding a row to a matrix adds to its determinant the squares of
the cross products with the rows before (`DeterminantGrows`), so that the determinant vanishes only if all
of these do. It holds for whole-number coordinates: `filter_floor` parses all three of a
node as `i32` (line 115) and panics for others, so `FileAssumption` has three whole numbers or a value that is `Malformed`. With floating-point rounding a
matrix of nodes nearly in one line may come out either way.

Several of these proofs need induction over data, which the library states with operators no installed prover
can instantiate. They get it from a set: `Least` takes the least number of a set of naturals from well-founded
`<`, `Induct` follows, and a lemma defines the set of numbers for which its claim holds. Recursive functions
(`Walk`, `Total`, `Kept`, `Moved`, `Rehashed`, the doubling) are unfolded from their `CHOOSE` after a proof that such a function
exists.

Only model-checked: liveness under fairness and `ENABLED`, which are out of the prover's reach (`ScanEnds`, `CallsReturn`, the
liveness of `Scanner`). The findings are counterexamples of TLC.

## 5. Not modelled

* Of gattlib over D-Bus: discovery, reads, writes, streams, rssi, and an adapter shared by connections; over BlueZ:
  connecting with two address types in turn, two requests at the same time on the socket of an adapter.
* Advertisement parsing, Eddystone, UUIDs: stateless, not called by the scanner.
* Floating-point rounding in `multilateration`: a matrix that is nearly singular, distances below one metre.
* Coordinates with decimals, which line 175 of the localisation parses and line 115 refuses: they reach line 175 only when a reload comes in
  between. Readings so low that the subtraction of line 156 overflows.
* Packets whose length does not cover the count of their entries: the receiver reads past them (`client.cpp:174`), and no
  property is claimed of it. The scanner always writes the count.
* In `Scanner`: a line of the whitelist that does not parse is met again for ever, and the model stays there, whereas the code also goes on
  inserting the address of the line before, or an uninitialised one; and the failed allocation when the emptied table of
  beacons shrinks (`hashtable.c:239`), which `HashTable` has.
* In `ArrayList`: calls of insert, remove and splice with an index out of range, which the code does not check.
* Several executions of the receiver or the loader at the same time.
* `ht_copy`, `ht_move` and `ht_swap`, called by nothing; the static variant of the deque, not built.
* BlueZ, GLib, the alfred daemon and Redis, which are external. The repository vendors two versions of BlueZ
  with their tools, tests and protocol definitions, which make up most of its lines; no more than its
  GATT client is linked, and only by the backend the scanner is not built with. A model of them would be one of
  another project, so the share of all lines that `PROJECT.json` maps stays small, whereas of the program's own
  code the parts that keep state or run concurrently are covered.

## 6. Plan

1. `Scanner` with its abstract specification, runs and safety theorems: done.
2. The data structures it rests on, with their abstract specifications: done.
3. The server (`AlfredRx`, `Locale`, `Multilateration`): done.
4. gattlib: scanning (`Scans`) and connections (`Gattlib`) over both backends: done, with the safety theorems of `Gattlib`.
5. Safety theorems of `Scans`, `AlfredRx`, `ArrayList`, `Deque`, `HashTable` and `Locale`, and the refinements of
   `BeaconReport`, `DequeSpec`, `ListSpec` and `MapSpec`: done.
6. `Server`: `AlfredRx` and `Locale` composed on the streams, so that the entries `Locale` assumes are those
   `AlfredRx` adds.
