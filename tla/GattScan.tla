------------------------------ MODULE GattScan ------------------------------
(***************************************************************************)
(* Scanning with a gattlib adapter (dbus/gattlib_adapter.c): opening the   *)
(* adapter, enabling a scan in the calling thread or in one of its own,    *)
(* the GLib loop of the scan with its timeout and its signal handlers, and *)
(* disabling, by the discovery callback or by another thread.  GLib and    *)
(* the D-Bus daemon are modelled by what this file sees of them.           *)
(***************************************************************************)
EXTENDS ScanClient

VARIABLES
    scanner,    \* where _ble_scan_loop stands, in the thread that runs it
    disabling,  \* where gattlib_adapter_scan_disable stands, by its caller
    \* struct gattlib_adapter; scan_loop is the number of the scan, or NULL
    device_manager, enabled_filters, timeout_id, scan_loop, discovered_devices,
    list_freed, \* discovered_devices points to freed memory
    \* what GLib and BlueZ keep
    loops,      \* [refs, running] of the main loop of each scan, freed at 0 refs
    entering,   \* the argument of g_main_loop_run
    timer,      \* the loop that the pending timeout quits
    handlers,   \* how many pairs of signal handlers are connected
    discovering,
    wild,       \* freed memory was used: what follows is not to be relied on
    failed      \* history: starts that failed since the adapter was opened

scan_vars == <<enabled_filters, timeout, discovered_devices, list_freed, reported>>
glib_vars == <<loops, entering, timer, timeout_id, scan_loop>>
bluez_vars == <<device_manager, handlers, discovering, failed>>
dbus_vars == <<scanner, disabling, enabled_filters, discovered_devices, list_freed, glib_vars,
               bluez_vars, wild>>

NULL == 0
Caller == {"loop", "api"}
NoLoop == [refs |-> 0, running |-> FALSE]

DbusInit ==
    /\ scanner = "none"
    /\ disabling = [c \in Caller |-> "no"]
    /\ enabled_filters = {} /\ discovered_devices = {} /\ list_freed = FALSE
    /\ loops = [s \in 1 .. MaxScans |-> NoLoop]
    /\ entering = NULL /\ timer = NULL /\ timeout_id = 0 /\ scan_loop = NULL
    /\ device_manager = FALSE /\ handlers = 0 /\ discovering = FALSE /\ failed = 0
    /\ wild = FALSE

\* The scan runs, or is to run: a thread other than the scan's owes it care.
Scanning == scanner # "none" \/ client \in {"start", "create"}
Starting == scanner \in {"new", "timer", "run", "enter"}

(***************************************************************************)
(* Opening and closing.  A client closes when nothing of the scan runs.    *)
(***************************************************************************)
Open ==
    /\ client = "closed"
    /\ client' = "open"
    /\ enabled_filters' = {} /\ timeout' = 0 /\ discovered_devices' = {} /\ list_freed' = FALSE
    /\ timeout_id' = 0 /\ scan_loop' = NULL
    /\ device_manager' = FALSE
    /\ reported' = [d \in Device |-> 0]
    /\ UNCHANGED <<scanner, disabling, loops, entering, timer, handlers,
                   discovering, failed, scans, wild, raced>>

\* the handlers go with the object manager, and BlueZ ends the discovery of a
\* client that is gone
Close ==
    /\ client = "open" /\ ~Scanning
    /\ disabling["api"] = "no"
    /\ client' = "closed"
    /\ device_manager' = FALSE /\ handlers' = 0 /\ discovering' = FALSE
    /\ failed' = 0
    /\ UNCHANGED <<scanner, disabling, scan_vars, glib_vars, scans, wild, raced>>

(***************************************************************************)
(* _gattlib_adapter_scan_enable_with_filter                                *)
(***************************************************************************)
\* The filter is set and the object manager is there, or the call returns.  A
\* client enables one scan at a time.
Enable ==
    /\ client = "open" /\ ~Scanning
    /\ disabling["api"] = "no"
    /\ scans < MaxScans
    /\ \/ /\ client' = "connect"
          /\ device_manager' = TRUE
       \/ /\ Fails("filter") \/ (Fails("manager") /\ ~device_manager)
          /\ UNCHANGED <<client, device_manager>>
    /\ UNCHANGED <<scanner, disabling, scan_vars, glib_vars, handlers, discovering,
                   failed, scans, wild, raced>>

\* memset and the two g_signal_connect
Connect ==
    /\ client = "connect"
    /\ client' = "start"
    /\ scans' = scans + 1
    /\ enabled_filters' \in SUBSET {"NOTIFY_CHANGE"}
    /\ timeout' \in Timeout
    /\ discovered_devices' = {} /\ list_freed' = FALSE
    /\ reported' = [d \in Device |-> 0]
    /\ timeout_id' = 0 /\ scan_loop' = NULL
    /\ handlers' = handlers + 1
    /\ UNCHANGED <<scanner, disabling, loops, entering, timer, device_manager,
                   discovering, failed, wild, raced>>

\* an error returns with the handlers connected
StartDiscovery ==
    /\ client = "start"
    /\ \/ /\ client' = "create"
          /\ discovering' = TRUE
          /\ UNCHANGED failed
       \/ /\ Fails("discovery")
          /\ client' = "open"
          /\ failed' = failed + 1
          /\ UNCHANGED discovering
    /\ UNCHANGED <<scanner, disabling, scan_vars, glib_vars, device_manager, handlers,
                   scans, wild, raced>>

\* The scan loop is called, or gets a thread of its own; a thread that is not
\* created leaves the handlers connected and the discovery on.
RunLoop ==
    /\ client = "create"
    /\ \/ /\ client' \in {"blocked", "open"}
          /\ scanner' = "new"
          /\ UNCHANGED failed
       \/ /\ Fails("thread")
          /\ client' = "open"
          /\ failed' = failed + 1
          /\ UNCHANGED scanner
    /\ UNCHANGED <<disabling, scan_vars, glib_vars, device_manager, handlers, discovering,
                   scans, wild, raced>>

(***************************************************************************)
(* _ble_scan_loop                                                          *)
(***************************************************************************)
LoopNew ==
    /\ scanner = "new"
    /\ scanner' = "timer"
    /\ loops' = [loops EXCEPT ![scans] = [refs |-> 1, running |-> FALSE]]
    /\ scan_loop' = scans
    /\ UNCHANGED <<client, disabling, scan_vars, entering, timer, timeout_id, bluez_vars,
                   scans, wild, raced>>

LoopTimer ==
    /\ scanner = "timer"
    /\ scanner' = "run"
    /\ IF timeout > 0
       THEN timeout_id' = scans /\ timer' = scan_loop
       ELSE UNCHANGED <<timeout_id, timer>>
    /\ UNCHANGED <<client, disabling, scan_vars, loops, entering, scan_loop, bluez_vars,
                   scans, wild, raced>>

LoopRun ==
    /\ scanner = "run"
    /\ scanner' = "enter"
    /\ entering' = scan_loop
    /\ UNCHANGED <<client, disabling, scan_vars, loops, timer, timeout_id, scan_loop,
                   bluez_vars, scans, wild, raced>>

\* g_main_loop_run refuses NULL, and holds a reference while it runs
LoopEnter ==
    /\ scanner = "enter"
    /\ \/ /\ entering = NULL
          /\ scanner' = "ended"
          /\ UNCHANGED <<loops, wild>>
       \/ /\ entering # NULL
          /\ scanner' = "looping"
          /\ wild' = (wild \/ loops[entering].refs = 0)
          /\ loops' = [loops EXCEPT ![entering].refs = @ + 1, ![entering].running = TRUE]
    /\ UNCHANGED <<client, disabling, scan_vars, entering, timer, timeout_id, scan_loop,
                   bluez_vars, scans, raced>>

\* g_main_loop_quit
Quit(l) == [loops EXCEPT ![l].running = FALSE]

\* stop_scan_func; GLib removes the source, timeout_id stays
TimeoutFires ==
    /\ scanner = "looping" /\ disabling["loop"] = "no"
    /\ timer # NULL
    /\ timer' = NULL
    /\ wild' = (wild \/ loops[timer].refs = 0)
    /\ loops' = Quit(timer)
    /\ UNCHANGED <<client, scanner, disabling, scan_vars, entering, timeout_id, scan_loop,
                   bluez_vars, scans, raced>>

ListedNever(d) == discovered_devices
Listed(d)      == discovered_devices \cup {d}

\* device_manager_on_device1_signal, of a device that has an address; the
\* callback may disable the scan
Signal(d) ==
    /\ scanner = "looping" /\ disabling["loop"] = "no"
    /\ handlers > 0
    /\ wild' = (wild \/ list_freed)
    /\ discovered_devices' = Listed(d)
    /\ IF d \notin discovered_devices \/ "NOTIFY_CHANGE" \in enabled_filters
       THEN /\ reported' = [reported EXCEPT ![d] = IF @ < 2 THEN @ + 1 ELSE @]
            /\ \/ UNCHANGED <<disabling, raced>>
               \/ /\ scan_loop # NULL
                  /\ disabling' = [disabling EXCEPT !["loop"] = "discovery"]
                  /\ raced' = (raced \/ disabling["api"] # "no")
       ELSE UNCHANGED <<reported, disabling, raced>>
    /\ UNCHANGED <<client, scanner, enabled_filters, timeout, list_freed, glib_vars,
                   bluez_vars, scans>>

\* g_main_loop_unref
Unref(l) == [loops EXCEPT ![l].refs = @ - 1]

\* g_main_loop_run finds that the loop was quit
LoopLeave ==
    /\ scanner = "looping" /\ disabling["loop"] = "no"
    /\ ~loops[entering].running
    /\ wild' = (wild \/ loops[entering].refs = 0)
    /\ loops' = Unref(entering)
    /\ scanner' = "ended"
    /\ UNCHANGED <<client, disabling, scan_vars, entering, timer, timeout_id, scan_loop,
                   bluez_vars, scans, raced>>

Disconnected == handlers - 1

LoopEnded ==
    /\ scanner = "ended"
    /\ scanner' = "disable"
    /\ timeout_id' = 0
    /\ entering' = NULL
    /\ handlers' = Disconnected
    /\ UNCHANGED <<client, disabling, scan_vars, loops, timer, scan_loop, device_manager,
                   discovering, failed, scans, wild, raced>>

\* its own disable, then the list is freed and keeps its head
LoopDisables ==
    /\ scanner = "disable" /\ disabling["loop"] = "no"
    /\ IF scan_loop = NULL
       THEN /\ scanner' = "free"
            /\ UNCHANGED <<disabling, raced>>
       ELSE /\ disabling' = [disabling EXCEPT !["loop"] = "discovery"]
            /\ raced' = (raced \/ disabling["api"] # "no")
            /\ UNCHANGED scanner
    /\ UNCHANGED <<client, scan_vars, glib_vars, bluez_vars, scans, wild>>

StaysBlocked == client
Returned     == IF client = "blocked" THEN "open" ELSE client

LoopFrees ==
    /\ scanner = "free"
    /\ scanner' = "none"
    /\ list_freed' = TRUE
    /\ client' = Returned
    /\ UNCHANGED <<disabling, enabled_filters, timeout, discovered_devices, reported,
                   glib_vars, bluez_vars, scans, wild, raced>>

(***************************************************************************)
(* gattlib_adapter_scan_disable, step by step; scan_loop is read anew at   *)
(* every use, and GLib refuses NULL.                                       *)
(***************************************************************************)
ApiDisables ==
    /\ client # "closed"
    /\ disabling["api"] = "no"
    /\ scan_loop # NULL
    /\ disabling' = [disabling EXCEPT !["api"] = "discovery"]
    /\ raced' = (raced \/ Starting \/ disabling["loop"] # "no")
    /\ UNCHANGED <<client, scanner, scan_vars, glib_vars, bluez_vars, scans, wild>>

Disabling(c, from, to) ==
    /\ disabling[c] = from
    /\ disabling' = [disabling EXCEPT ![c] = to]

DisableDiscovery(c) ==
    /\ Disabling(c, "discovery", "timeout")
    /\ discovering' = FALSE
    /\ UNCHANGED <<client, scanner, scan_vars, glib_vars, device_manager, handlers, failed,
                   scans, wild, raced>>

Removed == IF timer # NULL /\ timeout_id # 0 THEN NULL ELSE timer

DisableTimeout(c) ==
    /\ Disabling(c, "timeout", "quit")
    /\ timer' = Removed
    /\ timeout_id' = 0
    /\ UNCHANGED <<client, scanner, scan_vars, loops, entering, scan_loop, bluez_vars,
                   scans, wild, raced>>

DisableQuit(c) ==
    /\ Disabling(c, "quit", "unref")
    /\ IF scan_loop = NULL
       THEN UNCHANGED <<loops, wild>>
       ELSE /\ wild' = (wild \/ loops[scan_loop].refs = 0)
            /\ loops' = Quit(scan_loop)
    /\ UNCHANGED <<client, scanner, scan_vars, entering, timer, timeout_id, scan_loop,
                   bluez_vars, scans, raced>>

DisableUnref(c) ==
    /\ Disabling(c, "unref", "clear")
    /\ IF scan_loop = NULL
       THEN UNCHANGED <<loops, wild>>
       ELSE /\ wild' = (wild \/ loops[scan_loop].refs = 0)
            /\ loops' = Unref(scan_loop)
    /\ UNCHANGED <<client, scanner, scan_vars, entering, timer, timeout_id, scan_loop,
                   bluez_vars, scans, raced>>

Kept    == scan_loop
Cleared == NULL

DisableClear(c) ==
    /\ Disabling(c, "clear", "no")
    /\ scan_loop' = Cleared
    /\ UNCHANGED <<client, scanner, scan_vars, loops, entering, timer, timeout_id,
                   bluez_vars, scans, wild, raced>>

Disable(c) ==
    \/ DisableDiscovery(c) \/ DisableTimeout(c) \/ DisableQuit(c)
    \/ DisableUnref(c) \/ DisableClear(c)

ClientNext == Open \/ Close \/ Enable \/ Connect \/ StartDiscovery \/ RunLoop
LoopNext ==
    \/ LoopNew \/ LoopTimer \/ LoopRun \/ LoopEnter \/ LoopLeave \/ LoopEnded
    \/ LoopDisables \/ LoopFrees \/ Disable("loop") \/ TimeoutFires

DbusNext ==
    \/ ClientNext
    \/ LoopNext
    \/ \E d \in Device : Signal(d)
    \/ ApiDisables
    \/ Disable("api")

-----------------------------------------------------------------------------
Handles == 0 .. MaxScans

DbusTypeOK ==
    /\ client \in {"closed", "open", "connect", "start", "create", "blocked"}
    /\ scanner \in {"none", "new", "timer", "run", "enter", "looping", "ended", "disable", "free"}
    /\ disabling \in [Caller -> {"no", "discovery", "timeout", "quit", "unref", "clear"}]
    /\ enabled_filters \subseteq {"NOTIFY_CHANGE"}
    /\ discovered_devices \subseteq Device
    /\ loops \in [1 .. MaxScans -> [refs : Int, running : BOOLEAN]]
    /\ {entering, timer, timeout_id, scan_loop} \subseteq Handles
    /\ {failed, handlers} \subseteq Handles
    /\ {device_manager, list_freed, discovering, wild} \subseteq BOOLEAN
    /\ scanner # "none" => client \in {"open", "blocked"}
    /\ client = "blocked" => scanner # "none"

\* Main loops are counted: the adapter, g_main_loop_run and stop_scan_func never
\* use one that is freed, and never the freed list, whether the scan is stopped by
\* its timeout, by the callback or by a disable of another thread, as long as that
\* one neither overlaps the start of the loop nor its end.
DbusUsedAlive == wild => raced

\* Between scans nothing is left of one: its loop is freed, its timeout is gone, the
\* discovery is off and its handlers are disconnected, but for the starts that
\* failed, which each leave their handlers.
DbusNothingLeft ==
    ~Scanning /\ client # "connect" /\ (\A c \in Caller : disabling[c] = "no") /\ ~raced =>
        /\ \A s \in 1 .. MaxScans : loops[s].refs = 0
        /\ timer = NULL /\ timeout_id = 0 /\ scan_loop = NULL
        /\ handlers = failed
        /\ discovering => failed > 0

\* A device is reported once in a scan, however often BlueZ signals it and however
\* many handlers earlier failures left, unless changes are to be notified.
DbusReportedOnce ==
    \A d \in Device :
        /\ d \in discovered_devices <=> reported[d] > 0
        /\ reported[d] > 1 => "NOTIFY_CHANGE" \in enabled_filters

\* The promise of gattlib.h:233: a scan with a timeout, or one that the callback
\* stopped, ends.  A disable that meets the start of the loop breaks it: it removes
\* the timeout, and g_main_loop_run forgets that the loop was quit.
DbusScanEnds ==
    (scanner # "none" /\ (timeout > 0 \/ disabling["loop"] # "no"))
        ~> (scanner = "none" \/ raced)
=============================================================================
