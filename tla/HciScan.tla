------------------------------- MODULE HciScan ------------------------------
(***************************************************************************)
(* Scanning with the adapter of the BlueZ backend                          *)
(* (bluez/gattlib_adapter.c): a raw HCI socket, requests to the controller *)
(* and a loop that polls the socket in the thread of the client.  The      *)
(* controller and hci_send_req of libbluetooth are modelled by what this   *)
(* file sees of them: a request swaps the event filter of the socket and   *)
(* puts back the one it found; it may fail although the controller has     *)
(* carried it out, when the answer is late or lies behind ten reports.     *)
(***************************************************************************)
EXTENDS ScanClient

VARIABLES
    version,        \* BLUEZ_VERSION_MAJOR, 4 or 5
    socket,         \* *device_desc: "none", "open", "invalid" (-1), or in "error"
    filter,         \* HCI_FILTER of the socket: passes "none", reports ("meta"), or "command"
    old_options,    \* local of ble_scan: the filter to put back
    requested,      \* the filter that a disable of another thread is to put back, or "idle"
    controller,     \* the controller scans
    seen,           \* the devices it filters as duplicates
    left            \* time until poll or select gives up

socket_vars == <<filter, old_options, requested>>
air_vars == <<controller, seen>>
hci_vars == <<version, socket, socket_vars, air_vars, left>>

Idle == requested = "idle"
Busy == {"parameters", "options", "polling", "callback", "restore"}

HciInit ==
    /\ version \in {4, 5}
    /\ socket = "none" /\ filter = "none" /\ old_options = "none" /\ requested = "idle"
    /\ controller = FALSE /\ seen = {} /\ left = 0

(***************************************************************************)
(* Opening and closing.  An adapter whose socket could not be opened is    *)
(* handed out with descriptor -1.  Closing does not end a scan.            *)
(***************************************************************************)
HciOpen ==
    /\ client = "closed"
    /\ client' = "open"
    /\ socket' \in {"open"} \cup (IF Fails("socket") THEN {"invalid"} ELSE {})
    /\ filter' = "none" /\ raced' = FALSE
    /\ UNCHANGED <<timeout, scans, reported, version, old_options, requested, air_vars, left>>

HciClose ==
    /\ client = "open" /\ Idle
    /\ client' = "closed"
    /\ socket' = "none"
    /\ UNCHANGED <<timeout, scans, raced, reported, version, socket_vars, air_vars, left>>

Unplugged ==
    /\ Fails("unplugged")
    /\ socket = "open"
    /\ socket' = "error"
    /\ controller' = FALSE
    /\ UNCHANGED <<client_vars, version, socket_vars, seen, left>>

(***************************************************************************)
(* gattlib_adapter_scan_enable.  Of two requests at the same time on one   *)
(* socket nothing is said: a request of the client waits for another's.    *)
(***************************************************************************)
\* The controller refuses parameters while it scans.
SetScanParameters ==
    /\ client = "open" /\ socket = "open" /\ Idle
    /\ ~controller
    /\ scans < MaxScans
    /\ client' = "parameters"
    /\ scans' = scans + 1
    /\ timeout' \in Timeout
    /\ reported' = [d \in Device |-> 0]
    /\ UNCHANGED <<raced, hci_vars>>

SetScanEnable ==
    /\ client = "parameters" /\ Idle
    /\ \/ /\ socket = "open"
          /\ client' = "options"
          /\ controller' = TRUE
       \/ /\ Fails("request") \/ socket # "open"
          /\ client' = "open"
          /\ controller' \in {controller} \cup (IF socket = "open" THEN {TRUE} ELSE {})
    /\ seen' = {}
    /\ UNCHANGED <<timeout, scans, raced, reported, version, socket, socket_vars, left>>

\* ble_scan takes the filter, or returns with the controller scanning
TakeFilter ==
    /\ client = "options"
    /\ \/ /\ client' = "polling"
          /\ old_options' = filter /\ filter' = "meta"
          /\ left' = timeout
          /\ raced' = (raced \/ ~Idle)
       \/ /\ Fails("options")
          /\ client' = "open"
          /\ UNCHANGED <<old_options, filter, left, raced>>
    /\ UNCHANGED <<timeout, scans, reported, version, socket, requested, air_vars>>

\* time(NULL) goes on in the callback, but only version 4 looks at it
Tick ==
    /\ client \in {"polling", "callback"}
    /\ socket = "open"
    /\ left > 0
    /\ left' = left - 1
    /\ UNCHANGED <<client_vars, version, socket, socket_vars, air_vars>>

\* Version 5 gives each poll the whole timeout; select of version 4 what is left.
WholeTimeout == timeout
Remaining    == IF version = 5 THEN timeout ELSE left

\* A scan response, which the controller reports once in a scan.
ScanResponse(d) ==
    /\ client = "polling" /\ socket = "open" /\ filter # "none"
    /\ controller /\ d \notin seen
    /\ seen' = seen \cup {d}
    /\ reported' = [reported EXCEPT ![d] = IF @ < 2 THEN @ + 1 ELSE @]
    /\ client' = "callback"
    /\ UNCHANGED <<timeout, scans, raced, version, socket, socket_vars, controller, left>>

\* Any other event.  On a socket in error select lets version 4 read, which fails
\* (PollEnds), but poll returns at once without POLLIN, again and again.
Continue ==
    /\ client = "polling"
    /\ \/ socket = "open" /\ filter # "none"
       \/ socket = "error" /\ version = 5
    /\ left' = Remaining
    /\ UNCHANGED <<client_vars, version, socket, socket_vars, air_vars>>

CallbackReturns ==
    /\ client = "callback"
    /\ client' = IF version = 4 /\ left = 0 THEN "restore" ELSE "polling"
    /\ left' = Remaining
    /\ UNCHANGED <<timeout, scans, raced, reported, version, socket, socket_vars, air_vars>>

PollEnds ==
    /\ client = "polling"
    /\ \/ socket = "open" /\ left = 0
       \/ socket = "error" /\ version = 4
    /\ client' = "restore"
    /\ UNCHANGED <<timeout, scans, raced, reported, hci_vars>>

ReadFails ==
    /\ Fails("read")
    /\ client = "polling" /\ socket = "open" /\ filter # "none"
    /\ client' = "restore"
    /\ UNCHANGED <<timeout, scans, raced, reported, hci_vars>>

LeftAsIs == filter
PutBack  == old_options

RestoreFilter ==
    /\ client = "restore"
    /\ client' = "open"
    /\ filter' = PutBack
    /\ raced' = (raced \/ ~Idle)
    /\ old_options' = "none" /\ left' = 0
    /\ UNCHANGED <<timeout, scans, reported, version, socket, requested, air_vars>>

(***************************************************************************)
(* gattlib_adapter_scan_disable, of the client, in the callback or after   *)
(* the scan; its request reads the events that wait, and the controller    *)
(* does not report their devices again.                                    *)
(***************************************************************************)
HciDisable ==
    /\ client \in {"open", "callback"} /\ socket = "open" /\ Idle
    /\ controller' \in {FALSE} \cup (IF Fails("request") THEN {controller} ELSE {})
    /\ IF controller
       THEN \E missed \in SUBSET Device : seen' = seen \cup missed
       ELSE UNCHANGED seen
    /\ UNCHANGED <<client_vars, version, socket, socket_vars, left>>

\* The same by another thread, during the scan: it may find any filter, and the
\* scan may take its answer.
OtherDisables ==
    /\ client \in Busy \ {"parameters"} /\ socket = "open" /\ Idle
    /\ requested' = filter
    /\ filter' = "command"
    /\ controller' \in {FALSE} \cup (IF Fails("request") THEN {controller} ELSE {})
    /\ UNCHANGED <<client_vars, version, socket, old_options, seen, left>>

OtherReturns ==
    /\ ~Idle
    /\ filter' = requested
    /\ requested' = "idle"
    /\ UNCHANGED <<client_vars, version, socket, old_options, air_vars, left>>

Scan ==
    \/ SetScanEnable \/ TakeFilter \/ CallbackReturns \/ PollEnds \/ RestoreFilter

Hears == (\E d \in Device : ScanResponse(d)) \/ Continue

HciNext ==
    \/ HciOpen \/ HciClose \/ Unplugged
    \/ SetScanParameters \/ Scan \/ ReadFails \/ Tick \/ Hears
    \/ HciDisable \/ OtherDisables \/ OtherReturns

-----------------------------------------------------------------------------
Filters == {"none", "meta", "command"}

HciTypeOK ==
    /\ client \in {"closed", "open"} \cup Busy
    /\ version \in {4, 5}
    /\ socket \in {"none", "open", "invalid", "error"}
    /\ {filter, old_options} \subseteq Filters
    /\ requested \in Filters \cup {"idle"}
    /\ controller \in BOOLEAN /\ seen \subseteq Device
    /\ left \in 0 .. timeout
    /\ client \in Busy => socket \in {"open", "error"}

\* Between scans the socket has the filter it was opened with, also after a disable
\* of another thread, unless that one met ble_scan taking or restoring the filter.
HciNothingLeft == client = "open" /\ Idle /\ ~raced => filter = "none"

\* A device is reported at most once in a scan, as the controller filters duplicates
\* and is asked to anew for each scan.  Under the same condition as above the scan
\* hears what the controller reports.
HciReportedOnce ==
    /\ \A d \in Device : reported[d] <= 1
    /\ client = "polling" /\ ~raced => filter = (IF Idle THEN "meta" ELSE "command")

\* A scan ends, with timeout 0 as well, against gattlib.h:223; but version 5 goes on
\* as long as events keep coming, as each poll has the whole timeout, and for ever
\* when the adapter is unplugged.
HciScanEnds ==
    \/ version = 5 /\ []<><<Hears>>_<<client_vars, hci_vars>>
    \/ client \in Busy ~> client \notin Busy \/ (version = 5 /\ socket = "error")
=============================================================================
