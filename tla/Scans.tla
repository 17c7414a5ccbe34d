-------------------------------- MODULE Scans -------------------------------
(***************************************************************************)
(* Scanning with gattlib as a build has it: CMakeLists.txt takes the D-Bus *)
(* adapter or the one of BlueZ by the version of BlueZ, and a client uses  *)
(* either through the same calls.                                          *)
(***************************************************************************)
EXTENDS GattScan, HciScan

VARIABLE backend    \* GATTLIB_DBUS: "dbus" or "bluez"

vars == <<backend, client_vars, dbus_vars, hci_vars>>

Init ==
    /\ backend \in {"dbus", "bluez"}
    /\ ClientInit /\ DbusInit /\ HciInit
    /\ backend = "dbus" => version = 5

InDbus(A) == backend = "dbus" /\ A /\ UNCHANGED <<backend, hci_vars>>
InBluez(A) == backend = "bluez" /\ A /\ UNCHANGED <<backend, dbus_vars>>

Next == InDbus(DbusNext) \/ InBluez(HciNext)

\* The thread of the scan runs, GLib dispatches a timeout that is due, time passes,
\* and a disable that was begun goes on.
FairSpec ==
    /\ Init /\ [][Next]_vars
    /\ WF_vars(InDbus(LoopNext)) /\ WF_vars(InDbus(Disable("api")))
    /\ WF_vars(InBluez(Scan)) /\ WF_vars(InBluez(Tick)) /\ WF_vars(InBluez(OtherReturns))

-----------------------------------------------------------------------------
\* Every variable keeps its type; scans are run one at a time.
TypeOK ==
    /\ backend \in {"dbus", "bluez"}
    /\ ClientTypeOK
    /\ IF backend = "dbus" THEN DbusTypeOK ELSE HciTypeOK

\* Main loops are counted: over D-Bus nothing of a scan is used after it was freed,
\* but for the races of DbusUsedAlive.
UsedAlive == backend = "dbus" => DbusUsedAlive

\* Nothing of a scan is left when it has ended, neither a loop, a timeout or a handler
\* of the D-Bus adapter nor the event filter of the BlueZ one.
NothingLeft == IF backend = "dbus" THEN DbusNothingLeft ELSE HciNothingLeft

\* A device is reported once in a scan; over D-Bus the list of discovered devices sees
\* to it, over BlueZ the controller, if each scan is begun anew.
ReportedOnce == IF backend = "dbus" THEN DbusReportedOnce ELSE HciReportedOnce

\* A scan ends: over D-Bus one with a timeout or that the callback stopped, over BlueZ
\* any but those HciScanEnds names.
ScanEnds == DbusScanEnds /\ HciScanEnds
=============================================================================
