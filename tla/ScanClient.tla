----------------------------- MODULE ScanClient -----------------------------
(***************************************************************************)
(* What the two gattlib adapters (dbus/ and bluez/) have in common: a      *)
(* client that opens an adapter and scans through include/gattlib.h.       *)
(***************************************************************************)
EXTENDS Integers

CONSTANTS
    Device,     \* the devices that advertise
    Timeout,    \* the timeouts a client passes; 0 is no timeout
    Faults,     \* the calls that may fail, see Fails
    MaxScans    \* bound: how many scans are enabled

ASSUME TimeoutAssumption == Timeout \subseteq Nat
ASSUME MaxScansAssumption == MaxScans \in Nat

VARIABLES
    client,     \* where the thread that uses the adapter stands
    timeout,    \* the timeout of the scan
    scans,      \* counter of scans
    raced,      \* history: a disable of another thread met a step of the scan it breaks
    reported    \* history: how often a device was reported in this scan

client_vars == <<client, timeout, scans, raced, reported>>

Fails(call) == call \in Faults

ClientInit ==
    /\ client = "closed" /\ timeout = 0 /\ scans = 0
    /\ raced = FALSE
    /\ reported = [d \in Device |-> 0]

ClientTypeOK ==
    /\ timeout \in Timeout \cup {0} /\ scans \in 0 .. MaxScans
    /\ raced \in BOOLEAN
    /\ reported \in [Device -> 0 .. 2]
=============================================================================
