----------------------------- MODULE GattClient -----------------------------
(***************************************************************************)
(* What the two backends of gattlib (dbus/ and bluez/) have in common: a   *)
(* client, one thread of an application, that connects and disconnects     *)
(* through include/gattlib.h, one call at a time.                          *)
(***************************************************************************)
EXTENDS Integers, Sequences, SequencesExt

CONSTANTS
    Conn,       \* the connections: one for each call of gattlib_connect
    NoConn,     \* not a connection
    Faults      \* the calls that may fail, see Fails

ASSUME NoConnAssumption == NoConn \notin Conn

VARIABLES
    call,       \* the call the client is in: [at, conn], where and for which connection
    memory,     \* of gatt_connection_t and its context: "none", "live", "freed"
    wild        \* what was used after it was freed; nothing is claimed after that

client_vars == <<call, memory, wild>>

Fails(f) == f \in Faults
Outside == [at |-> "outside", conn |-> NoConn]
At(place, c) == call.at = place /\ call.conn = c
Go(place, c) == call' = [at |-> place, conn |-> c]
Back == call' = Outside
Becomes(c, m) == memory' = [memory EXCEPT ![c] = m]

ClientInit ==
    /\ call = Outside /\ wild = {}
    /\ memory = [c \in Conn |-> "none"]

ClientTypeOK ==
    /\ call.conn \in Conn \cup {NoConn}
    /\ memory \in [Conn -> {"none", "live", "freed"}]
    /\ wild \subseteq {"connection", "loop", "thread", "argument", "connect_cb", "timer", "source"}
=============================================================================
