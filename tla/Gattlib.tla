------------------------------ MODULE Gattlib -------------------------------
(***************************************************************************)
(* gattlib as a build has it: CMakeLists.txt takes the D-Bus backend or    *)
(* the one of BlueZ by the version of BlueZ, and a client uses either      *)
(* through the same calls.                                                 *)
(***************************************************************************)
EXTENDS GattDbus, GattBluez, FiniteSets

VARIABLE backend    \* GATTLIB_DBUS: "dbus" or "bluez"

vars == <<backend, client_vars, dbus_vars, bluez_vars>>

Init ==
    /\ backend \in {"dbus", "bluez"}
    /\ ClientInit /\ DbusInit /\ BluezInit

\* Nothing is said of a program that has used what it had freed.
InDbus(A) == backend = "dbus" /\ wild = {} /\ A /\ UNCHANGED <<backend, bluez_vars>>
InBluez(A) == backend = "bluez" /\ wild = {} /\ A /\ UNCHANGED <<backend, dbus_vars>>

Next == InDbus(DbusNext) \/ InBluez(BluezNext)

\* A call that was begun goes on, created threads run and handlers return.  GLib
\* polls all the sources of a context in each iteration, so that other events do
\* not keep a timeout waiting for ever, nor a loop that was quit from ending.
\* Nothing obliges a device to answer.
DbusFairness ==
    /\ SF_vars(InDbus(DbusCallGoesOn))
    /\ WF_vars(InDbus(Acquire))
    /\ WF_vars(InDbus(HandlerGoesOn))
    /\ WF_vars(InDbus(\E c \in Conn : ThreadRuns(c)))
    /\ SF_vars(InDbus(\E c \in Conn : ThreadEnds(c)))
    /\ SF_vars(InDbus(\E c \in Conn : TimeoutFires(c)))

BluezFairness ==
    /\ WF_vars(InBluez(BluezCallGoesOn))
    /\ WF_vars(InBluez(\E c \in Conn : ThreadLoops(c)))
    /\ \A t \in Conn : WF_vars(InBluez(CallbackGoesOn(t)))
    /\ SF_vars(InBluez(\E c \in Conn : BluezTimerFires(c)))

Spec == Init /\ [][Next]_vars /\ DbusFairness /\ BluezFairness

-----------------------------------------------------------------------------
\* The types of the variables of the client and of both backends.
TypeOK ==
    /\ backend \in {"dbus", "bluez"}
    /\ ClientTypeOK
    /\ IF backend = "dbus" THEN DbusTypeOK ELSE BluezTypeOK

\* What a thread can still reach is not freed, but for the cases that the two
\* backends have in common with none: see DbusUsedAlive and BluezUsedAlive.
UsedAlive == IF backend = "dbus" THEN DbusUsedAlive ELSE BluezUsedAlive

\* Each connection that the client holds has a thread that dispatches its events,
\* and one that it waits for a timeout, but for the cases that DbusServed names.
Served == IF backend = "dbus" THEN DbusServed ELSE BluezServed

\* gattlib_connect and gattlib_disconnect return to the client, unless they are in
\* one of the waits that DbusWaitsForEver and BluezWaitsForEver name.
CallsReturn == \A c \in Conn :
    call.conn = c ~> \/ wild # {} \/ call.conn # c
                     \/ backend = "dbus" /\ DbusWaitsForEver(c)
                     \/ backend = "bluez" /\ BluezWaitsForEver(c)
=============================================================================
