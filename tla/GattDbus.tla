------------------------------ MODULE GattDbus ------------------------------
(***************************************************************************)
(* Connections of gattlib over D-Bus (dbus/gattlib.c) with their           *)
(* notifications (dbus/gattlib_notification.c).  Each connection waits in  *)
(* a main loop for its services, and then has a thread that runs another   *)
(* one.  All these loops iterate GLib's default context, which one thread  *)
(* owns at a time: its owner dispatches the timeouts and the signals of    *)
(* every connection.  GLib and bluetoothd are modelled by what this code   *)
(* sees of them, and the client passes no adapter.                         *)
(***************************************************************************)
EXTENDS GattClient

CONSTANT MaxHandles     \* bound: the length of notified_characteristics

VARIABLES
    is_running, \* the main loops <<purpose, connection>> that run
    timeout,    \* the connections whose connection_timeout is pending
    thread,     \* event_thread
    owner,      \* the thread that owns the default context
    handling,   \* the property change that is being handled: [conn, what]
    resolved,   \* the connections with a ServicesResolved to be dispatched
    notified,   \* the length of notified_characteristics
    untracked,  \* the connections with signal handlers that are in no list
    late,       \* history: connections whose services were resolved again, after connect
    early       \* history, while it matters: what was done to a connection too early,
                \* <<"remove", c>> before its timeout was there, <<"quit", c>> before
                \* its loop ran

loop_vars == <<is_running, timeout, thread, owner, late, early>>
signal_vars == <<handling, resolved, notified, untracked>>
dbus_vars == <<loop_vars, signal_vars>>

Nobody == "nobody"
Client == "client"
ASSUME NamesAssumption == Nobody \notin Conn /\ Client \notin Conn
ASSUME MaxHandlesAssumption == MaxHandles \in Nat

Nothing == [conn |-> NoConn, what |-> "nothing"]

\* the connections that gattlib_connect has returned to the client
Held == {c \in Conn : memory[c] = "live" /\ call.conn # c}

\* conn_context->device, on which the signals of the device arrive
HasDevice(c) == memory[c] = "live" /\ ~At("join", c)

\* conn_context->connection_loop
Loop(c) == CASE At("connect_sync", c) -> "NULL"
             [] At("new_loop", c) \/ At("armed", c) \/ At("loop", c) -> "connect"
             [] At("objects", c) -> "unreferenced"
             [] OTHER -> "event"

\* gattlib_connect has not come to its timeout, or to the run of its loop
NoTimeoutYet(c) == At("connect_sync", c) \/ At("new_loop", c)
NoRunYet(c)     == NoTimeoutYet(c) \/ At("armed", c)

DbusInit ==
    /\ is_running = {} /\ timeout = {} /\ resolved = {} /\ untracked = {} /\ late = {} /\ early = {}
    /\ thread = [c \in Conn |-> "none"]
    /\ notified = [c \in Conn |-> 0]
    /\ owner = Nobody /\ handling = Nothing

(***************************************************************************)
(* gattlib_connect                                                         *)
(***************************************************************************)
\* Up to org_bluez_device1_call_connect_sync.  Without an adapter, memory or a
\* proxy the call returns NULL and keeps nothing.
DbusConnect(c) ==
    /\ call = Outside /\ memory[c] = "none"
    /\ \/ Go("connect_sync", c) /\ Becomes(c, "live")
       \/ Fails("open") /\ Becomes(c, "freed") /\ UNCHANGED call
    /\ UNCHANGED <<wild, dbus_vars>>

\* FREE_DEVICE, when the device or the device manager cannot be had
DbusConnectFails(c) ==
    /\ \/ At("connect_sync", c) /\ Fails("connect")
       \/ At("objects", c) /\ Fails("objects")
    /\ Back
    /\ Becomes(c, "freed")
    /\ resolved' = resolved \ {c}
    /\ UNCHANGED <<wild, loop_vars, handling, notified, untracked>>

\* the loop, then its timeout; the threads of other connections go on meanwhile
DbusNewLoop(c) ==
    /\ At("connect_sync", c)
    /\ Go("new_loop", c)
    /\ UNCHANGED <<memory, wild, dbus_vars>>

DbusAddTimeout(c) ==
    /\ At("new_loop", c)
    /\ Go("armed", c)
    /\ timeout' = timeout \cup {c}
    /\ UNCHANGED <<memory, wild, is_running, thread, owner, late, early, signal_vars>>

\* g_main_loop_run takes the context, or waits for it; it forgets a quit that came
\* before it
DbusConnectWaits(c) ==
    /\ At("armed", c)
    /\ Go("loop", c)
    /\ is_running' = is_running \cup {<<"connect", c>>}
    /\ UNCHANGED <<memory, wild, timeout, thread, owner, late, early, signal_vars>>

\* its run of a loop ends, between two dispatches of its own
Leaves(t) ==
    /\ owner = t => handling = Nothing
    /\ owner' = IF owner = t THEN Nobody ELSE owner

DbusConnectWakes(c) ==
    /\ At("loop", c) /\ <<"connect", c>> \notin is_running
    /\ Leaves(Client)
    /\ Go("objects", c)
    /\ early' = {e \in early : e[2] = c => e[1] = "remove" /\ c \in timeout}
    /\ UNCHANGED <<memory, wild, is_running, timeout, thread, late, signal_vars>>

\* Whatever ended the wait, the call succeeds: with an event thread whose
\* creation is not checked.
DbusConnectReturns(c) ==
    /\ At("objects", c)
    /\ Back
    /\ \/ thread' = [thread EXCEPT ![c] = "created"]
       \/ Fails("thread") /\ UNCHANGED thread
    /\ UNCHANGED <<memory, wild, is_running, timeout, owner, late, early, signal_vars>>

(***************************************************************************)
(* The default context                                                     *)
(***************************************************************************)
\* glib_event_thread; g_main_loop_run forgets a quit that came before it
ThreadRuns(c) ==
    /\ thread[c] = "created"
    /\ thread' = [thread EXCEPT ![c] = "looping"]
    /\ is_running' = is_running \cup {<<"event", c>>}
    /\ UNCHANGED <<client_vars, timeout, owner, late, early, signal_vars>>

Acquire ==
    /\ owner = Nobody
    /\ \E l \in is_running : owner' = IF l[1] = "connect" THEN Client ELSE l[2]
    /\ UNCHANGED <<client_vars, is_running, timeout, thread, late, early, signal_vars>>

ThreadEnds(c) ==
    /\ thread[c] = "looping" /\ <<"event", c>> \notin is_running
    /\ Leaves(c)
    /\ thread' = [thread EXCEPT ![c] = "ended"]
    /\ UNCHANGED <<client_vars, is_running, timeout, late, early, signal_vars>>

Dispatching == owner # Nobody /\ handling = Nothing

\* stop_scan_func, which was given the loop of connect
TimeoutFires(c) ==
    /\ Dispatching
    /\ c \in timeout
    /\ timeout' = timeout \ {c}
    /\ is_running' = is_running \ {<<"connect", c>>}
    /\ wild' = IF Loop(c) = "connect" THEN wild ELSE wild \cup {"loop"}
    /\ early' = IF NoRunYet(c) THEN early \cup {<<"quit", c>>} ELSE early
    /\ UNCHANGED <<call, memory, thread, owner, late, signal_vars>>

\* bluetoothd has resolved the services, of this connection or once more
Resolve(c) ==
    /\ HasDevice(c) /\ c \notin resolved
    /\ resolved' = resolved \cup {c}
    /\ UNCHANGED <<client_vars, loop_vars, handling, notified, untracked>>

\* A property change of the device, of a characteristic or of the battery is
\* dispatched; its proxy lives until the handler returns.
Dispatch(c) ==
    /\ Dispatching
    /\ \/ /\ c \in resolved
          /\ handling' = [conn |-> c, what |-> "ServicesResolved"]
          /\ resolved' = resolved \ {c}
       \/ /\ HasDevice(c) \/ notified[c] > 0 \/ c \in untracked
          /\ handling' = [conn |-> c, what |-> "other"]
          /\ UNCHANGED resolved
    /\ UNCHANGED <<client_vars, loop_vars, notified, untracked>>

\* A handler finds its connection, or what was one.
Found(c) == IF memory[c] = "freed" THEN wild' = wild \cup {"connection"} ELSE UNCHANGED wild

\* on_handle_device_property_change on ServicesResolved, up to g_source_remove: the
\* timeout is removed, if there is one by now
RemoveTimeout ==
    LET c == handling.conn IN
    /\ handling.what = "ServicesResolved"
    /\ handling' = [handling EXCEPT !.what = "quit"]
    /\ Found(c)
    /\ timeout' = timeout \ {c}
    /\ early' = IF NoTimeoutYet(c) THEN early \cup {<<"remove", c>>} ELSE early
    /\ UNCHANGED <<call, memory, is_running, thread, owner, late, resolved, notified, untracked>>

\* and g_main_loop_quit, of the loop of this moment, which is NULL soon after it was
\* unreferenced
QuitLoop ==
    LET c == handling.conn IN
    /\ handling.what = "quit"
    /\ handling' = Nothing
    /\ is_running' = is_running \ {<<Loop(c), c>>}
    /\ late' = IF Loop(c) = "event" THEN late \cup {c} ELSE late
    /\ early' = IF NoRunYet(c) THEN early \cup {<<"quit", c>>} ELSE early
    /\ \/ Found(c)
       \/ Loop(c) = "unreferenced" /\ wild' = wild \cup {"loop"}
    /\ UNCHANGED <<call, memory, timeout, thread, owner, resolved, notified, untracked>>

\* the other handlers call a function they find in the connection
Handled ==
    /\ handling.what = "other"
    /\ handling' = Nothing
    /\ Found(handling.conn)
    /\ UNCHANGED <<call, memory, loop_vars, resolved, notified, untracked>>

(***************************************************************************)
(* gattlib_disconnect                                                      *)
(***************************************************************************)
\* Up to g_main_loop_quit; an error of org_bluez_device1_call_disconnect_sync is
\* ignored.
DbusDisconnect(c) ==
    /\ call = Outside /\ c \in Held
    /\ Go("join", c)
    /\ resolved' = resolved \ {c}
    /\ is_running' = is_running \ {<<"event", c>>}
    /\ UNCHANGED <<memory, wild, timeout, thread, owner, late, early, handling, notified, untracked>>

HandlesStay(c) == notified
NoHandles(c)   == [notified EXCEPT ![c] = 0]

\* The thread has been joined: disconnect_all_notifications, and the rest is freed.
DbusDisconnectFrees(c) ==
    /\ At("join", c) /\ thread[c] \in {"ended", "none"}
    /\ Back
    /\ notified' = NoHandles(c)
    /\ Becomes(c, "freed")
    /\ wild' = IF thread[c] = "none" THEN wild \cup {"thread"} ELSE wild
    /\ UNCHANGED <<loop_vars, handling, resolved, untracked>>

(***************************************************************************)
(* gattlib_notification_start and _stop, gattlib_indication_start and _stop *)
(***************************************************************************)
\* connect_signal_to_characteristic_uuid.  The signal of a battery gets no
\* handle, nor one whose handle cannot be allocated; a handle stays when
\* bluetoothd refuses to start.
NotificationStart(c) ==
    /\ call = Outside /\ c \in Held
    /\ \/ /\ notified[c] < MaxHandles
          /\ notified' = [notified EXCEPT ![c] = @ + 1]
          /\ UNCHANGED untracked
       \/ /\ Fails("handle")
          /\ untracked' = untracked \cup {c}
          /\ UNCHANGED notified
    /\ UNCHANGED <<client_vars, loop_vars, handling, resolved>>

IsThere(c)   == TRUE
HasHandle(c) == notified[c] > 0

\* disconnect_signal_to_characteristic_uuid: one handle of the uuid goes
NotificationStop(c) ==
    /\ call = Outside /\ c \in Held
    /\ HasHandle(c)
    /\ notified' = [notified EXCEPT ![c] = @ - 1]
    /\ UNCHANGED <<client_vars, loop_vars, handling, resolved, untracked>>

-----------------------------------------------------------------------------
\* the steps of a call that has begun
DbusCallGoesOn ==
    \E c \in Conn :
        \/ DbusConnectFails(c) \/ DbusNewLoop(c) \/ DbusAddTimeout(c) \/ DbusConnectWaits(c)
        \/ DbusConnectWakes(c) \/ DbusConnectReturns(c) \/ DbusDisconnectFrees(c)

\* the steps of a handler that has begun
HandlerGoesOn == RemoveTimeout \/ QuitLoop \/ Handled

DbusNext ==
    \/ DbusCallGoesOn
    \/ Acquire
    \/ HandlerGoesOn
    \/ \E c \in Conn :
         \/ DbusConnect(c) \/ DbusDisconnect(c) \/ NotificationStart(c) \/ NotificationStop(c)
         \/ ThreadRuns(c) \/ ThreadEnds(c) \/ TimeoutFires(c) \/ Resolve(c) \/ Dispatch(c)

-----------------------------------------------------------------------------
DbusTypeOK ==
    /\ call.at \in {"outside", "connect_sync", "new_loop", "armed", "loop", "objects", "join"}
    /\ is_running \subseteq {"connect", "event"} \X Conn
    /\ timeout \subseteq Conn /\ resolved \subseteq Conn /\ untracked \subseteq Conn
    /\ late \subseteq Conn /\ early \subseteq {"remove", "quit"} \X Conn
    /\ thread \in [Conn -> {"none", "created", "looping", "ended"}]
    /\ owner \in Conn \cup {Nobody, Client}
    /\ handling \in [conn : Conn \cup {NoConn}, what : {"nothing", "ServicesResolved", "quit", "other"}]
    /\ notified \in [Conn -> 0 .. MaxHandles]

\* What is freed is out of reach: no timeout outlives the loop of connect, unless
\* ServicesResolved was handled, by the thread of another connection, before the
\* timeout was added; and a connection that is gone gets no signal but an untracked
\* one, or one that the thread of another connection was handling when it was freed.
DbusUsedAlive ==
    /\ \A c \in timeout : Loop(c) = "connect" \/ <<"remove", c>> \in early
    /\ \A c \in Conn : memory[c] = "freed" =>
         /\ notified[c] = 0 /\ c \notin resolved
         /\ thread[c] = "ended" \/ thread[c] = "none"
         /\ handling.conn = c => c \in untracked \/ owner \in Conn \ {c}

\* the handler of ServicesResolved is about to quit the loop
Quitting(c) == handling = [conn |-> c, what |-> "quit"]

\* A connection that the client holds is served by its thread, unless that could
\* not be created or its services were resolved after connect had returned; and a
\* connect that waits is about to be ended or has its timeout, unless what should
\* have ended it came before it ran its loop.
DbusServed ==
    /\ \A c \in Held :
         /\ thread[c] = "none" => Fails("thread")
         /\ thread[c] = "ended" => c \in late
    /\ \A c \in Conn : At("loop", c) /\ <<"connect", c>> \in is_running =>
         c \in timeout \/ Quitting(c) \/ <<"quit", c>> \in early

\* The waits of a call that need not end, since g_main_loop_run forgot a quit: of a
\* disconnect that came before the event thread ran its loop, and of a connect whose
\* services were resolved before it ran its own, and which has no timeout any more.
DbusWaitsForEver(c) ==
    \/ At("join", c) /\ <<"event", c>> \in is_running
    \/ /\ At("loop", c) /\ <<"connect", c>> \in is_running
       /\ <<"quit", c>> \in early /\ c \notin timeout /\ ~Quitting(c)
=============================================================================
