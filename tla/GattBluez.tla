----------------------------- MODULE GattBluez ------------------------------
(***************************************************************************)
(* Connections of gattlib over BlueZ's own GATT client                     *)
(* (bluez/gattlib_connect.c, gattlib_discover.c, gattlib_read_write.c),    *)
(* for BlueZ before 5.42.  A thread, which is named here after the         *)
(* connection that started it, runs a loop on a context of its own, and    *)
(* g_gattlib_thread holds the context of the thread that came last: new    *)
(* sources are attached to that one, wherever they belong.  The client     *)
(* names one address type, so that connecting is tried once.               *)
(***************************************************************************)
EXTENDS GattClient

VARIABLES
    ref,        \* g_gattlib_thread.ref
    current,    \* the thread whose loop and context g_gattlib_thread holds
    loop,       \* what the thread of a connection does
    nested,     \* the connections whose io_connect_cb is on the stack of a thread
    busy,       \* the end of a callback that a thread is at: [what, conn]
    link,       \* how far a connection has come
    on,         \* the thread whose context a source of a connection is attached to
    arg,        \* io_connect_arg: "none", "stack", "heap", "gone"
    timedout,   \* the connections with io_connect_arg.timeout
    listener    \* of notifications: "none", "pending", "registered"

bluez_vars == <<ref, current, loop, nested, busy, link, on, arg, timedout, listener>>

Source == {"io", "attrib", "timer"}
Idle == [what |-> "nothing", conn |-> NoConn]

BluezInit ==
    /\ ref = 0 /\ current = NoConn /\ timedout = {}
    /\ loop = [t \in Conn |-> "none"]
    /\ nested = [t \in Conn |-> <<>>]
    /\ busy = [t \in Conn |-> Idle]
    /\ link = [c \in Conn |-> "none"]
    /\ on = [c \in Conn |-> [s \in Source |-> NoConn]]
    /\ arg = [c \in Conn |-> "none"]
    /\ listener = [c \in Conn |-> "none"]

\* the connections that the client was given: returned, or passed to connect_cb
Connected == {c \in Conn :
    memory[c] = "live" /\ link[c] = "connected" /\ c \notin timedout /\ call.conn # c}

\* A thread dispatches the sources of its context, also when it is nested in a
\* discovery: that iterates the context of g_gattlib_thread, which is its own
\* while no other thread has taken its place.
Stuck(t) == nested[t] # <<>> /\ current # t
Dispatches(t) == t # NoConn /\ loop[t] = "running" /\ ~Stuck(t) /\ busy[t] = Idle

\* Thread t is in a callback for connection c, at what a step of its own stands for.
Begins(t, what, c) == busy' = [busy EXCEPT ![t] = [what |-> what, conn |-> c]]
Ends(t)            == busy' = [busy EXCEPT ![t] = Idle]

AttachTo(c, sources) == [on EXCEPT ![c] = [s \in Source |-> IF s \in sources THEN current ELSE @[s]]]

(***************************************************************************)
(* gattlib_connect and gattlib_connect_async                               *)
(***************************************************************************)
\* initialize_gattlib_connection starts the thread, or counts a connection, which
\* is not done for the one that starts it.
BluezConnect(c) ==
    /\ call = Outside /\ memory[c] = "none"
    /\ \/ /\ Go("attach", c)
          /\ \E place \in {"stack", "heap"} : arg' = [arg EXCEPT ![c] = place]
          /\ ref' = IF ref = 0 THEN 0 ELSE ref + 1
          /\ loop' = IF ref = 0 THEN [loop EXCEPT ![c] = "created"] ELSE loop
          /\ UNCHANGED memory
       \/ /\ ref = 0 /\ Fails("thread")
          /\ Becomes(c, "freed")
          /\ UNCHANGED <<call, arg, ref, loop>>
    /\ UNCHANGED <<wild, current, nested, busy, link, on, timedout, listener>>

\* connection_thread puts its context and its loop in the place of those before
ThreadLoops(t) ==
    /\ loop[t] = "created"
    /\ loop' = [loop EXCEPT ![t] = "running"]
    /\ current' = t
    /\ UNCHANGED <<client_vars, ref, nested, busy, link, on, arg, timedout, listener>>

\* The client has waited for a loop, of whatever thread, and connects; when that
\* fails, or the address or the options are not valid, it gets NULL.
BluezAttach(c) ==
    /\ At("attach", c) /\ current # NoConn
    /\ \/ /\ IF arg[c] = "heap" THEN Back ELSE Go("timer", c)
          /\ Becomes(c, "live")
          /\ link' = [link EXCEPT ![c] = "connecting"]
          /\ on' = AttachTo(c, {"io"})
          /\ UNCHANGED arg
       \/ /\ Fails("connect")
          /\ Back
          /\ Becomes(c, "freed")
          /\ arg' = [arg EXCEPT ![c] = "gone"]
          /\ UNCHANGED <<link, on>>
    /\ UNCHANGED <<wild, ref, current, loop, nested, busy, timedout, listener>>

BluezTimer(c) ==
    /\ At("timer", c)
    /\ Go("wait", c)
    /\ on' = AttachTo(c, {"timer"})
    /\ UNCHANGED <<memory, wild, ref, current, loop, nested, busy, link, arg, timedout, listener>>

ConnectedOnly(c) == link[c] = "connected"
Marked(c)        == link[c] = "connected" \/ c \in timedout

\* The client waits for one of two marks in io_connect_arg, and not for its error.
\* It destroys the timeout of a connection, which is freed already when both marks
\* are there.
BluezConnectWakes(c) ==
    /\ At("wait", c) /\ Marked(c)
    /\ Go("woken", c)
    /\ on' = IF link[c] = "connected" THEN [on EXCEPT ![c]["timer"] = NoConn] ELSE on
    /\ wild' = IF link[c] = "connected" /\ c \in timedout THEN wild \cup {"source"} ELSE wild
    /\ UNCHANGED <<memory, ref, current, loop, nested, busy, link, arg, timedout, listener>>

\* After a timeout, which may have been fired until now, it returns NULL and leaves
\* the connection as it is.
BluezConnectReturns(c) ==
    /\ At("woken", c)
    /\ Back
    /\ arg' = [arg EXCEPT ![c] = "gone"]
    /\ UNCHANGED <<memory, wild, ref, current, loop, nested, busy, link, on, timedout, listener>>

(***************************************************************************)
(* The contexts                                                            *)
(***************************************************************************)
Uses(c, use) == wild' = IF arg[c] = "gone" THEN wild \cup {use} ELSE wild

\* connection_timeout is called, and writes its mark
BluezTimerFires(c) ==
    /\ Dispatches(on[c]["timer"])
    /\ Begins(on[c]["timer"], "timer", c)
    /\ UNCHANGED <<client_vars, ref, current, loop, nested, link, on, arg, timedout, listener>>

BluezTimesOut(t) ==
    LET c == busy[t].conn IN
    /\ busy[t].what = "timer"
    /\ Ends(t)
    /\ on' = [on EXCEPT ![c]["timer"] = NoConn]
    /\ timedout' = IF arg[c] = "gone" THEN timedout ELSE timedout \cup {c}
    /\ Uses(c, "timer")
    /\ UNCHANGED <<call, memory, ref, current, loop, nested, link, arg, listener>>

\* io_connect_cb: an error, or the beginning of the discovery, whose request may
\* not be sent
ConnectAnswer(c) ==
    LET t == on[c]["io"] IN
    /\ link[c] = "connecting" /\ Dispatches(t)
    /\ Uses(c, "argument")
    /\ nested' = [nested EXCEPT ![t] = Append(@, c)]
    /\ \/ /\ link' = [link EXCEPT ![c] = "failed"]
          /\ Begins(t, "answer", c)
          /\ UNCHANGED <<on, listener>>
       \/ /\ \E stage \in {"discovering"} \cup {s \in {"discovered"} : Fails("request")} :
               link' = [link EXCEPT ![c] = stage]
          /\ on' = AttachTo(c, {"attrib"})
          /\ listener' = [listener EXCEPT ![c] = "pending"]
          /\ UNCHANGED busy
    /\ UNCHANGED <<call, memory, ref, current, loop, arg, timedout>>

\* characteristic_cb
DiscoverAnswer(c) ==
    /\ link[c] = "discovering" /\ Dispatches(on[c]["attrib"])
    /\ link' = [link EXCEPT ![c] = "discovered"]
    /\ UNCHANGED <<client_vars, ref, current, loop, nested, busy, on, arg, timedout, listener>>

\* io_connect_cb, when the one it is nested in is not waited for, up to the mark
\* that the client waits for
ConnectCallback(c) ==
    LET t == on[c]["io"] IN
    /\ link[c] = "discovered" /\ Last(nested[t]) = c /\ busy[t] = Idle
    /\ link' = [link EXCEPT ![c] = "connected"]
    /\ Begins(t, "answer", c)
    /\ Uses(c, "argument")
    /\ UNCHANGED <<call, memory, ref, current, loop, nested, on, arg, timedout, listener>>

\* and its end, which reads connect_cb and frees the argument that has one
ConnectCallbackEnds(t) ==
    LET c == busy[t].conn IN
    /\ busy[t].what = "answer"
    /\ Ends(t)
    /\ nested' = [nested EXCEPT ![t] = Front(@)]
    /\ Uses(c, "connect_cb")
    /\ arg' = IF arg[c] = "heap" THEN [arg EXCEPT ![c] = "gone"] ELSE arg
    /\ UNCHANGED <<call, memory, ref, current, loop, link, on, timedout, listener>>

Connection(c) == wild' = IF memory[c] = "freed" THEN wild \cup {"connection"} ELSE wild

\* io_listen_cb
Listens(c) ==
    /\ Dispatches(on[c]["attrib"])
    /\ listener[c] = "pending"
    /\ listener' = [listener EXCEPT ![c] = IF memory[c] = "freed" THEN "none" ELSE "registered"]
    /\ Connection(c)
    /\ UNCHANGED <<call, memory, ref, current, loop, nested, busy, link, on, arg, timedout>>

\* events_handler, for each notification or indication
EventArrives(c) ==
    /\ Dispatches(on[c]["attrib"])
    /\ listener[c] = "registered"
    /\ Begins(on[c]["attrib"], "event", c)
    /\ UNCHANGED <<client_vars, ref, current, loop, nested, link, on, arg, timedout, listener>>

EventHandled(t) ==
    /\ busy[t].what = "event"
    /\ Ends(t)
    /\ Connection(busy[t].conn)
    /\ UNCHANGED <<call, memory, ref, current, loop, nested, link, on, arg, timedout, listener>>

(***************************************************************************)
(* Requests, and gattlib_disconnect                                        *)
(***************************************************************************)
\* Every discovery, read and write, and with it the start and the stop of
\* notifications, sends a request and waits for its answer; all but a read return at
\* once when it is not sent.
Request(c) ==
    /\ call = Outside /\ c \in Connected
    /\ \/ Go("request", c)
       \/ Fails("request") /\ UNCHANGED call
    /\ UNCHANGED <<memory, wild, bluez_vars>>

Reply(c) ==
    /\ At("request", c) /\ Dispatches(on[c]["attrib"])
    /\ Back
    /\ UNCHANGED <<memory, wild, bluez_vars>>

NoneCounted(n) == n <= 0
LastOne(n)     == n = 0

\* The attrib takes its events with it, but not the source of io_listen_cb nor a
\* handler that runs; the last connection that was counted ends the loop.
BluezDisconnect(c) ==
    /\ call = Outside /\ c \in Connected
    /\ Becomes(c, "freed")
    /\ listener' = IF listener[c] = "registered" THEN [listener EXCEPT ![c] = "none"] ELSE listener
    /\ ref' = ref - 1
    /\ loop' = IF LastOne(ref') THEN [loop EXCEPT ![current] = "quit"] ELSE loop
    /\ UNCHANGED <<call, wild, current, nested, busy, link, on, arg, timedout>>

-----------------------------------------------------------------------------
\* the steps of a call of connect that has begun
BluezCallGoesOn ==
    \E c \in Conn :
        BluezAttach(c) \/ BluezTimer(c) \/ BluezConnectWakes(c) \/ BluezConnectReturns(c)

\* the steps of a thread that is in a callback and waits for nothing
CallbackGoesOn(t) ==
    \/ BluezTimesOut(t) \/ ConnectCallbackEnds(t) \/ EventHandled(t)
    \/ \E c \in Conn : on[c]["io"] = t /\ ConnectCallback(c)

BluezNext ==
    \/ BluezCallGoesOn
    \/ \E t \in Conn : ThreadLoops(t) \/ CallbackGoesOn(t)
    \/ \E c \in Conn :
         \/ BluezConnect(c) \/ BluezDisconnect(c) \/ Request(c) \/ Reply(c)
         \/ BluezTimerFires(c) \/ ConnectAnswer(c) \/ DiscoverAnswer(c)
         \/ Listens(c) \/ EventArrives(c)

-----------------------------------------------------------------------------
StacksTypeOK == nested \in [Conn -> Seq(Conn)]
SourcesTypeOK == on \in [Conn -> [Source -> Conn \cup {NoConn}]]

BluezTypeOK ==
    /\ call.at \in {"outside", "attach", "timer", "wait", "woken", "request"}
    /\ ref \in Int /\ ref <= 0
    /\ current \in Conn \cup {NoConn}
    /\ loop \in [Conn -> {"none", "created", "running", "quit"}]
    /\ busy \in [Conn -> [what : {"nothing", "timer", "answer", "event"}, conn : Conn \cup {NoConn}]]
    /\ link \in [Conn -> {"none", "connecting", "discovering", "discovered", "connected", "failed"}]
    /\ arg \in [Conn -> {"none", "stack", "heap", "gone"}]
    /\ timedout \subseteq Conn
    /\ listener \in [Conn -> {"none", "pending", "registered"}]
    /\ StacksTypeOK /\ SourcesTypeOK

\* What a thread still uses is there.  The timer of a connect does not outlive its
\* argument.  That is used too late only by the answer to a connect that has timed
\* out, by the end of io_connect_cb after its mark let the client return, or by a
\* timer that was about to fire then; and the timer only by a client that found both
\* marks.  A connection that is freed has no events, but for a handler that
\* runs or a source that is still to register them.
BluezUsedAlive ==
    /\ \A c \in Conn : on[c]["timer"] # NoConn => arg[c] = "stack"
    /\ "argument" \in wild => \E c \in timedout : arg[c] = "gone"
    /\ "source" \in wild => \E c \in timedout : link[c] = "connected"
    /\ "timer" \in wild => \E c \in Conn \ timedout : arg[c] = "gone" /\ link[c] = "connected"
    /\ "connect_cb" \in wild => \E c \in Conn :
         arg[c] = "gone" /\ (link[c] = "connected" \/ c \in timedout)
    /\ \A c \in Conn : memory[c] = "freed" => listener[c] # "registered"

\* A connection that the client holds has a thread that runs its context: no
\* disconnect ends the loop of another connection.
BluezServed == \A c \in Connected : loop[on[c]["attrib"]] = "running"

\* The waits of a call that need not end: for an answer of the device, and, when
\* a thread took the place of one that is discovering, for that one.
BluezWaitsForEver(c) ==
    \/ At("request", c)
    \/ \E t \in Conn : Stuck(t) /\ link[Last(nested[t])] = "discovering"
=============================================================================
