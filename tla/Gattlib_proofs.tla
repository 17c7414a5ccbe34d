--------------------------- MODULE Gattlib_proofs ---------------------------
(***************************************************************************)
(* Proofs about gattlib's connections, for any number of them: the types   *)
(* of Gattlib, that nothing is used after it was freed but for the cases   *)
(* UsedAlive names, and that each connection has the thread that serves    *)
(* it.  Each backend has an inductive invariant of its own.                *)
(***************************************************************************)
EXTENDS Gattlib, TLAPS

USE DEF client_vars, At

-----------------------------------------------------------------------------
\* The D-Bus backend.

\* A timeout was removed too early or is pending while its loop runs or is still to
\* run, also when a handler is about to quit that loop; a connect that waits or is
\* about to has what ends it, unless that came too early; the loop of connect runs
\* only during its call, and that of the events only in its thread.
LoopsInv ==
    /\ \A c \in timeout :
         \/ NoRunYet(c)
         \/ At("loop", c) /\ <<"connect", c>> \in is_running
         \/ <<"remove", c>> \in early
    /\ \A c \in Conn : Quitting(c) /\ (NoTimeoutYet(c) \/ c \in timeout) => <<"remove", c>> \in early
    /\ \A c \in Conn : At("armed", c) \/ (At("loop", c) /\ <<"connect", c>> \in is_running) =>
         c \in timeout \/ Quitting(c) \/ <<"quit", c>> \in early
    /\ \A c \in Conn : <<"connect", c>> \in is_running => At("loop", c)
    /\ \A c \in Conn : <<"event", c>> \in is_running => thread[c] = "looping"

\* The default context is owned by a thread that runs a loop, and only its owner
\* is in a handler.
OwnerInv ==
    /\ owner = Client => call.at = "loop"
    /\ owner \in Conn => thread[owner] = "looping"
    /\ handling # Nothing => owner # Nobody /\ handling.conn \in Conn

Connecting(c) == NoRunYet(c) \/ At("loop", c) \/ At("objects", c)

\* what a connection has before gattlib_connect has returned it, and in
\* gattlib_disconnect
StagesInv == \A c \in Conn :
    /\ Connecting(c) \/ memory[c] = "none" =>
         notified[c] = 0 /\ c \notin untracked /\ thread[c] = "none"
    /\ Connecting(c) \/ At("join", c) => memory[c] = "live"
    /\ memory[c] = "none" => handling.conn # c
    /\ memory[c] = "none" \/ At("join", c) => c \notin resolved

\* a thread has left its loop only when the loop was quit too late
ServedInv == \A c \in Conn : memory[c] = "live" /\ call.conn # c =>
    /\ thread[c] = "none" => Fails("thread")
    /\ thread[c] = "ended" => c \in late
    /\ thread[c] = "looping" /\ <<"event", c>> \notin is_running => c \in late

DbusInv ==
    /\ ClientTypeOK /\ DbusTypeOK
    /\ LoopsInv /\ OwnerInv /\ StagesInv /\ DbusUsedAlive /\ ServedInv

USE DEF dbus_vars, loop_vars, signal_vars, Connecting, NoTimeoutYet, NoRunYet, Quitting, Held, Nobody,
        Client, Nothing

\* No step of the backend leaves its invariant.  When a connection is
\* freed, the thread that is handling a signal of it is not its own.
LEMMA DbusStep ==
    ASSUME DbusInv, wild = {}, DbusNext
    PROVE  DbusInv'
<1> USE NoConnAssumption, NamesAssumption, MaxHandlesAssumption
    DEF DbusInv, ClientTypeOK, DbusTypeOK, LoopsInv, OwnerInv, StagesInv, DbusUsedAlive,
        ServedInv, Outside, Fails, Loop
<1>1. ASSUME NEW c \in Conn, DbusConnect(c) PROVE DbusInv'
  BY <1>1 DEF DbusConnect, Go, Becomes
<1>2. ASSUME NEW c \in Conn, DbusConnectFails(c) PROVE DbusInv'
  <2>1. handling.conn = c => owner \in Conn \ {c}
    BY <1>2 DEF DbusConnectFails
  <2> QED
    BY <1>2, <2>1 DEF DbusConnectFails, Back, Becomes
<1>3. ASSUME NEW c \in Conn, DbusConnectWaits(c) PROVE DbusInv'
  BY <1>3 DEF DbusConnectWaits, Go
<1>4. ASSUME NEW c \in Conn, DbusConnectWakes(c) PROVE DbusInv'
  BY <1>4 DEF DbusConnectWakes, Go, Leaves
<1>5. ASSUME NEW c \in Conn, DbusConnectReturns(c) PROVE DbusInv'
  BY <1>5 DEF DbusConnectReturns, Back
<1>6. ASSUME NEW c \in Conn, DbusDisconnectFrees(c) PROVE DbusInv'
  <2>1. handling.conn = c => owner \in Conn \ {c}
    BY <1>6 DEF DbusDisconnectFrees
  <2> QED
    BY <1>6, <2>1 DEF DbusDisconnectFrees, Back, Becomes, NoHandles
<1>7. ASSUME NEW c \in Conn, DbusDisconnect(c) PROVE DbusInv'
  BY <1>7 DEF DbusDisconnect, Go
<1>8. ASSUME NEW c \in Conn, NotificationStart(c) PROVE DbusInv'
  BY <1>8 DEF NotificationStart
<1>9. ASSUME NEW c \in Conn, NotificationStop(c) PROVE DbusInv'
  BY <1>9 DEF NotificationStop, HasHandle
<1>10. ASSUME NEW c \in Conn, ThreadRuns(c) PROVE DbusInv'
  BY <1>10 DEF ThreadRuns
<1>11. ASSUME NEW c \in Conn, ThreadEnds(c) PROVE DbusInv'
  BY <1>11 DEF ThreadEnds, Leaves
<1>12. ASSUME NEW c \in Conn, TimeoutFires(c) PROVE DbusInv'
  BY <1>12 DEF TimeoutFires, Dispatching
<1>13. ASSUME NEW c \in Conn, Resolve(c) PROVE DbusInv'
  BY <1>13 DEF Resolve, HasDevice
<1>14. ASSUME NEW c \in Conn, Dispatch(c) PROVE DbusInv'
  <2>1. owner # Nobody /\ handling = Nothing /\ UNCHANGED <<client_vars, loop_vars, notified, untracked>>
    BY <1>14 DEF Dispatch, Dispatching
  <2>2. CASE handling' = [conn |-> c, what |-> "ServicesResolved"] /\ c \in resolved
             /\ resolved' = resolved \ {c}
    BY <2>1, <2>2
  <2>3. CASE handling' = [conn |-> c, what |-> "other"] /\ UNCHANGED resolved
             /\ (HasDevice(c) \/ notified[c] > 0 \/ c \in untracked)
    BY <2>1, <2>3 DEF HasDevice
  <2> QED
    BY <1>14, <2>2, <2>3 DEF Dispatch
<1>15. CASE RemoveTimeout
  BY <1>15 DEF RemoveTimeout, Found
<1>17. CASE QuitLoop
  BY <1>17 DEF QuitLoop, Found
<1>18. CASE Handled
  BY <1>18 DEF Handled, Found
<1>19. ASSUME NEW c \in Conn, DbusNewLoop(c) PROVE DbusInv'
  BY <1>19 DEF DbusNewLoop, Go
<1>20. ASSUME NEW c \in Conn, DbusAddTimeout(c) PROVE DbusInv'
  BY <1>20 DEF DbusAddTimeout, Go
<1>16. CASE Acquire
  <2>1. PICK l \in is_running : owner' = IF l[1] = "connect" THEN Client ELSE l[2]
    BY <1>16 DEF Acquire
  <2>2. /\ l[1] \in {"connect", "event"} /\ l[2] \in Conn
        /\ <<l[1], l[2]>> \in is_running
    OBVIOUS
  <2>3. UNCHANGED <<client_vars, is_running, timeout, thread, late, early, signal_vars>> /\ owner = Nobody
    BY <1>16 DEF Acquire
  <2>4. OwnerInv'
    <3>1. l[1] = "connect" => call.at = "loop"
      BY <2>2
    <3>2. l[1] = "event" => thread[l[2]] = "looping"
      BY <2>2
    <3> QED
      BY <2>1, <2>2, <2>3, <3>1, <3>2
  <2>5. ClientTypeOK' /\ DbusTypeOK' /\ LoopsInv' /\ StagesInv' /\ ServedInv'
    BY <2>1, <2>2, <2>3
  <2>6. DbusUsedAlive'
    BY <2>1, <2>2, <2>3
  <2> QED
    BY <2>4, <2>5, <2>6
<1> QED
  BY <1>1, <1>2, <1>3, <1>4, <1>5, <1>6, <1>7, <1>8, <1>9, <1>10, <1>11, <1>12, <1>13,
     <1>14, <1>15, <1>16, <1>17, <1>18, <1>19, <1>20
  DEF DbusNext, DbusCallGoesOn, HandlerGoesOn

-----------------------------------------------------------------------------
\* The backend over BlueZ.

\* The loop that is current runs, and since g_gattlib_thread.ref is never
\* positive, no loop is ever quit.
ThreadsInv ==
    /\ \A t \in Conn : loop[t] # "quit"
    /\ \A t \in Conn : memory[t] = "none" /\ ~At("attach", t) => loop[t] = "none"
    /\ current \in Conn => loop[current] = "running"
    /\ current = NoConn => \A t \in Conn : loop[t] # "running"

\* from the discovery on, a connection belongs to a context that is iterated
AttachedInv == \A c \in Conn :
    link[c] \in {"discovering", "discovered", "connected"} =>
        on[c]["attrib"] \in Conn /\ loop[on[c]["attrib"]] = "running"

\* what a connection has before it is attached, and its timer after that
AttachInv == \A c \in Conn :
    /\ At("attach", c) => memory[c] = "none" /\ arg[c] \in {"stack", "heap"}
    /\ At("timer", c) =>
         /\ memory[c] = "live" /\ arg[c] = "stack"
         /\ on[c]["timer"] = NoConn /\ c \notin timedout
    /\ memory[c] = "none" =>
         /\ link[c] = "none" /\ listener[c] = "none"
         /\ on[c]["timer"] = NoConn /\ c \notin timedout
    /\ c \in timedout => on[c]["timer"] = NoConn
    /\ At("woken", c) =>
         /\ link[c] = "connected" \/ c \in timedout
         /\ on[c]["timer"] = NoConn

\* an argument that is gone while its connect is still answered has timed out
ArgumentInv == \A c \in Conn :
    link[c] \in {"connecting", "discovering", "discovered"} /\ arg[c] = "gone" => c \in timedout

\* A thread that is at the end of a callback has been called for a connection that
\* was attached.  The timer it fires is its own, or of a connect that returned
\* meanwhile, and fired by no other thread; the answer it ends has decided over its
\* connection.
BusyInv == \A t \in Conn : LET c == busy[t].conn IN
    busy[t].what # "nothing" =>
        /\ c \in Conn /\ memory[c] # "none" /\ ~At("attach", c)
        /\ busy[t].what = "timer" =>
             /\ ~At("timer", c) /\ c \notin timedout
             /\ \A u \in Conn : busy[u] = busy[t] => u = t
             /\ \/ on[c]["timer"] = t
                \/ link[c] = "connected" /\ (arg[c] = "gone" \/ At("woken", c))
        /\ busy[t].what = "answer" =>
             /\ on[c]["io"] = t
             /\ link[c] \in {"connected", "failed"}
             /\ link[c] = "failed" /\ arg[c] = "gone" => c \in timedout

BluezInv ==
    /\ ClientTypeOK /\ BluezTypeOK
    /\ ThreadsInv /\ AttachedInv /\ AttachInv /\ ArgumentInv /\ BusyInv /\ BluezUsedAlive

USE DEF bluez_vars

\* the two types that the other steps need not look into
LEMMA StacksStep ==
    ASSUME StacksTypeOK, BluezNext
    PROVE  StacksTypeOK'
<1>1. CASE UNCHANGED nested
  BY <1>1 DEF StacksTypeOK
<1>2. ASSUME NEW c \in Conn, ConnectAnswer(c)
      PROVE  StacksTypeOK'
  <2> DEFINE t == on[c]["io"]
  <2>1. nested' = [nested EXCEPT ![t] = Append(@, c)]
    BY <1>2 DEF ConnectAnswer
  <2>2. t \in Conn => Append(nested[t], c) \in Seq(Conn)
    BY DEF StacksTypeOK
  <2> QED
    BY <2>1, <2>2 DEF StacksTypeOK
<1>3. ASSUME NEW t \in Conn, ConnectCallbackEnds(t)
      PROVE  StacksTypeOK'
  <2>1. Front(nested[t]) \in Seq(Conn)
    BY DEF StacksTypeOK, Front
  <2> QED
    BY <1>3, <2>1 DEF StacksTypeOK, ConnectCallbackEnds
<1> QED
  BY <1>1, <1>2, <1>3
  DEF BluezNext, BluezCallGoesOn, CallbackGoesOn, BluezConnect, BluezDisconnect, Request, Reply,
      ThreadLoops, BluezTimerFires, BluezTimesOut, DiscoverAnswer, ConnectCallback, Listens,
      EventArrives, EventHandled, BluezAttach, BluezTimer, BluezConnectWakes,
      BluezConnectReturns

\* What AttachTo changes of on, and the end of a timer.
NoTimer(c) == [on EXCEPT ![c]["timer"] = NoConn]

LEMMA AttachToFacts ==
    ASSUME NEW c \in Conn, NEW S, SourcesTypeOK, current \in Conn \cup {NoConn}
    PROVE  /\ on' = AttachTo(c, S) => SourcesTypeOK'
           /\ \A d \in Conn \ {c} : AttachTo(c, S)[d] = on[d]
           /\ \A s \in Source : AttachTo(c, S)[c][s] = IF s \in S THEN current ELSE on[c][s]
BY DEF AttachTo, SourcesTypeOK

LEMMA NoTimerFacts ==
    ASSUME NEW c \in Conn, SourcesTypeOK
    PROVE  /\ on' = NoTimer(c) => SourcesTypeOK'
           /\ \A d \in Conn \ {c} : NoTimer(c)[d] = on[d]
           /\ \A s \in Source : NoTimer(c)[c][s] = IF s = "timer" THEN NoConn ELSE on[c][s]
<1> DEFINE row == [on[c] EXCEPT !["timer"] = NoConn]
<1>1. /\ row \in [Source -> Conn \cup {NoConn}]
      /\ \A s \in Source : row[s] = IF s = "timer" THEN NoConn ELSE on[c][s]
  BY DEF SourcesTypeOK, Source
<1>2. NoTimer(c) = [on EXCEPT ![c] = row]
  BY DEF NoTimer
<1> QED
  BY <1>1, <1>2 DEF SourcesTypeOK

LEMMA SourcesStep ==
    ASSUME BluezTypeOK, BusyInv, BluezNext
    PROVE  SourcesTypeOK'
<1>1. CASE UNCHANGED on
  BY <1>1 DEF BluezTypeOK, SourcesTypeOK
<1>2. ASSUME NEW c \in Conn, NEW S, on' = AttachTo(c, S)
      PROVE  SourcesTypeOK'
  BY <1>2, AttachToFacts DEF BluezTypeOK
<1>3. ASSUME NEW c \in Conn, on' = NoTimer(c)
      PROVE  SourcesTypeOK'
  BY <1>3, NoTimerFacts DEF BluezTypeOK
<1>4. ASSUME NEW t \in Conn, BluezTimesOut(t)
      PROVE  SourcesTypeOK'
  <2>1. busy[t].conn \in Conn /\ on' = NoTimer(busy[t].conn)
    BY <1>4 DEF BluezTimesOut, BusyInv, NoTimer
  <2> QED
    BY <1>3, <2>1
<1> QED
  BY <1>1, <1>2, <1>3, <1>4
  DEF BluezNext, BluezCallGoesOn, CallbackGoesOn, BluezConnect, BluezDisconnect, Request, Reply,
      ThreadLoops, BluezTimerFires, ConnectCallbackEnds, DiscoverAnswer, Listens, EventArrives,
      EventHandled, BluezAttach, BluezTimer, BluezConnectWakes, BluezConnectReturns,
      ConnectAnswer, ConnectCallback, NoTimer

\* No step of the backend leaves its invariant.
LEMMA BluezStep ==
    ASSUME BluezInv, wild = {}, BluezNext
    PROVE  BluezInv'
<1>0. StacksTypeOK' /\ SourcesTypeOK'
  BY StacksStep, SourcesStep DEF BluezInv, BluezTypeOK
<1> USE <1>0, NoConnAssumption
    DEF BluezInv, ClientTypeOK, BluezTypeOK, ThreadsInv, AttachedInv, AttachInv, ArgumentInv,
        BusyInv, BluezUsedAlive, Outside
<1>1. ASSUME NEW c \in Conn, BluezConnect(c) PROVE BluezInv'
  BY <1>1 DEF BluezConnect, Go, Becomes, Fails
<1>2. ASSUME NEW c \in Conn, BluezAttach(c) PROVE BluezInv'
  <2>1. /\ \A d \in Conn \ {c} : on'[d] = on[d]
        /\ on'[c]["timer"] = on[c]["timer"] /\ on'[c]["attrib"] = on[c]["attrib"]
    BY <1>2, AttachToFacts DEF BluezAttach, Source
  <2>2. BusyInv'
    BY <1>2, <2>1 DEF BluezAttach, Go, Back, Becomes
  <2>3. ThreadsInv' /\ AttachedInv' /\ AttachInv'
    BY <1>2, <2>1 DEF BluezAttach, Go, Back, Becomes
  <2>4. ArgumentInv' /\ BluezUsedAlive'
    BY <1>2, <2>1 DEF BluezAttach, Go, Back, Becomes
  <2> QED
    BY <1>2, <2>2, <2>3, <2>4 DEF BluezAttach, Go, Back, Becomes
<1>3. ASSUME NEW c \in Conn, BluezTimer(c) PROVE BluezInv'
  <2>1. /\ \A d \in Conn \ {c} : on'[d] = on[d]
        /\ on'[c]["io"] = on[c]["io"] /\ on'[c]["attrib"] = on[c]["attrib"]
    BY <1>3, AttachToFacts DEF BluezTimer, Source
  <2>2. BusyInv'
    BY <1>3, <2>1 DEF BluezTimer, Go
  <2> QED
    BY <1>3, <2>1, <2>2 DEF BluezTimer, Go
<1>4. ASSUME NEW c \in Conn, BluezConnectWakes(c) PROVE BluezInv'
  BY <1>4, NoTimerFacts DEF BluezConnectWakes, Marked, Go, NoTimer, Source
<1>19. ASSUME NEW c \in Conn, BluezConnectReturns(c) PROVE BluezInv'
  <2>1. BusyInv'
    BY <1>19 DEF BluezConnectReturns, Back
  <2>2. AttachInv' /\ ArgumentInv' /\ BluezUsedAlive'
    BY <1>19 DEF BluezConnectReturns, Back
  <2> QED
    BY <1>19, <2>1, <2>2 DEF BluezConnectReturns, Back
<1>5. ASSUME NEW c \in Conn, ThreadLoops(c) PROVE BluezInv'
  BY <1>5 DEF ThreadLoops
<1>6. ASSUME NEW c \in Conn, BluezTimerFires(c) PROVE BluezInv'
  <2>1. on[c]["timer"] \in Conn
    BY <1>6 DEF BluezTimerFires, Dispatches, SourcesTypeOK, Source
  <2> QED
    BY <1>6, <2>1 DEF BluezTimerFires, Begins
<1>7. ASSUME NEW c \in Conn, ConnectAnswer(c) PROVE BluezInv'
  <2>1. on[c]["io"] \in Conn /\ loop[on[c]["io"]] = "running" /\ current \in Conn
    BY <1>7 DEF ConnectAnswer, Dispatches, SourcesTypeOK, Source
  <2>2. CASE link' = [link EXCEPT ![c] = "failed"] /\ UNCHANGED <<on, listener>>
             /\ Begins(on[c]["io"], "answer", c)
    BY <1>7, <2>1, <2>2 DEF ConnectAnswer, Uses, Begins
  <2>3. CASE /\ \E stage \in {"discovering", "discovered"} : link' = [link EXCEPT ![c] = stage]
             /\ on' = AttachTo(c, {"attrib"})
             /\ listener' = [listener EXCEPT ![c] = "pending"]
             /\ UNCHANGED busy
    <3>1. /\ \A d \in Conn \ {c} : on'[d] = on[d]
          /\ on'[c]["io"] = on[c]["io"] /\ on'[c]["timer"] = on[c]["timer"]
          /\ on'[c]["attrib"] = current
      BY <2>1, <2>3, AttachToFacts DEF Source
    <3>2. BusyInv'
      BY <1>7, <2>3, <3>1 DEF ConnectAnswer
    <3>3. ThreadsInv' /\ AttachedInv' /\ AttachInv'
      BY <1>7, <2>1, <2>3, <3>1 DEF ConnectAnswer
    <3>4. ArgumentInv' /\ BluezUsedAlive'
      BY <1>7, <2>3, <3>1 DEF ConnectAnswer, Uses
    <3> QED
      BY <1>7, <2>3, <3>2, <3>3, <3>4 DEF ConnectAnswer, Uses
  <2> QED
    BY <1>7, <2>2, <2>3 DEF ConnectAnswer
<1>8. ASSUME NEW c \in Conn, DiscoverAnswer(c) PROVE BluezInv'
  BY <1>8 DEF DiscoverAnswer
<1>9. ASSUME NEW c \in Conn, on[c]["io"] \in Conn, ConnectCallback(c) PROVE BluezInv'
  BY <1>9 DEF ConnectCallback, Uses, Begins
<1>10. ASSUME NEW c \in Conn, Listens(c) PROVE BluezInv'
  BY <1>10 DEF Listens, Connection
<1>11. ASSUME NEW t \in Conn, EventHandled(t) PROVE BluezInv'
  BY <1>11 DEF EventHandled, Connection, Ends, Idle
<1>12. ASSUME NEW c \in Conn, Request(c) PROVE BluezInv'
  BY <1>12 DEF Request, Go
<1>13. ASSUME NEW c \in Conn, Reply(c) PROVE BluezInv'
  BY <1>13 DEF Reply, Back
<1>14. ASSUME NEW c \in Conn, BluezDisconnect(c) PROVE BluezInv'
  BY <1>14 DEF BluezDisconnect, Becomes, LastOne, Connected
<1>15. ASSUME NEW t \in Conn, BluezTimesOut(t) PROVE BluezInv'
  <2>1. busy[t].conn \in Conn
    BY <1>15 DEF BluezTimesOut
  <2>2. BusyInv'
    BY <1>15, <2>1, NoTimerFacts DEF BluezTimesOut, Ends, Idle, NoTimer, Source
  <2>3. AttachInv' /\ ArgumentInv' /\ BluezUsedAlive'
    BY <1>15, <2>1, NoTimerFacts DEF BluezTimesOut, Uses, NoTimer, Source
  <2> QED
    BY <1>15, <2>1, <2>2, <2>3, NoTimerFacts DEF BluezTimesOut, Uses, Ends, Idle, NoTimer, Source
<1>16. ASSUME NEW t \in Conn, ConnectCallbackEnds(t) PROVE BluezInv'
  BY <1>16 DEF ConnectCallbackEnds, Uses, Ends, Idle
<1>17. ASSUME NEW c \in Conn, EventArrives(c) PROVE BluezInv'
  <2>1. on[c]["attrib"] \in Conn
    BY <1>17 DEF EventArrives, Dispatches, SourcesTypeOK, Source
  <2> QED
    BY <1>17, <2>1 DEF EventArrives, Begins
<1>18. ASSUME NEW t \in Conn, CallbackGoesOn(t) PROVE BluezInv'
  <2>1. ASSUME NEW c \in Conn, on[c]["io"] = t, ConnectCallback(c) PROVE BluezInv'
    BY <1>9, <2>1
  <2> QED
    BY <1>11, <1>15, <1>16, <1>18, <2>1, Zenon DEF CallbackGoesOn
<1> QED
  BY <1>1, <1>2, <1>3, <1>4, <1>5, <1>6, <1>7, <1>8, <1>10, <1>12, <1>13, <1>14, <1>17,
     <1>18, <1>19, Zenon
  DEF BluezNext, BluezCallGoesOn

-----------------------------------------------------------------------------
\* The whole.

\* The inductive invariant.
IInv ==
    /\ backend \in {"dbus", "bluez"}
    /\ backend = "dbus" => DbusInv
    /\ backend = "bluez" => BluezInv

LEMMA Initially == Init => IInv
<1> SUFFICES ASSUME Init PROVE IInv
  OBVIOUS
<1> USE NoConnAssumption, NamesAssumption, MaxHandlesAssumption DEF ClientInit, ClientTypeOK, Outside
<1>1. ASSUME DbusInit, ClientInit PROVE DbusInv
  BY <1>1
  DEF DbusInit, DbusInv, DbusTypeOK, LoopsInv, OwnerInv, StagesInv, DbusUsedAlive, ServedInv
<1>2. ASSUME BluezInit, ClientInit PROVE BluezInv
  <2>1. StacksTypeOK /\ SourcesTypeOK
    BY <1>2 DEF BluezInit, StacksTypeOK, SourcesTypeOK, Source
  <2> QED
    BY <1>2, <2>1
    DEF BluezInit, BluezInv, BluezTypeOK, ThreadsInv, AttachedInv, AttachInv, ArgumentInv,
        BusyInv, Idle, BluezUsedAlive, Source
<1> QED
  BY <1>1, <1>2 DEF Init, IInv

LEMMA Step == IInv /\ [Next]_vars => IInv'
<1> SUFFICES ASSUME IInv, [Next]_vars PROVE IInv'
  OBVIOUS
<1>1. CASE InDbus(DbusNext)
  BY <1>1, DbusStep DEF InDbus, IInv
<1>2. CASE InBluez(BluezNext)
  BY <1>2, BluezStep DEF InBluez, IInv
<1>3. CASE UNCHANGED vars
  <2>1. DbusInv => DbusInv'
    BY <1>3
    DEF vars, DbusInv, ClientTypeOK, DbusTypeOK, LoopsInv, OwnerInv, StagesInv, DbusUsedAlive,
        ServedInv, Loop
  <2>2. BluezInv => BluezInv'
    <3>1. BluezTypeOK => BluezTypeOK'
      BY <1>3 DEF vars, BluezTypeOK, StacksTypeOK, SourcesTypeOK
    <3> QED
      BY <1>3, <3>1
      DEF vars, BluezInv, ClientTypeOK, ThreadsInv, AttachedInv, AttachInv, ArgumentInv,
          BusyInv, BluezUsedAlive
  <2> QED
    BY <1>3, <2>1, <2>2 DEF vars, IInv
<1> QED
  BY <1>1, <1>2, <1>3 DEF Next

LEMMA Invariance == Spec => []IInv
BY Initially, Step, PTL DEF Spec

\* TypeOK for any number of connections and of handlers.
THEOREM TypesOK == Spec => []TypeOK
<1>1. IInv => TypeOK
  BY DEF IInv, TypeOK, DbusInv, BluezInv
<1> QED
  BY <1>1, Invariance, PTL

\* No step reaches what has been freed, in either backend, but for the cases that
\* DbusUsedAlive and BluezUsedAlive name.  Over D-Bus: a signal that is in no list,
\* one that another thread was handling, and a timeout that was added after another
\* thread had removed it.  Over BlueZ: a handler or a source that is still to run, a
\* connect that has timed out, and one that returned on its mark while the thread was
\* still at the end of the callback or in the timer.
THEOREM AllUsedAlive == Spec => []UsedAlive
<1>1. IInv => UsedAlive
  BY DEF IInv, UsedAlive, DbusInv, BluezInv
<1> QED
  BY <1>1, Invariance, PTL

\* A connection that the client holds keeps the thread that dispatches its events:
\* over D-Bus unless the thread could not be created or the services were resolved
\* again, over BlueZ always, since no disconnect counts down to zero.  A connect that
\* waits over D-Bus has its timeout, unless its services were resolved or its timeout
\* fired before it ran its loop.
THEOREM AllServed == Spec => []Served
<1>1. DbusInv => DbusServed
  BY DEF DbusInv, LoopsInv, ServedInv, DbusServed
<1>2. BluezInv => BluezServed
  BY DEF BluezInv, AttachedInv, BluezServed, Connected
<1>3. IInv => Served
  BY <1>1, <1>2 DEF IInv, Served
<1> QED
  BY <1>3, Invariance, PTL
=============================================================================
