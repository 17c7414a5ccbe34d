---------------------------- MODULE Scans_proofs ----------------------------
(***************************************************************************)
(* Proofs about scanning with gattlib, for any devices, timeouts, failing  *)
(* calls and number of scans: the types of Scans, that nothing is used     *)
(* after it was freed, that nothing of a scan is left behind, and that a   *)
(* device is reported once.  Each backend has an inductive invariant of    *)
(* its own.                                                                *)
(***************************************************************************)
EXTENDS Scans, TLAPS

USE TimeoutAssumption, MaxScansAssumption DEF client_vars, Fails

-----------------------------------------------------------------------------
\* The D-Bus backend.

\* The loop's thread disables in the callback or at the end of the scan, which it
\* runs for a client that waits or has the adapter open.
PlacesInv ==
    /\ disabling["loop"] # "no" => scanner \in {"looping", "disable"}
    /\ client = "connect" => scans < MaxScans
    /\ client \in {"start", "create"} \/ scanner # "none" => scans >= 1
    /\ client = "closed" => disabling["api"] = "no"

Connected == client \in {"start", "create"} \/ scanner \notin {"none", "disable", "free"}

\* Each start that failed left its handlers, and a scan has its own until it ends.
HandlersInv ==
    /\ handlers = (IF Connected THEN failed + 1 ELSE failed)
    /\ handlers <= scans

\* The list of a scan is there until it ends, and holds what was reported.
ListInv ==
    /\ Scanning => ~list_freed
    /\ DbusReportedOnce

\* The rest holds until a disable meets one of the steps it breaks.

Started == scanner \in {"timer", "run", "enter", "looping", "ended", "disable"}

\* Who disables is alone, and finds the loop of this scan.
AloneInv ==
    /\ \A c \in Caller : disabling[c] # "no" =>
         /\ scanner \in {"looping", "ended", "disable"}
         /\ scan_loop = scans
    /\ disabling["loop"] = "no" \/ disabling["api"] = "no"
    /\ scan_loop # NULL => scan_loop = scans /\ Started
    /\ scanner \in {"timer", "run", "enter"} => scan_loop = scans
    /\ scanner \in {"enter", "looping"} => entering = scans

Disables(stages) == \E c \in Caller : disabling[c] \in stages

\* the adapter's reference, until a disable drops it
Referenced == scan_loop # NULL /\ ~Disables({"clear"})

\* The adapter and g_main_loop_run each hold one reference to the loop.
RefsInv ==
    \A s \in 1 .. MaxScans :
        loops[s].refs = IF s # scans THEN 0
                        ELSE (IF Referenced THEN 1 ELSE 0) + (IF scanner = "looping" THEN 1 ELSE 0)

\* A timeout waits only for a loop that runs or is about to, and discovery is on
\* only until the disable of its scan.
LeftInv ==
    /\ timer # NULL =>
         /\ timer = scans /\ timeout_id = scans
         /\ scanner \in {"run", "enter", "looping"} /\ scan_loop # NULL
         /\ ~Disables({"quit", "unref", "clear"})
         /\ scanner = "looping" => loops[scans].running
    /\ timeout_id # 0 => scanner \in {"run", "enter", "looping", "ended"}
    /\ discovering /\ failed = 0 =>
         /\ client = "create" \/ scanner = "new" \/ scan_loop # NULL
         /\ ~Disables({"timeout", "quit", "unref", "clear"})

UnracedInv == ~wild /\ AloneInv /\ RefsInv /\ LeftInv

DbusInv ==
    /\ ClientTypeOK /\ DbusTypeOK /\ PlacesInv /\ HandlersInv /\ ListInv
    /\ ~raced => UnracedInv

USE DEF scan_vars, glib_vars, bluez_vars, Caller, NULL, Connected, Scanning, Starting

\* The type of the variables in three parts, which the steps below take one by one.
PlacesTyped ==
    /\ client \in {"closed", "open", "connect", "start", "create", "blocked"}
    /\ scanner \in {"none", "new", "timer", "run", "enter", "looping", "ended", "disable", "free"}
    /\ scanner # "none" => client \in {"open", "blocked"}
    /\ client = "blocked" => scanner # "none"
    /\ disabling \in [Caller -> {"no", "discovery", "timeout", "quit", "unref", "clear"}]
    /\ enabled_filters \subseteq {"NOTIFY_CHANGE"}
    /\ discovered_devices \subseteq Device
    /\ entering \in Handles /\ timer \in Handles /\ timeout_id \in Handles /\ scan_loop \in Handles
    /\ failed \in Handles /\ handlers \in Handles
FlagsTyped == {device_manager, list_freed, discovering, wild} \subseteq BOOLEAN
LoopsTyped == loops \in [1 .. MaxScans -> [refs : Int, running : BOOLEAN]]

TypedInv == ClientTypeOK /\ PlacesTyped /\ PlacesInv /\ HandlersInv

\* DbusTypeOK is the three parts, before a step and after it.
LEMMA TypeParts ==
    /\ DbusTypeOK <=> PlacesTyped /\ FlagsTyped /\ LoopsTyped
    /\ DbusTypeOK' <=> PlacesTyped' /\ FlagsTyped' /\ LoopsTyped'
<1> USE DEF Handles
<1>1. DbusTypeOK <=> PlacesTyped /\ FlagsTyped /\ LoopsTyped
  BY DEF DbusTypeOK, PlacesTyped, FlagsTyped, LoopsTyped
<1>2. DbusTypeOK' <=> PlacesTyped' /\ FlagsTyped' /\ LoopsTyped'
  BY DEF DbusTypeOK, PlacesTyped, FlagsTyped, LoopsTyped
<1> QED
  BY <1>1, <1>2

USE DEF Handles

\* g_main_loop_unref leaves a record of every loop, also when it is given none.
LEMMA UnrefTyped ==
    ASSUME LoopsTyped, NEW l
    PROVE  Unref(l) \in [1 .. MaxScans -> [refs : Int, running : BOOLEAN]]
<1>1. ASSUME l \in 1 .. MaxScans
      PROVE  [loops[l] EXCEPT !.refs = @ - 1] \in [refs : Int, running : BOOLEAN]
  <2>1. loops[l] \in [refs : Int, running : BOOLEAN]
    BY <1>1 DEF LoopsTyped
  <2> QED
    BY <2>1
<1> QED
  BY <1>1 DEF LoopsTyped, Unref

\* g_main_loop_quit does so too, and drops no reference.
LEMMA QuitTyped ==
    ASSUME LoopsTyped, NEW l
    PROVE  /\ Quit(l) \in [1 .. MaxScans -> [refs : Int, running : BOOLEAN]]
           /\ \A s \in 1 .. MaxScans : Quit(l)[s].refs = loops[s].refs
<1>1. \A s \in 1 .. MaxScans : loops[s] \in [refs : Int, running : BOOLEAN]
  BY DEF LoopsTyped
<1>2. \A s \in 1 .. MaxScans :
        Quit(l)[s] = IF s = l THEN [loops[s] EXCEPT !.running = FALSE] ELSE loops[s]
  BY DEF LoopsTyped, Quit
<1>3. \A s \in 1 .. MaxScans :
        /\ Quit(l)[s] \in [refs : Int, running : BOOLEAN]
        /\ Quit(l)[s].refs = loops[s].refs
  BY <1>1, <1>2
<1>4. Quit(l) = [s \in 1 .. MaxScans |-> Quit(l)[s]]
  BY DEF LoopsTyped, Quit
<1> QED
  BY <1>3, <1>4

\* No step of the backend leaves the types, nor what PlacesInv and HandlersInv say of
\* where the threads stand: a start that fails counts the handlers it leaves.
LEMMA TypedStep ==
    ASSUME TypedInv, DbusNext
    PROVE  TypedInv'
<1> USE DEF TypedInv, ClientTypeOK, PlacesTyped, PlacesInv, HandlersInv
<1>1. CASE Open
  BY <1>1 DEF Open
<1>2. CASE Close
  BY <1>2 DEF Close
<1>3. CASE Enable
  BY <1>3 DEF Enable
<1>4. CASE Connect
  BY <1>4 DEF Connect
<1>5. CASE StartDiscovery
  BY <1>5 DEF StartDiscovery
<1>6. CASE RunLoop
  BY <1>6 DEF RunLoop
<1>7. CASE LoopNew
  BY <1>7 DEF LoopNew
<1>8. CASE LoopTimer
  BY <1>8 DEF LoopTimer
<1>9. CASE LoopRun
  BY <1>9 DEF LoopRun
<1>10. CASE LoopEnter
  BY <1>10 DEF LoopEnter
<1>11. CASE TimeoutFires
  BY <1>11 DEF TimeoutFires, Quit
<1>12. ASSUME NEW d \in Device, Signal(d) PROVE TypedInv'
  <2>1. ClientTypeOK'
    <3>1. reported' \in [Device -> 0 .. 2]
      BY <1>12 DEF Signal
    <3> QED
      BY <1>12, <3>1 DEF Signal
  <2>2. PlacesTyped'
    BY <1>12 DEF Signal, Listed
  <2>3. PlacesInv' /\ HandlersInv'
    BY <1>12 DEF Signal
  <2> QED
    BY <2>1, <2>2, <2>3
<1>13. CASE LoopLeave
  BY <1>13 DEF LoopLeave, Unref
<1>14. CASE LoopEnded
  BY <1>14 DEF LoopEnded, Disconnected
<1>15. CASE LoopDisables
  BY <1>15 DEF LoopDisables
<1>16. CASE LoopFrees
  BY <1>16 DEF LoopFrees, Returned
<1>17. CASE ApiDisables
  BY <1>17 DEF ApiDisables
<1>18. ASSUME NEW c \in Caller, DisableDiscovery(c) PROVE TypedInv'
  BY <1>18 DEF DisableDiscovery, Disabling
<1>19. ASSUME NEW c \in Caller, DisableTimeout(c) PROVE TypedInv'
  BY <1>19 DEF DisableTimeout, Disabling, Removed
<1>20. ASSUME NEW c \in Caller, DisableQuit(c) PROVE TypedInv'
  BY <1>20 DEF DisableQuit, Disabling, Quit
<1>21. ASSUME NEW c \in Caller, DisableUnref(c) PROVE TypedInv'
  BY <1>21 DEF DisableUnref, Disabling, Unref
<1>22. ASSUME NEW c \in Caller, DisableClear(c) PROVE TypedInv'
  BY <1>22 DEF DisableClear, Disabling, Cleared
<1> QED
  BY <1>1, <1>2, <1>3, <1>4, <1>5, <1>6, <1>7, <1>8, <1>9, <1>10, <1>11, <1>12,
     <1>13, <1>14, <1>15, <1>16, <1>17, <1>18, <1>19, <1>20, <1>21, <1>22
  DEF DbusNext, ClientNext, LoopNext, Disable

\* The flags stay Booleans.
LEMMA FlagsStep ==
    ASSUME FlagsTyped, DbusNext
    PROVE  FlagsTyped'
<1> USE DEF FlagsTyped
<1>1. CASE Open
  BY <1>1 DEF Open
<1>2. CASE Close
  BY <1>2 DEF Close
<1>3. CASE Enable
  BY <1>3 DEF Enable
<1>4. CASE Connect
  BY <1>4 DEF Connect
<1>5. CASE StartDiscovery
  BY <1>5 DEF StartDiscovery
<1>6. CASE RunLoop
  BY <1>6 DEF RunLoop
<1>7. CASE LoopNew
  BY <1>7 DEF LoopNew
<1>8. CASE LoopTimer
  BY <1>8 DEF LoopTimer
<1>9. CASE LoopRun
  BY <1>9 DEF LoopRun
<1>10. CASE LoopEnter
  BY <1>10 DEF LoopEnter
<1>11. CASE TimeoutFires
  BY <1>11 DEF TimeoutFires, Quit
<1>12. ASSUME NEW d \in Device, Signal(d) PROVE FlagsTyped'
  BY <1>12 DEF Signal, Listed
<1>13. CASE LoopLeave
  BY <1>13 DEF LoopLeave, Unref
<1>14. CASE LoopEnded
  BY <1>14 DEF LoopEnded, Disconnected
<1>15. CASE LoopDisables
  BY <1>15 DEF LoopDisables
<1>16. CASE LoopFrees
  BY <1>16 DEF LoopFrees, Returned
<1>17. CASE ApiDisables
  BY <1>17 DEF ApiDisables
<1>18. ASSUME NEW c \in Caller, DisableDiscovery(c) PROVE FlagsTyped'
  BY <1>18 DEF DisableDiscovery, Disabling
<1>19. ASSUME NEW c \in Caller, DisableTimeout(c) PROVE FlagsTyped'
  BY <1>19 DEF DisableTimeout, Disabling, Removed
<1>20. ASSUME NEW c \in Caller, DisableQuit(c) PROVE FlagsTyped'
  BY <1>20 DEF DisableQuit, Disabling, Quit
<1>21. ASSUME NEW c \in Caller, DisableUnref(c) PROVE FlagsTyped'
  BY <1>21 DEF DisableUnref, Disabling, Unref
<1>22. ASSUME NEW c \in Caller, DisableClear(c) PROVE FlagsTyped'
  BY <1>22 DEF DisableClear, Disabling, Cleared
<1> QED
  BY <1>1, <1>2, <1>3, <1>4, <1>5, <1>6, <1>7, <1>8, <1>9, <1>10, <1>11, <1>12,
     <1>13, <1>14, <1>15, <1>16, <1>17, <1>18, <1>19, <1>20, <1>21, <1>22
  DEF DbusNext, ClientNext, LoopNext, Disable

\* The records of the loops keep their type, also when NULL is given for a loop.
LEMMA LoopsStep ==
    ASSUME PlacesTyped, PlacesInv, LoopsTyped, DbusNext
    PROVE  LoopsTyped'
<1> USE DEF PlacesTyped, PlacesInv, LoopsTyped
<1>1. CASE Open
  BY <1>1 DEF Open
<1>2. CASE Close
  BY <1>2 DEF Close
<1>3. CASE Enable
  BY <1>3 DEF Enable
<1>4. CASE Connect
  BY <1>4 DEF Connect
<1>5. CASE StartDiscovery
  BY <1>5 DEF StartDiscovery
<1>6. CASE RunLoop
  BY <1>6 DEF RunLoop
<1>7. CASE LoopNew
  <2>1. [refs |-> 1, running |-> FALSE] \in [refs : Int, running : BOOLEAN]
    OBVIOUS
  <2> QED
    BY <1>7, <2>1 DEF LoopNew
<1>8. CASE LoopTimer
  BY <1>8 DEF LoopTimer
<1>9. CASE LoopRun
  BY <1>9 DEF LoopRun
<1>10. CASE LoopEnter
  BY <1>10 DEF LoopEnter
<1>11. CASE TimeoutFires
  BY <1>11, QuitTyped DEF TimeoutFires
<1>12. ASSUME NEW d \in Device, Signal(d) PROVE LoopsTyped'
  BY <1>12 DEF Signal, Listed
<1>13. CASE LoopLeave
  BY <1>13, UnrefTyped DEF LoopLeave
<1>14. CASE LoopEnded
  BY <1>14 DEF LoopEnded, Disconnected
<1>15. CASE LoopDisables
  BY <1>15 DEF LoopDisables
<1>16. CASE LoopFrees
  BY <1>16 DEF LoopFrees, Returned
<1>17. CASE ApiDisables
  BY <1>17 DEF ApiDisables
<1>18. ASSUME NEW c \in Caller, DisableDiscovery(c) PROVE LoopsTyped'
  BY <1>18 DEF DisableDiscovery, Disabling
<1>19. ASSUME NEW c \in Caller, DisableTimeout(c) PROVE LoopsTyped'
  BY <1>19 DEF DisableTimeout, Disabling, Removed
<1>20. ASSUME NEW c \in Caller, DisableQuit(c) PROVE LoopsTyped'
  BY <1>20, QuitTyped DEF DisableQuit
<1>21. ASSUME NEW c \in Caller, DisableUnref(c) PROVE LoopsTyped'
  BY <1>21, UnrefTyped DEF DisableUnref
<1>22. ASSUME NEW c \in Caller, DisableClear(c) PROVE LoopsTyped'
  BY <1>22 DEF DisableClear, Disabling, Cleared
<1> QED
  BY <1>1, <1>2, <1>3, <1>4, <1>5, <1>6, <1>7, <1>8, <1>9, <1>10, <1>11, <1>12,
     <1>13, <1>14, <1>15, <1>16, <1>17, <1>18, <1>19, <1>20, <1>21, <1>22
  DEF DbusNext, ClientNext, LoopNext, Disable

\* The list is begun anew by each scan, is freed only at its end, and gets each device
\* that is reported: no disable and no failure disturbs that.
LEMMA ListStep ==
    ASSUME DbusTypeOK, ClientTypeOK, PlacesInv, ListInv, DbusNext
    PROVE  ListInv'
<1> USE DEF ClientTypeOK, DbusTypeOK, PlacesInv, ListInv, DbusReportedOnce
<1>1. CASE Open
  BY <1>1 DEF Open
<1>2. CASE Close
  BY <1>2 DEF Close
<1>3. CASE Enable
  BY <1>3 DEF Enable
<1>4. CASE Connect
  BY <1>4 DEF Connect
<1>5. CASE StartDiscovery
  BY <1>5 DEF StartDiscovery
<1>6. CASE RunLoop
  BY <1>6 DEF RunLoop
<1>7. CASE LoopNew
  BY <1>7 DEF LoopNew
<1>8. CASE LoopTimer
  BY <1>8 DEF LoopTimer
<1>9. CASE LoopRun
  BY <1>9 DEF LoopRun
<1>10. CASE LoopEnter
  BY <1>10 DEF LoopEnter
<1>11. CASE TimeoutFires
  BY <1>11 DEF TimeoutFires, Quit
<1>12. ASSUME NEW d \in Device, Signal(d) PROVE ListInv'
  <2>1. ~list_freed'
    BY <1>12 DEF Signal
  <2>2. ASSUME NEW e \in Device
        PROVE  /\ e \in discovered_devices' <=> reported'[e] > 0
               /\ reported'[e] > 1 => "NOTIFY_CHANGE" \in enabled_filters'
    <3>1. CASE e = d
      BY <1>12, <3>1 DEF Signal, Listed
    <3>2. CASE e # d
      BY <1>12, <3>2 DEF Signal, Listed
    <3> QED
      BY <3>1, <3>2
  <2> QED
    BY <2>1, <2>2
<1>13. CASE LoopLeave
  BY <1>13 DEF LoopLeave, Unref
<1>14. CASE LoopEnded
  BY <1>14 DEF LoopEnded, Disconnected
<1>15. CASE LoopDisables
  BY <1>15 DEF LoopDisables
<1>16. CASE LoopFrees
  BY <1>16 DEF LoopFrees, Returned
<1>17. CASE ApiDisables
  BY <1>17 DEF ApiDisables
<1>18. ASSUME NEW c \in Caller, DisableDiscovery(c) PROVE ListInv'
  BY <1>18 DEF DisableDiscovery, Disabling
<1>19. ASSUME NEW c \in Caller, DisableTimeout(c) PROVE ListInv'
  BY <1>19 DEF DisableTimeout, Disabling, Removed
<1>20. ASSUME NEW c \in Caller, DisableQuit(c) PROVE ListInv'
  BY <1>20 DEF DisableQuit, Disabling, Quit
<1>21. ASSUME NEW c \in Caller, DisableUnref(c) PROVE ListInv'
  BY <1>21 DEF DisableUnref, Disabling, Unref
<1>22. ASSUME NEW c \in Caller, DisableClear(c) PROVE ListInv'
  BY <1>22 DEF DisableClear, Disabling, Cleared
<1> QED
  BY <1>1, <1>2, <1>3, <1>4, <1>5, <1>6, <1>7, <1>8, <1>9, <1>10, <1>11, <1>12,
     <1>13, <1>14, <1>15, <1>16, <1>17, <1>18, <1>19, <1>20, <1>21, <1>22
  DEF DbusNext, ClientNext, LoopNext, Disable

\* A disable that begins while another goes on, or before the loop runs, is a race;
\* without one, who disables is alone and finds the loop of the scan that runs.
LEMMA AloneStep ==
    ASSUME DbusInv, DbusNext
    PROVE  ~raced' => AloneInv'
<1> USE DEF ClientTypeOK, DbusTypeOK, PlacesInv, DbusInv, UnracedInv, AloneInv,
            Started
<1>1. CASE Open
  BY <1>1 DEF Open
<1>2. CASE Close
  BY <1>2 DEF Close
<1>3. CASE Enable
  BY <1>3 DEF Enable
<1>4. CASE Connect
  BY <1>4 DEF Connect
<1>5. CASE StartDiscovery
  BY <1>5 DEF StartDiscovery
<1>6. CASE RunLoop
  BY <1>6 DEF RunLoop
<1>7. CASE LoopNew
  BY <1>7 DEF LoopNew
<1>8. CASE LoopTimer
  BY <1>8 DEF LoopTimer
<1>9. CASE LoopRun
  BY <1>9 DEF LoopRun
<1>10. CASE LoopEnter
  BY <1>10 DEF LoopEnter
<1>11. CASE TimeoutFires
  BY <1>11 DEF TimeoutFires, Quit
<1>12. ASSUME NEW d \in Device, Signal(d) PROVE ~raced' => AloneInv'
  BY <1>12 DEF Signal, Listed
<1>13. CASE LoopLeave
  BY <1>13 DEF LoopLeave, Unref
<1>14. CASE LoopEnded
  BY <1>14 DEF LoopEnded, Disconnected
<1>15. CASE LoopDisables
  <2>1. CASE scan_loop = NULL
    BY <1>15, <2>1 DEF LoopDisables
  <2>2. CASE scan_loop # NULL
    <3>1. /\ scanner = "disable" /\ scanner' = scanner
          /\ disabling' = [disabling EXCEPT !["loop"] = "discovery"]
          /\ raced' = (raced \/ disabling["api"] # "no")
          /\ UNCHANGED <<scan_loop, scans, entering>>
      BY <1>15, <2>2 DEF LoopDisables
    <3> QED
      BY <2>2, <3>1
  <2> QED
    BY <2>1, <2>2
<1>16. CASE LoopFrees
  BY <1>16 DEF LoopFrees, Returned
<1>17. CASE ApiDisables
  BY <1>17 DEF ApiDisables
<1>18. ASSUME NEW c \in Caller, DisableDiscovery(c) PROVE ~raced' => AloneInv'
  BY <1>18 DEF DisableDiscovery, Disabling
<1>19. ASSUME NEW c \in Caller, DisableTimeout(c) PROVE ~raced' => AloneInv'
  BY <1>19 DEF DisableTimeout, Disabling, Removed
<1>20. ASSUME NEW c \in Caller, DisableQuit(c) PROVE ~raced' => AloneInv'
  BY <1>20 DEF DisableQuit, Disabling, Quit
<1>21. ASSUME NEW c \in Caller, DisableUnref(c) PROVE ~raced' => AloneInv'
  BY <1>21 DEF DisableUnref, Disabling, Unref
<1>22. ASSUME NEW c \in Caller, DisableClear(c) PROVE ~raced' => AloneInv'
  BY <1>22 DEF DisableClear, Disabling, Cleared
<1> QED
  BY <1>1, <1>2, <1>3, <1>4, <1>5, <1>6, <1>7, <1>8, <1>9, <1>10, <1>11, <1>12,
     <1>13, <1>14, <1>15, <1>16, <1>17, <1>18, <1>19, <1>20, <1>21, <1>22
  DEF DbusNext, ClientNext, LoopNext, Disable

\* Each reference to a loop is taken and dropped once.
LEMMA RefsStep ==
    ASSUME DbusInv, DbusNext
    PROVE  ~raced' => RefsInv'
<1> USE DEF ClientTypeOK, DbusTypeOK, PlacesInv, DbusInv, UnracedInv, AloneInv,
            Started, RefsInv, Referenced, Disables
<1>1. CASE Open
  BY <1>1 DEF Open
<1>2. CASE Close
  BY <1>2 DEF Close
<1>3. CASE Enable
  BY <1>3 DEF Enable
<1>4. CASE Connect
  BY <1>4 DEF Connect
<1>5. CASE StartDiscovery
  BY <1>5 DEF StartDiscovery
<1>6. CASE RunLoop
  BY <1>6 DEF RunLoop
<1>7. CASE LoopNew
  BY <1>7 DEF LoopNew
<1>8. CASE LoopTimer
  BY <1>8 DEF LoopTimer
<1>9. CASE LoopRun
  BY <1>9 DEF LoopRun
<1>10. CASE LoopEnter
  BY <1>10 DEF LoopEnter
<1>11. CASE TimeoutFires
  BY <1>11 DEF TimeoutFires, Quit
<1>12. ASSUME NEW d \in Device, Signal(d) PROVE ~raced' => RefsInv'
  BY <1>12 DEF Signal, Listed
<1>13. CASE LoopLeave
  BY <1>13 DEF LoopLeave, Unref
<1>14. CASE LoopEnded
  BY <1>14 DEF LoopEnded, Disconnected
<1>15. CASE LoopDisables
  BY <1>15 DEF LoopDisables
<1>16. CASE LoopFrees
  BY <1>16 DEF LoopFrees, Returned
<1>17. CASE ApiDisables
  BY <1>17 DEF ApiDisables
<1>18. ASSUME NEW c \in Caller, DisableDiscovery(c) PROVE ~raced' => RefsInv'
  BY <1>18 DEF DisableDiscovery, Disabling
<1>19. ASSUME NEW c \in Caller, DisableTimeout(c) PROVE ~raced' => RefsInv'
  BY <1>19 DEF DisableTimeout, Disabling, Removed
<1>20. ASSUME NEW c \in Caller, DisableQuit(c) PROVE ~raced' => RefsInv'
  <2>1. \A s \in 1 .. MaxScans : loops'[s].refs = loops[s].refs
    BY <1>20, QuitTyped, TypeParts DEF DisableQuit
  <2>2. Referenced' = Referenced
    BY <1>20 DEF DisableQuit, Disabling
  <2> QED
    BY <1>20, <2>1, <2>2 DEF DisableQuit
<1>21. ASSUME NEW c \in Caller, DisableUnref(c) PROVE ~raced' => RefsInv'
  BY <1>21 DEF DisableUnref, Disabling, Unref
<1>22. ASSUME NEW c \in Caller, DisableClear(c) PROVE ~raced' => RefsInv'
  BY <1>22 DEF DisableClear, Disabling, Cleared
<1> QED
  BY <1>1, <1>2, <1>3, <1>4, <1>5, <1>6, <1>7, <1>8, <1>9, <1>10, <1>11, <1>12,
     <1>13, <1>14, <1>15, <1>16, <1>17, <1>18, <1>19, <1>20, <1>21, <1>22
  DEF DbusNext, ClientNext, LoopNext, Disable

\* A timeout goes with the loop it is to quit, and discovery is turned off before it.
LEMMA LeftStep ==
    ASSUME DbusInv, DbusNext
    PROVE  ~raced' => LeftInv'
<1> USE DEF ClientTypeOK, DbusTypeOK, PlacesInv, DbusInv, UnracedInv, AloneInv,
            Started, LeftInv, Disables, HandlersInv
<1>1. CASE Open
  BY <1>1 DEF Open
<1>2. CASE Close
  BY <1>2 DEF Close
<1>3. CASE Enable
  BY <1>3 DEF Enable
<1>4. CASE Connect
  BY <1>4 DEF Connect
<1>5. CASE StartDiscovery
  BY <1>5 DEF StartDiscovery
<1>6. CASE RunLoop
  BY <1>6 DEF RunLoop
<1>7. CASE LoopNew
  BY <1>7 DEF LoopNew
<1>8. CASE LoopTimer
  BY <1>8 DEF LoopTimer
<1>9. CASE LoopRun
  BY <1>9 DEF LoopRun
<1>10. CASE LoopEnter
  BY <1>10 DEF LoopEnter
<1>11. CASE TimeoutFires
  BY <1>11 DEF TimeoutFires, Quit
<1>12. ASSUME NEW d \in Device, Signal(d) PROVE ~raced' => LeftInv'
  BY <1>12 DEF Signal, Listed
<1>13. CASE LoopLeave
  BY <1>13 DEF LoopLeave, Unref
<1>14. CASE LoopEnded
  BY <1>14 DEF LoopEnded, Disconnected
<1>15. CASE LoopDisables
  BY <1>15 DEF LoopDisables
<1>16. CASE LoopFrees
  BY <1>16 DEF LoopFrees, Returned
<1>17. CASE ApiDisables
  BY <1>17 DEF ApiDisables
<1>18. ASSUME NEW c \in Caller, DisableDiscovery(c) PROVE ~raced' => LeftInv'
  BY <1>18 DEF DisableDiscovery, Disabling
<1>19. ASSUME NEW c \in Caller, DisableTimeout(c) PROVE ~raced' => LeftInv'
  BY <1>19 DEF DisableTimeout, Disabling, Removed
<1>20. ASSUME NEW c \in Caller, DisableQuit(c) PROVE ~raced' => LeftInv'
  BY <1>20 DEF DisableQuit, Disabling, Quit
<1>21. ASSUME NEW c \in Caller, DisableUnref(c) PROVE ~raced' => LeftInv'
  BY <1>21 DEF DisableUnref, Disabling, Unref
<1>22. ASSUME NEW c \in Caller, DisableClear(c) PROVE ~raced' => LeftInv'
  BY <1>22 DEF DisableClear, Disabling, Cleared
<1> QED
  BY <1>1, <1>2, <1>3, <1>4, <1>5, <1>6, <1>7, <1>8, <1>9, <1>10, <1>11, <1>12,
     <1>13, <1>14, <1>15, <1>16, <1>17, <1>18, <1>19, <1>20, <1>21, <1>22
  DEF DbusNext, ClientNext, LoopNext, Disable

\* What is used is referenced: the loop that is entered, quit or left, and the list.
LEMMA TameStep ==
    ASSUME DbusInv, DbusNext
    PROVE  ~raced' => ~wild'
<1> USE DEF ClientTypeOK, DbusTypeOK, PlacesInv, ListInv, DbusInv, UnracedInv, AloneInv,
            Started, RefsInv, Referenced, LeftInv, Disables
<1>1. CASE Open
  BY <1>1 DEF Open
<1>2. CASE Close
  BY <1>2 DEF Close
<1>3. CASE Enable
  BY <1>3 DEF Enable
<1>4. CASE Connect
  BY <1>4 DEF Connect
<1>5. CASE StartDiscovery
  BY <1>5 DEF StartDiscovery
<1>6. CASE RunLoop
  BY <1>6 DEF RunLoop
<1>7. CASE LoopNew
  BY <1>7 DEF LoopNew
<1>8. CASE LoopTimer
  BY <1>8 DEF LoopTimer
<1>9. CASE LoopRun
  BY <1>9 DEF LoopRun
<1>10. CASE LoopEnter
  BY <1>10 DEF LoopEnter
<1>11. CASE TimeoutFires
  BY <1>11 DEF TimeoutFires, Quit
<1>12. ASSUME NEW d \in Device, Signal(d) PROVE ~raced' => ~wild'
  BY <1>12 DEF Signal, Listed
<1>13. CASE LoopLeave
  BY <1>13 DEF LoopLeave, Unref
<1>14. CASE LoopEnded
  BY <1>14 DEF LoopEnded, Disconnected
<1>15. CASE LoopDisables
  BY <1>15 DEF LoopDisables
<1>16. CASE LoopFrees
  BY <1>16 DEF LoopFrees, Returned
<1>17. CASE ApiDisables
  BY <1>17 DEF ApiDisables
<1>18. ASSUME NEW c \in Caller, DisableDiscovery(c) PROVE ~raced' => ~wild'
  BY <1>18 DEF DisableDiscovery, Disabling
<1>19. ASSUME NEW c \in Caller, DisableTimeout(c) PROVE ~raced' => ~wild'
  BY <1>19 DEF DisableTimeout, Disabling, Removed
<1>20. ASSUME NEW c \in Caller, DisableQuit(c) PROVE ~raced' => ~wild'
  BY <1>20 DEF DisableQuit, Disabling, Quit
<1>21. ASSUME NEW c \in Caller, DisableUnref(c) PROVE ~raced' => ~wild'
  BY <1>21 DEF DisableUnref, Disabling, Unref
<1>22. ASSUME NEW c \in Caller, DisableClear(c) PROVE ~raced' => ~wild'
  BY <1>22 DEF DisableClear, Disabling, Cleared
<1> QED
  BY <1>1, <1>2, <1>3, <1>4, <1>5, <1>6, <1>7, <1>8, <1>9, <1>10, <1>11, <1>12,
     <1>13, <1>14, <1>15, <1>16, <1>17, <1>18, <1>19, <1>20, <1>21, <1>22
  DEF DbusNext, ClientNext, LoopNext, Disable

\* No step of the backend leaves its invariant.
LEMMA DbusStep ==
    ASSUME DbusInv, DbusNext
    PROVE  DbusInv'
<1>1. (ClientTypeOK /\ DbusTypeOK /\ PlacesInv /\ HandlersInv)'
  BY TypeParts, TypedStep, FlagsStep, LoopsStep DEF DbusInv, TypedInv
<1>2. ListInv'
  BY ListStep DEF DbusInv
<1>3. ~raced' => UnracedInv'
  BY AloneStep, RefsStep, LeftStep, TameStep DEF UnracedInv
<1> QED
  BY <1>1, <1>2, <1>3 DEF DbusInv

-----------------------------------------------------------------------------
\* The BlueZ backend.

\* What a client holds at each place of gattlib_adapter_scan_enable.
StagesInv ==
    /\ client \notin {"polling", "callback", "restore"} => left = 0
    /\ client = "closed" => Idle
    /\ client = "parameters" => reported = [d \in Device |-> 0]
    /\ \A d \in Device : reported[d] <= 1 /\ (reported[d] = 1 => d \in seen)

\* The filter that is to be there when no request is under way.
Expected == IF client \in {"polling", "callback", "restore"} THEN "meta" ELSE "none"

FilterInv ==
    ~raced /\ client # "closed" =>
        /\ IF Idle THEN filter = Expected
           ELSE filter = "command" /\ requested = Expected
        /\ client \in {"polling", "callback", "restore"} => old_options = "none"

HciInv == ClientTypeOK /\ HciTypeOK /\ StagesInv /\ FilterInv

USE DEF hci_vars, socket_vars, air_vars, Idle, Busy, Filters

\* No step of the backend leaves its invariant.  A request of another thread that
\* meets TakeFilter or RestoreFilter sets raced; any other finds the filter that
\* Expected names and puts it back.
LEMMA HciStep ==
    ASSUME HciInv, HciNext
    PROVE  HciInv'
<1> USE DEF HciInv, ClientTypeOK, HciTypeOK, StagesInv, FilterInv, Expected
<1>1. CASE HciOpen
  <2>1. (ClientTypeOK /\ HciTypeOK)'
    BY <1>1 DEF HciOpen
  <2>2. StagesInv'
    BY <1>1 DEF HciOpen
  <2>3. FilterInv'
    BY <1>1 DEF HciOpen
  <2> QED
    BY <2>1, <2>2, <2>3
<1>2. CASE HciClose
  <2>1. (ClientTypeOK /\ HciTypeOK)'
    BY <1>2 DEF HciClose
  <2>2. StagesInv'
    BY <1>2 DEF HciClose
  <2>3. FilterInv'
    BY <1>2 DEF HciClose
  <2> QED
    BY <2>1, <2>2, <2>3
<1>3. CASE Unplugged
  <2>1. (ClientTypeOK /\ HciTypeOK)'
    BY <1>3 DEF Unplugged
  <2>2. StagesInv'
    BY <1>3 DEF Unplugged
  <2>3. FilterInv'
    BY <1>3 DEF Unplugged
  <2> QED
    BY <2>1, <2>2, <2>3
<1>4. CASE SetScanParameters
  <2>1. (ClientTypeOK /\ HciTypeOK)'
    BY <1>4 DEF SetScanParameters
  <2>2. StagesInv'
    BY <1>4 DEF SetScanParameters
  <2>3. FilterInv'
    BY <1>4 DEF SetScanParameters
  <2> QED
    BY <2>1, <2>2, <2>3
<1>5. CASE SetScanEnable
  <2>1. (ClientTypeOK /\ HciTypeOK)'
    BY <1>5 DEF SetScanEnable
  <2>2. StagesInv'
    BY <1>5 DEF SetScanEnable
  <2>3. FilterInv'
    BY <1>5 DEF SetScanEnable
  <2> QED
    BY <2>1, <2>2, <2>3
<1>6. CASE TakeFilter
  <2>1. (ClientTypeOK /\ HciTypeOK)'
    <3>1. timeout \in 0 .. timeout
      OBVIOUS
    <3>2. left' \in 0 .. timeout'
      BY <1>6, <3>1 DEF TakeFilter
    <3> QED
      BY <1>6, <3>2 DEF TakeFilter
  <2>2. StagesInv'
    BY <1>6 DEF TakeFilter
  <2>3. FilterInv'
    BY <1>6 DEF TakeFilter
  <2> QED
    BY <2>1, <2>2, <2>3
<1>7. CASE CallbackReturns
  <2>1. (ClientTypeOK /\ HciTypeOK)'
    BY <1>7 DEF CallbackReturns, Remaining
  <2>2. StagesInv'
    BY <1>7 DEF CallbackReturns, Remaining
  <2>3. FilterInv'
    BY <1>7 DEF CallbackReturns, Remaining
  <2> QED
    BY <2>1, <2>2, <2>3
<1>8. CASE PollEnds
  <2>1. (ClientTypeOK /\ HciTypeOK)'
    BY <1>8 DEF PollEnds
  <2>2. StagesInv'
    BY <1>8 DEF PollEnds
  <2>3. FilterInv'
    BY <1>8 DEF PollEnds
  <2> QED
    BY <2>1, <2>2, <2>3
<1>9. CASE RestoreFilter
  <2>1. (ClientTypeOK /\ HciTypeOK)'
    BY <1>9 DEF RestoreFilter, PutBack
  <2>2. StagesInv'
    BY <1>9 DEF RestoreFilter, PutBack
  <2>3. FilterInv'
    BY <1>9 DEF RestoreFilter, PutBack
  <2> QED
    BY <2>1, <2>2, <2>3
<1>10. CASE ReadFails
  <2>1. (ClientTypeOK /\ HciTypeOK)'
    BY <1>10 DEF ReadFails
  <2>2. StagesInv'
    BY <1>10 DEF ReadFails
  <2>3. FilterInv'
    BY <1>10 DEF ReadFails
  <2> QED
    BY <2>1, <2>2, <2>3
<1>11. CASE Tick
  <2>1. (ClientTypeOK /\ HciTypeOK)'
    BY <1>11 DEF Tick
  <2>2. StagesInv'
    BY <1>11 DEF Tick
  <2>3. FilterInv'
    BY <1>11 DEF Tick
  <2> QED
    BY <2>1, <2>2, <2>3
<1>12. ASSUME NEW d \in Device, ScanResponse(d) PROVE HciInv'
  <2>1. (ClientTypeOK /\ HciTypeOK)'
    BY <1>12 DEF ScanResponse
  <2>2. StagesInv'
    BY <1>12 DEF ScanResponse
  <2>3. FilterInv'
    BY <1>12 DEF ScanResponse
  <2> QED
    BY <2>1, <2>2, <2>3
<1>13. CASE Continue
  <2>1. (ClientTypeOK /\ HciTypeOK)'
    BY <1>13 DEF Continue, Remaining
  <2>2. StagesInv'
    BY <1>13 DEF Continue, Remaining
  <2>3. FilterInv'
    BY <1>13 DEF Continue, Remaining
  <2> QED
    BY <2>1, <2>2, <2>3
<1>14. CASE HciDisable
  <2>1. (ClientTypeOK /\ HciTypeOK)'
    BY <1>14 DEF HciDisable
  <2>2. StagesInv'
    BY <1>14 DEF HciDisable
  <2>3. FilterInv'
    BY <1>14 DEF HciDisable
  <2> QED
    BY <2>1, <2>2, <2>3
<1>15. CASE OtherDisables
  <2>1. (ClientTypeOK /\ HciTypeOK)'
    BY <1>15 DEF OtherDisables
  <2>2. StagesInv'
    BY <1>15 DEF OtherDisables
  <2>3. FilterInv'
    BY <1>15 DEF OtherDisables
  <2> QED
    BY <2>1, <2>2, <2>3
<1>16. CASE OtherReturns
  <2>1. (ClientTypeOK /\ HciTypeOK)'
    BY <1>16 DEF OtherReturns
  <2>2. StagesInv'
    BY <1>16 DEF OtherReturns
  <2>3. FilterInv'
    BY <1>16 DEF OtherReturns
  <2> QED
    BY <2>1, <2>2, <2>3
<1> QED
  BY <1>1, <1>2, <1>3, <1>4, <1>5, <1>6, <1>7, <1>8, <1>9, <1>10, <1>11, <1>12, <1>13,
     <1>14, <1>15, <1>16
  DEF HciNext, Scan, Hears

-----------------------------------------------------------------------------
\* The whole.

\* The inductive invariant.
IInv ==
    /\ backend \in {"dbus", "bluez"}
    /\ IF backend = "dbus" THEN DbusInv ELSE HciInv

LEMMA Initially == Init => IInv
<1> SUFFICES ASSUME Init PROVE IInv
  OBVIOUS
<1> USE DEF ClientInit, ClientTypeOK
<1>0. ASSUME ClientInit PROVE ClientTypeOK
  <2>1. timeout \in Timeout \cup {0} /\ scans \in 0 .. MaxScans
    BY <1>0
  <2>2. raced \in BOOLEAN
    BY <1>0, Zenon
  <2>3. reported \in [Device -> 0 .. 2]
    BY <1>0
  <2> QED
    BY <2>1, <2>2, <2>3
<1>1. ASSUME DbusInit, ClientInit PROVE DbusInv
  <2>1. DbusTypeOK
    <3>1. LoopsTyped
      <4>1. NoLoop \in [refs : Int, running : BOOLEAN]
        BY DEF NoLoop
      <4> QED
        BY <1>1, <4>1 DEF DbusInit, LoopsTyped
    <3>2. PlacesTyped /\ FlagsTyped
      <4>1. PlacesTyped
        BY <1>1 DEF DbusInit, PlacesTyped
      <4>2. FlagsTyped
        BY <1>1 DEF DbusInit, FlagsTyped
      <4> QED
        BY <4>1, <4>2
    <3> QED
      BY <3>1, <3>2, TypeParts
  <2>2. UnracedInv
    BY <1>1 DEF DbusInit, NoLoop, UnracedInv, AloneInv, RefsInv, Referenced, LeftInv, Disables
  <2>3. ClientTypeOK
    BY <1>1, <1>0
  <2>4. PlacesInv /\ HandlersInv
    BY <1>1 DEF DbusInit, PlacesInv, HandlersInv
  <2>5. ListInv
    BY <1>1 DEF DbusInit, ListInv, DbusReportedOnce
  <2> QED
    BY <2>1, <2>2, <2>3, <2>4, <2>5 DEF DbusInv
<1>2. ASSUME HciInit, ClientInit PROVE HciInv
  <2>1. ClientTypeOK
    BY <1>2, <1>0
  <2>2. HciTypeOK
    <3>1. controller \in BOOLEAN
      BY <1>2, Zenon DEF HciInit
    <3>2. left \in 0 .. timeout
      BY <1>2 DEF HciInit
    <3> QED
      BY <1>2, <3>1, <3>2 DEF HciInit, HciTypeOK
  <2>3. StagesInv /\ FilterInv
    BY <1>2 DEF HciInit, StagesInv, FilterInv, Expected
  <2> QED
    BY <2>1, <2>2, <2>3 DEF HciInv
<1> QED
  BY <1>1, <1>2 DEF Init, IInv

LEMMA Step == IInv /\ [Next]_vars => IInv'
<1> SUFFICES ASSUME IInv, [Next]_vars PROVE IInv'
  OBVIOUS
<1>1. CASE InDbus(DbusNext)
  BY <1>1, DbusStep DEF InDbus, IInv
<1>2. CASE InBluez(HciNext)
  BY <1>2, HciStep DEF InBluez, IInv
<1>3. CASE UNCHANGED vars
  <2>1. DbusInv => DbusInv'
    <3>1. DbusTypeOK => DbusTypeOK'
      BY <1>3 DEF vars, dbus_vars, DbusTypeOK
    <3>2. UnracedInv => UnracedInv'
      BY <1>3
      DEF vars, dbus_vars, UnracedInv, AloneInv, Started, RefsInv, Referenced, LeftInv, Disables
    <3> QED
      BY <1>3, <3>1, <3>2
      DEF vars, dbus_vars, DbusInv, ClientTypeOK, PlacesInv, HandlersInv, ListInv,
          DbusReportedOnce
  <2>2. HciInv => HciInv'
    BY <1>3 DEF vars, HciInv, ClientTypeOK, HciTypeOK, StagesInv, FilterInv, Expected
  <2> QED
    BY <1>3, <2>1, <2>2 DEF vars, IInv
<1> QED
  BY <1>1, <1>2, <1>3 DEF Next

LEMMA Invariance == FairSpec => []IInv
<1>1. Init /\ [][Next]_vars => []IInv
  BY Initially, Step, PTL
<1>2. FairSpec => Init /\ [][Next]_vars
  BY PTL DEF FairSpec
<1> QED
  BY <1>1, <1>2, PTL

\* TypeOK, for any devices, timeouts, failing calls and number of scans.
THEOREM TypesOK == FairSpec => []TypeOK
<1>1. IInv => TypeOK
  BY DEF IInv, TypeOK, DbusInv, HciInv
<1> QED
  BY <1>1, Invariance, PTL

\* Neither a loop nor the list of the D-Bus adapter is used after it was freed, however
\* the scan is stopped and whatever failed before, unless a disable of another thread
\* met one of the steps that raced names.
THEOREM AllUsedAlive == FairSpec => []UsedAlive
<1>1. IInv => UsedAlive
  BY DEF IInv, UsedAlive, DbusUsedAlive, DbusInv, UnracedInv
<1> QED
  BY <1>1, Invariance, PTL

\* When a scan has ended its loop is freed, its timeout removed, the discovery off and
\* its handlers disconnected, but for the starts that failed; over BlueZ the socket has
\* the filter it was opened with.
THEOREM ScansLeaveNothing == FairSpec => []NothingLeft
<1>1. ASSUME DbusInv PROVE DbusNothingLeft
  <2> SUFFICES ASSUME ~Scanning, client # "connect", \A c \in Caller : disabling[c] = "no", ~raced
               PROVE  /\ \A s \in 1 .. MaxScans : loops[s].refs = 0
                      /\ timer = NULL /\ timeout_id = 0 /\ scan_loop = NULL
                      /\ handlers = failed
                      /\ discovering => failed > 0
    BY DEF DbusNothingLeft
  <2> USE <1>1 DEF DbusInv, UnracedInv
  <2>1. scan_loop = NULL
    BY DEF AloneInv, Started
  <2>2. \A s \in 1 .. MaxScans : loops[s].refs = 0
    BY <2>1 DEF RefsInv, Referenced
  <2>3. timer = NULL /\ timeout_id = 0
    BY <2>1 DEF LeftInv
  <2>4. handlers = failed
    BY DEF HandlersInv, DbusTypeOK
  <2>5. discovering => failed > 0
    BY <2>1 DEF LeftInv, DbusTypeOK
  <2> QED
    BY <2>1, <2>2, <2>3, <2>4, <2>5
<1>2. HciInv => HciNothingLeft
  BY DEF HciInv, HciNothingLeft, FilterInv, Expected
<1>3. IInv => NothingLeft
  BY <1>1, <1>2 DEF IInv, NothingLeft
<1> QED
  BY <1>3, Invariance, PTL

\* A device is reported once in a scan: over D-Bus it is in the list exactly if it was
\* reported, over BlueZ the controller has seen it and filters what it has seen.
THEOREM DevicesReportedOnce == FairSpec => []ReportedOnce
<1>1. DbusInv => DbusReportedOnce
  BY DEF DbusInv, ListInv
<1>2. ASSUME HciInv PROVE HciReportedOnce
  <2>1. \A d \in Device : reported[d] <= 1
    BY <1>2 DEF HciInv, StagesInv
  <2>2. client = "polling" /\ ~raced => filter = (IF Idle THEN "meta" ELSE "command")
    BY <1>2 DEF HciInv, FilterInv, Expected
  <2> QED
    BY <2>1, <2>2 DEF HciReportedOnce
<1>3. IInv => ReportedOnce
  BY <1>1, <1>2 DEF IInv, ReportedOnce
<1> QED
  BY <1>3, Invariance, PTL
=============================================================================
