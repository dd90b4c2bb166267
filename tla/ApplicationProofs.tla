------------------------- MODULE ApplicationProofs -------------------------
(***************************************************************************)
(* Proofs about Application for any list of listeners and any number of    *)
(* callers of stop(): the inductive invariant AppIInv, and from it that    *)
(* the capture files are not closed under a packet thread, that a stop     *)
(* that reports success left nothing behind, and that a failed start is    *)
(* undone.                                                                 *)
(***************************************************************************)
EXTENDS Application, TLAPS

----------------------------------------------------------------------------
(* The phases of start() and of the teardown. *)

Starting == {"listen", "capture", "open", "inbound", "receiver", "live", "dns", "undo", "watch"}

AfterWatchdog == {"restore", "restoring", "close"}
AfterRefresh == AfterWatchdog \cup {"joinWatchdog"}
AfterReceiver == AfterRefresh \cup {"joinRefresh"}
AfterHandle == AfterReceiver \cup {"joinReceiver"}
AfterInbound == AfterHandle \cup {"handle"}
AfterInHandle == AfterInbound \cup {"joinInbound"}
AfterBegin == AfterInHandle \cup {"inbound"}

(* The one teardown of an instance has passed a point, or is over. *)
Past(phases) == tp \in phases \/ divStop = "ended"

----------------------------------------------------------------------------
(* The inductive invariant. *)

AppTypes ==
    /\ ATypeOK
    /\ sp \in Starting \cup {"up", "rollback", "listenersBack", "failed"}
    /\ tp \in AfterBegin \cup {"none", "begin"}
    /\ fp \in {"none", "suspend", "listeners", "diverter", "ended"}
    /\ watchdog \in {"off", "wait", "suspend", "listeners", "restore", "restoring", "close",
                     "ended"}
    /\ refresh \in {"off", "wait", "snapshot", "routes", "ended"}
    /\ safeToClose \in BOOLEAN /\ captureFailure \in BOOLEAN /\ stopping \in BOOLEAN
    /\ handle \in BOOLEAN /\ inHandle \in BOOLEAN /\ restored \in BOOLEAN /\ lost \in BOOLEAN
    /\ healthy \in BOOLEAN /\ sound \in BOOLEAN

(* Nothing of the platform was touched. *)
Pristine ==
    /\ ~handle /\ ~inHandle /\ writer = "none" /\ receiver = "off" /\ inbound = "off"
    /\ network = "own"

(* What each point of start() may rely on. *)
StartPhases ==
    /\ sp \in Starting => divStop = "none" /\ ~restored /\ fp = "none"
    /\ sp \in {"listen", "capture"} \/ (sp = "failed" /\ divStop = "none") => Pristine
    /\ sp = "listen" => policyStopped = {} /\ next > 0
    /\ sp = "rollback" => divStop = "begun" /\ fp = "none"
    /\ sp = "listenersBack" => divStop = "ended" /\ fp = "none"
    /\ watchdog # "off" \/ refresh # "off" => sp = "up"

(* The teardown runs once, under start() or under the one owner of stop(). *)
StopPhases ==
    /\ divStop = "begun" <=> tp # "none"
    /\ tp # "none" => sp = "rollback" \/ fp = "diverter"
    /\ fp # "none" => sp \in {"up", "failed"} /\ \E c \in Stoppers : callers[c] # "idle"
    /\ fp = "listeners" => next <= Len(Order)
    /\ fp \in {"diverter", "ended"} => divStop # "none"
    /\ fp = "ended" => tp = "none" /\ (sound => healthy)

(* A thread that is not over when it is joined keeps the capture files open for good. *)
Joined ==
    /\ divStop = "none" => safeToClose
    /\ healthy => safeToClose
    /\ Past(AfterInbound) /\ safeToClose => Over(inbound)
    /\ Past(AfterReceiver) /\ safeToClose => Over(receiver)
    /\ Past(AfterRefresh) /\ safeToClose => Over(refresh)
    /\ Past(AfterWatchdog) /\ safeToClose => Over(watchdog)

(* What the teardown has closed stays closed, or it is not healthy. *)
Closed ==
    /\ Past(AfterInHandle) /\ healthy => ~inHandle
    /\ Past(AfterHandle) /\ healthy => ~handle
    /\ Past(AfterBegin) => engine = "closed" \/ refresh = "off"
    /\ divStop = "ended" /\ healthy => writer # "open"
    /\ writer = "closed" => divStop = "ended" /\ safeToClose

(* The restoration is claimed by one thread, and ends with the network restored, a failure
   that was logged, or one that makes the teardown fail. *)
Restoration ==
    /\ watchdog = "restoring" => restored
    /\ tp = "restoring" => restored /\ watchdog # "restoring"
    /\ restored => \/ network = "own" \/ lost \/ watchdog = "restoring" \/ tp = "restoring"
                   \/ divStop # "none" /\ ~healthy
    /\ Past({"restoring", "close"}) => restored \/ network = "own"

(* The owner of stop() has stopped the listeners behind next, unless one raised. *)
Drained ==
    /\ fp = "listeners" /\ sound =>
         \A i \in 1..Len(Order) : i > next => Order[i] \notin listening
    /\ fp \in {"diverter", "ended"} /\ sound => listening = {}
    /\ fp \in {"listeners", "diverter", "ended"} =>
         policy = "suspended" /\ (refresh = "off" => engine # "on")

AppIInv ==
    AppTypes /\ StartPhases /\ StopPhases /\ Joined /\ Closed /\ Restoration /\ Drained

----------------------------------------------------------------------------
(* AppIInv holds initially and every action preserves it. *)

(* Every listener has a place in the order of their start. *)
LEMMA OrderFacts ==
    /\ Len(Order) \in Nat /\ Len(Order) > 0
    /\ \A i \in 1..Len(Order) : Order[i] \in Listeners
    /\ \A x \in Listeners : \E i \in 1..Len(Order) : Order[i] = x
  <1>1. Len(Order) \in Nat /\ Len(Order) > 0
    BY ApplicationConstants
  <1>2. QED
    BY <1>1 DEF Listeners

LEMMA AppInit == Init => AppIInv
  <1> SUFFICES ASSUME Init PROVE AppIInv
    OBVIOUS
  <1>1. next \in 0..(Len(Order) + 1)
    BY ApplicationConstants DEF Init
  <1>2. AppTypes
    BY <1>1 DEF Init, AppTypes, ATypeOK, Starting
  <1>3. StartPhases /\ StopPhases /\ Joined /\ Closed /\ Restoration /\ Drained
    BY OrderFacts DEF Init, StartPhases, StopPhases, Joined, Closed, Restoration, Drained,
         Pristine, Past, Over, Starting, AfterBegin, AfterInHandle, AfterInbound, AfterHandle,
         AfterReceiver, AfterRefresh, AfterWatchdog
  <1>4. QED
    BY <1>2, <1>3 DEF AppIInv

(* The packet threads: they end, or go on only if they were running. *)
LEMMA PacketThreadsInv ==
    ASSUME AppIInv,
           \/ ReceiverGets \/ ReceiverWakes \/ ReceiverBreaks \/ ReceiverWrites
           \/ InboundGets \/ InboundWakes \/ InboundBreaks \/ InboundWrites
    PROVE  AppIInv'
  <1>1. /\ UNCHANGED <<startVars, stopVars, listenVars, writer, safeToClose, handleVars, watchdog,
                       refresh, policyVars, netVars>>
        /\ receiver' = receiver \/ (receiver \in Running /\ receiver' \in Running \cup {"ended"})
        /\ inbound' = inbound \/ (inbound \in Running /\ inbound' \in Running \cup {"ended"})
        /\ captureFailure' \in BOOLEAN /\ stopping' \in BOOLEAN
    BY DEF ReceiverGets, ReceiverWakes, ReceiverBreaks, ReceiverWrites, InboundGets, InboundWakes,
         InboundBreaks, InboundWrites, ReceiverOnly, InboundOnly, Fails, Running, AppIInv, AppTypes
  <1>2. QED
    BY <1>1 DEF startVars, stopVars, listenVars, handleVars, policyVars, netVars, Running,
         AppIInv, AppTypes, ATypeOK, StartPhases, StopPhases, Joined, Closed, Restoration, Drained,
         Pristine, Past, Over

(* start() *)
LEMMA StartInv ==
    ASSUME AppIInv, StartListener \/ ListenerFails \/ StartCapture \/ CaptureFails \/ OpenHandle
                    \/ OpenInbound \/ OpenFails \/ StartReceiver \/ InboundFailed \/
                    ReceiverLive \/ ChangeNetwork \/ UndoNetwork \/ StartPolicyThreads \/
                    ListenersBack
    PROVE  AppIInv'
  <1> USE DEF startVars, stopVars, listenVars, captureVars, handleVars, threadVars, policyVars,
       netVars, AppIInv, AppTypes, ATypeOK, StartPhases, StopPhases, Joined, Closed,
       Restoration, Drained, Pristine, Past, Over, Starting, AfterBegin, AfterInHandle,
       AfterInbound, AfterHandle, AfterReceiver, AfterRefresh, AfterWatchdog
  <1>1. CASE StartListener
    <2>1. Order[next] \in Listeners /\ next \in 0..(Len(Order) + 1) /\ next <= Len(Order)
      BY <1>1, OrderFacts DEF StartListener
    <2>2. /\ listening' \subseteq Listeners /\ listening' \cap policyStopped' = {}
          /\ next' \in 0..(Len(Order) + 1)
      BY <1>1, <2>1, OrderFacts DEF StartListener
    <2>3. AppTypes'
      BY <1>1, <2>2 DEF StartListener
    <2>4. QED
      BY <1>1, <2>3 DEF StartListener
  <1>2. CASE ListenerFails
    BY <1>2 DEF ListenerFails, UndoListeners
  <1>3. CASE StartCapture
    BY <1>3 DEF StartCapture
  <1>4. CASE CaptureFails
    BY <1>4 DEF CaptureFails, Fails
  <1>5. CASE OpenHandle
    <2>1. handle' \in BOOLEAN /\ stopping' \in BOOLEAN
      BY <1>5, Zenon DEF OpenHandle
    <2>2. QED
      BY <1>5, <2>1 DEF OpenHandle
  <1>6. CASE OpenInbound
    <2>1. inHandle' \in BOOLEAN
      BY <1>6, Zenon DEF OpenInbound
    <2>2. QED
      BY <1>6, <2>1 DEF OpenInbound, Running
  <1>7. CASE OpenFails
    BY <1>7 DEF OpenFails, Fails, Rollback
  <1>8. CASE StartReceiver
    BY <1>8 DEF StartReceiver, Running
  <1>9. CASE InboundFailed
    BY <1>9 DEF InboundFailed, Rollback
  <1>10. CASE ReceiverLive
    <2>1. CASE receiver # "ended"
      BY <1>10, <2>1 DEF ReceiverLive
    <2>2. CASE receiver = "ended"
      <3>1. Rollback /\ handle' \in {FALSE, handle}
        BY <1>10, <2>2 DEF ReceiverLive
      <3>2. handle' \in BOOLEAN /\ healthy' \in BOOLEAN
        BY <3>1, Zenon DEF Rollback
      <3>3. QED
        BY <1>10, <3>1, <3>2 DEF ReceiverLive, Rollback
    <2>3. QED
      BY <2>1, <2>2
  <1>11. CASE ChangeNetwork
    BY <1>11 DEF ChangeNetwork
  <1>12. CASE UndoNetwork
    <2>1. handle' \in BOOLEAN /\ restored' \in BOOLEAN /\ lost' \in BOOLEAN /\ stopping' \in
          BOOLEAN /\ healthy' \in BOOLEAN
      BY <1>12, Zenon DEF UndoNetwork, Rollback
    <2>2. QED
      BY <1>12, <2>1 DEF UndoNetwork, Rollback
  <1>13. CASE StartPolicyThreads
    BY <1>13 DEF StartPolicyThreads
  <1>14. CASE ListenersBack
    BY <1>14 DEF ListenersBack, UndoListeners
  <1>15. QED
    BY <1>1, <1>2, <1>3, <1>4, <1>5, <1>6, <1>7, <1>8, <1>9, <1>10, <1>11, <1>12, <1>13, <1>14

(* The watchdog. *)
LEMMA WatchInv ==
    ASSUME AppIInv, WatchdogWakes \/ WatchdogSuspends \/ WatchdogStopsListeners \/
                    WatchdogRestores \/ WatchdogRestored \/ WatchdogCloses
    PROVE  AppIInv'
  <1> USE DEF startVars, stopVars, listenVars, captureVars, handleVars, threadVars, policyVars,
       netVars, AppIInv, AppTypes, ATypeOK, StartPhases, StopPhases, Joined, Closed,
       Restoration, Drained, Pristine, Past, Over, Starting, AfterBegin, AfterInHandle,
       AfterInbound, AfterHandle, AfterReceiver, AfterRefresh, AfterWatchdog
  <1>1. CASE WatchdogWakes
    BY <1>1 DEF WatchdogWakes, WatchdogOnly
  <1>2. CASE WatchdogSuspends
    BY <1>2 DEF WatchdogSuspends, WatchdogOnly
  <1>3. CASE WatchdogStopsListeners
    BY <1>3 DEF WatchdogStopsListeners, WatchdogOnly
  <1>4. CASE WatchdogRestores
    <2>1. restored' \in BOOLEAN
      BY <1>4, Zenon DEF WatchdogRestores, ClaimsRestore
    <2>2. QED
      BY <1>4, <2>1 DEF WatchdogRestores, WatchdogOnly, ClaimsRestore
  <1>5. CASE WatchdogRestored
    BY <1>5 DEF WatchdogRestored, WatchdogOnly, RestoreEnds
  <1>6. CASE WatchdogCloses
    <2>1. handle' \in BOOLEAN
      BY <1>6, Zenon DEF WatchdogCloses
    <2>2. QED
      BY <1>6, <2>1 DEF WatchdogCloses, WatchdogOnly
  <1>7. QED
    BY <1>1, <1>2, <1>3, <1>4, <1>5, <1>6

(* The refresh of the snapshots. *)
LEMMA RefreshInv ==
    ASSUME AppIInv, RefreshWakes \/ RefreshAddresses \/ RefreshRoutes
    PROVE  AppIInv'
  <1> USE DEF startVars, stopVars, listenVars, captureVars, handleVars, threadVars, policyVars,
       netVars, AppIInv, AppTypes, ATypeOK, StartPhases, StopPhases, Joined, Closed,
       Restoration, Drained, Pristine, Past, Over, Starting, AfterBegin, AfterInHandle,
       AfterInbound, AfterHandle, AfterReceiver, AfterRefresh, AfterWatchdog
  <1>1. CASE RefreshWakes
    BY <1>1 DEF RefreshWakes, RefreshOnly
  <1>2. CASE RefreshAddresses
    BY <1>2 DEF RefreshAddresses, RefreshOnly
  <1>3. CASE RefreshRoutes
    BY <1>3 DEF RefreshRoutes, RefreshOnly
  <1>4. QED
    BY <1>1, <1>2, <1>3

(* The teardown. *)
LEMMA TeardownInv ==
    ASSUME AppIInv, TeardownBegins \/ CloseInbound \/ JoinInbound \/ CloseHandle \/ JoinReceiver
                    \/ JoinRefresh \/ JoinWatchdog \/ TeardownRestores \/ TeardownRestored \/
                    CloseCapture
    PROVE  AppIInv'
  <1> USE DEF startVars, stopVars, listenVars, captureVars, handleVars, threadVars, policyVars,
       netVars, AppIInv, AppTypes, ATypeOK, StartPhases, StopPhases, Joined, Closed,
       Restoration, Drained, Pristine, Past, Over, Starting, AfterBegin, AfterInHandle,
       AfterInbound, AfterHandle, AfterReceiver, AfterRefresh, AfterWatchdog
  <1>1. CASE TeardownBegins
    BY <1>1 DEF TeardownBegins, TeardownOnly
  <1>2. CASE CloseInbound
    <2>1. PICK raised \in BOOLEAN : inHandle' = (inHandle /\ raised) /\ Sick(inHandle /\ raised)
      BY <1>2 DEF CloseInbound
    <2>2. /\ inHandle' \in BOOLEAN /\ healthy' \in BOOLEAN
          /\ healthy' => healthy /\ ~inHandle'
          /\ inHandle' => inHandle
      BY <2>1 DEF Sick
    <2>3. QED
      BY <1>2, <2>2 DEF CloseInbound, TeardownOnly
  <1>3. CASE JoinInbound
    BY <1>3 DEF JoinInbound, TeardownOnly, Sick, Join
  <1>4. CASE CloseHandle
    BY <1>4 DEF CloseHandle, TeardownOnly, Sick
  <1>5. CASE JoinReceiver
    BY <1>5 DEF JoinReceiver, TeardownOnly, Sick, Join
  <1>6. CASE JoinRefresh
    BY <1>6 DEF JoinRefresh, TeardownOnly, Sick, Join
  <1>7. CASE JoinWatchdog
    BY <1>7 DEF JoinWatchdog, TeardownOnly, Sick, Join
  <1>8. CASE TeardownRestores
    <2>1. restored' \in BOOLEAN
      BY <1>8, Zenon DEF TeardownRestores, ClaimsRestore
    <2>2. QED
      BY <1>8, <2>1 DEF TeardownRestores, TeardownOnly, ClaimsRestore
  <1>9. CASE TeardownRestored
    BY <1>9 DEF TeardownRestored, TeardownOnly, Sick, RestoreEnds
  <1>10. CASE CloseCapture
    BY <1>10 DEF CloseCapture, Sick, Fails
  <1>11. QED
    BY <1>1, <1>2, <1>3, <1>4, <1>5, <1>6, <1>7, <1>8, <1>9, <1>10

(* stop() in its owner. *)
LEMMA StopInv ==
    ASSUME AppIInv, SuspendPolicy \/ StopListener \/ StopDiverter \/ StopReturns
    PROVE  AppIInv'
  <1> USE DEF startVars, stopVars, listenVars, captureVars, handleVars, threadVars, policyVars,
       netVars, AppIInv, AppTypes, ATypeOK, StartPhases, StopPhases, Joined, Closed,
       Restoration, Drained, Pristine, Past, Over, Starting, AfterBegin, AfterInHandle,
       AfterInbound, AfterHandle, AfterReceiver, AfterRefresh, AfterWatchdog
  <1>1. CASE SuspendPolicy
    BY <1>1, OrderFacts DEF SuspendPolicy
  <1>2. CASE StopListener
    <2>1. Order[next] \in Listeners /\ next \in 1..Len(Order)
      BY <1>2, OrderFacts DEF StopListener
    <2>2. PICK raised \in BOOLEAN :
            /\ listening' = IF raised THEN listening ELSE listening \ {Order[next]}
            /\ policyStopped' = IF raised THEN policyStopped ELSE policyStopped \cup {Order[next]}
            /\ sound' = (sound /\ ~raised)
      BY <1>2 DEF StopListener
    <2>3. /\ listening' \subseteq listening /\ policyStopped' \subseteq Listeners
          /\ listening' \cap policyStopped' = {}
          /\ next' \in 0..(Len(Order) + 1) /\ sound' \in BOOLEAN
          /\ sound' => sound /\ Order[next] \notin listening'
      <3>1. next' \in 0..(Len(Order) + 1)
        BY <1>2, <2>1, OrderFacts DEF StopListener
      <3>2. CASE raised
        BY <2>2, <3>1, <3>2
      <3>3. CASE ~raised
        BY <2>1, <2>2, <3>1, <3>3
      <3>4. QED
        BY <3>2, <3>3
    <2>4. \A i \in 1..Len(Order) : i > next' => i = next \/ i > next
      BY <1>2, <2>1, OrderFacts DEF StopListener
    <2>5. Drained'
      BY <1>2, <2>3, <2>4 DEF StopListener, StopOnly
    <2>6. QED
      BY <1>2, <2>3, <2>5 DEF StopListener, StopOnly
  <1>3. CASE StopDiverter
    <2>1. healthy' \in BOOLEAN
      BY <1>3, Zenon DEF StopDiverter
    <2>2. sound => listening = {}
      <3>1. \A i \in 1..Len(Order) : i > next
        BY <1>3, OrderFacts DEF StopDiverter
      <3>2. QED
        BY <1>3, <3>1, OrderFacts DEF StopDiverter
    <2>3. Drained'
      BY <1>3, <2>2 DEF StopDiverter, StopOnly
    <2>4. QED
      BY <1>3, <2>1, <2>3 DEF StopDiverter, StopOnly
  <1>4. CASE StopReturns
    BY <1>4, OrderFacts DEF StopReturns, StopOnly
  <1>5. QED
    BY <1>1, <1>2, <1>3, <1>4

(* A caller of stop() becomes its owner or waits. *)
LEMMA CallStopInv ==
    ASSUME AppIInv, NEW c \in Stoppers, CallStop(c)
    PROVE  AppIInv'
  <1> USE DEF startVars, stopVars, listenVars, captureVars, handleVars, threadVars, policyVars,
              netVars, AppIInv
  <1>1. /\ callers' \in [Stoppers -> {"idle", "owner", "waits"}]
        /\ callers'[c] # "idle"
        /\ \A d \in Stoppers : callers[d] # "idle" => callers'[d] # "idle"
    BY DEF CallStop, AppTypes, ATypeOK
  <1>2. (fp = "none" /\ fp' = "suspend") \/ (fp # "none" /\ fp' = fp) \/ fp' = "none"
    BY DEF CallStop, StopPhases
  <1>3. AppTypes'
    BY <1>1, <1>2 DEF CallStop, StopOnly, AppTypes, ATypeOK
  <1>4. StopPhases'
    BY <1>1, <1>2 DEF CallStop, StopOnly, Started, StopPhases, AppTypes, ATypeOK
  <1>5. QED
    BY <1>2, <1>3, <1>4 DEF CallStop, StopOnly, Started, StartPhases, Starting, Pristine, Joined,
         Closed, Restoration, Drained, Past, Over

LEMMA AppNext == AppIInv /\ [Next]_vars => AppIInv'
  <1> SUFFICES ASSUME AppIInv, [Next]_vars PROVE AppIInv'
    OBVIOUS
  <1>1. CASE Start \/ Watch \/ Refresh
    BY <1>1, StartInv, WatchInv, RefreshInv DEF Start, Watch, Refresh
  <1>2. CASE Teardown \/ Stop
    BY <1>2, TeardownInv, StopInv DEF Teardown, Stop
  <1>3. CASE \/ ReceiverGets \/ ReceiverWakes \/ ReceiverBreaks \/ ReceiverWrites
             \/ InboundGets \/ InboundWakes \/ InboundBreaks \/ InboundWrites
    BY <1>3, PacketThreadsInv
  <1>4. CASE \E c \in Stoppers : CallStop(c)
    BY <1>4, CallStopInv
  <1>5. CASE UNCHANGED vars
    BY <1>5 DEF vars, startVars, stopVars, listenVars, captureVars, handleVars, threadVars,
         policyVars, netVars, AppIInv, AppTypes, ATypeOK, StartPhases, StopPhases, Joined, Closed,
         Restoration, Drained, Pristine, Past, Over
  <1>6. QED
    BY <1>1, <1>2, <1>3, <1>4, <1>5 DEF Next

(* The inductive invariant of an instance. *)
THEOREM AppInductive == Spec => []AppIInv
  BY AppInit, AppNext, PTL DEF Spec

----------------------------------------------------------------------------
(* The properties. *)

(* Type correctness; and the watchdog and the teardown never restore the network at the same
   time: whoever finds _network_restored unset claims the work under the lock. *)
THEOREM AppCorrect == Spec => []AppInv
  <1>1. AppIInv => AppInv
    BY DEF AppIInv, AppTypes, AppInv, Restoration, OneRestorer
  <1>2. QED
    BY <1>1, AppInductive, PTL

(* The capture files are never closed under a packet thread: the join that timed out left
   _capture_writers_safe_to_close false, and a thread that is over does not run again. *)
THEOREM LateWrite == Spec => []NoLateWrite
  <1>1. AppIInv => NoLateWrite
    BY DEF AppIInv, Joined, Closed, Past, Over, Running, NoLateWrite
  <1>2. QED
    BY <1>1, AppInductive, PTL

(* A teardown that is over and healthy left nothing of the platform behind. *)
LEMMA EndedIsReleased == AppIInv /\ divStop = "ended" /\ healthy => Released
  BY DEF AppIInv, StopPhases, Joined, Closed, Restoration, Past, Over, Released

(* stop() that returns True left nothing behind: no handle, no thread, no open capture file,
   no changed network unless a failure to restore it was logged, no listener, no policy. *)
THEOREM HonestStop == Spec => []StopIsHonest
  <1>1. AppIInv => StopIsHonest
    <2> SUFFICES ASSUME AppIInv, fp = "ended", sound
                 PROVE  Released /\ listening = {} /\ policy = "suspended" /\ engine # "on"
      BY DEF StopIsHonest
    <2>1. divStop = "ended" /\ healthy
      BY DEF AppIInv, StopPhases, AppTypes, ATypeOK
    <2>2. QED
      BY <2>1, EndedIsReleased DEF AppIInv, Closed, Drained, Past
  <1>2. QED
    BY <1>1, AppInductive, PTL

(* A start() that failed left nothing of the platform behind, at whichever step it failed,
   unless its rollback recorded a failure of its own. *)
THEOREM UndoneStart == Spec => []FailedStartIsUndone
  <1>1. AppIInv => FailedStartIsUndone
    <2> SUFFICES ASSUME AppIInv, sp = "failed", fp = "none", healthy PROVE Released
      BY DEF FailedStartIsUndone
    <2>1. CASE divStop = "ended"
      BY <2>1, EndedIsReleased
    <2>2. CASE divStop = "none"
      BY <2>2 DEF AppIInv, StartPhases, Pristine, Over, Released
    <2>3. divStop # "begun"
      BY DEF AppIInv, StopPhases
    <2>4. QED
      BY <2>1, <2>2, <2>3 DEF AppIInv, AppTypes, ATypeOK
  <1>2. QED
    BY <1>1, AppInductive, PTL
=============================================================================
