---------------------------- MODULE Application ----------------------------
(***************************************************************************)
(* One FakeNet instance with the Windows diverter under an external access *)
(* policy: start(), stop() and the threads between them (fakenet.py,       *)
(* diverters/diverterbase.py, diverters/windows.py).                       *)
(*                                                                         *)
(* Threads: the one that starts, which is usually also the one that stops; *)
(* further callers of stop(); the receiver of diverted packets; the        *)
(* receiver of the record-only inbound handle; the watchdog that undoes    *)
(* everything when the receiver is lost; the refresh of the address and    *)
(* route snapshots.  Both receivers write to one pair of capture files.    *)
(***************************************************************************)
EXTENDS Naturals, Sequences, FiniteSets

CONSTANTS
    Order,          \* the listeners, in the order of their start
    Stoppers        \* the threads that call Fakenet.stop()

Listeners == {Order[i] : i \in 1..Len(Order)}

ASSUME ApplicationConstants == Order \in Seq(Listeners) /\ Len(Order) > 0 /\ Stoppers # {}

VARIABLES
    sp,             \* control point of start()
    tp,             \* control point of Diverter.stop() or the platform rollback
    fp,             \* control point of Fakenet.stop() in the thread that owns it
    callers,        \* [Stoppers -> "idle", "owner" of stop(), or "waits"]
    listening,      \* the listeners that serve
    policyStopped,  \* the listeners whose _policy_stopped is set
    writer,         \* the capture files: "none", "open" or "closed"
    safeToClose,    \* _capture_writers_safe_to_close
    captureFailure, \* _capture_failure is not None
    stopping,       \* the event _stopping
    handle, inHandle,       \* the two WinDivert handles are open
    receiver, inbound,      \* the packet threads
    watchdog, refresh,      \* the policy threads
    policy,         \* the egress policy: "on" or "suspended"
    engine,         \* the process redirection engine: "on", "suspended" or "closed"
    network,        \* local DNS and the DNS service: "own" or "changed"
    restored,       \* _network_restored
    lost,           \* history: (part of) a restoration failed and was only logged
    healthy,        \* Diverter.stop()'s result so far
    sound,          \* Fakenet.stop()'s result so far
    divStop,        \* Diverter._stop_started .. _stop_complete: "none", "begun", "ended"
    next            \* the index of the next listener to start or stop

startVars == <<sp, divStop>>
stopVars == <<tp, fp, callers, healthy, sound, next>>
listenVars == <<listening, policyStopped>>
captureVars == <<writer, safeToClose, captureFailure, stopping>>
handleVars == <<handle, inHandle>>
threadVars == <<receiver, inbound, watchdog, refresh>>
policyVars == <<policy, engine>>
netVars == <<network, restored, lost>>
vars == <<startVars, stopVars, listenVars, captureVars, handleVars, threadVars, policyVars,
          netVars>>

Running == {"recv", "write"}

Init ==
    /\ sp = "listen" /\ tp = "none" /\ fp = "none" /\ callers = [c \in Stoppers |-> "idle"]
    /\ listening = {} /\ policyStopped = {}
    /\ writer = "none" /\ safeToClose = TRUE /\ captureFailure = FALSE /\ stopping = FALSE
    /\ handle = FALSE /\ inHandle = FALSE
    /\ receiver = "off" /\ inbound = "off" /\ watchdog = "off" /\ refresh = "off"
    /\ policy = "on" /\ engine = "on"
    /\ network = "own" /\ restored = FALSE /\ lost = FALSE
    /\ healthy = TRUE /\ sound = TRUE /\ divStop = "none" /\ next = 1

(* _record_capture_failure: the first failure stops both packet loops. *)
Fails(yes) ==
    /\ captureFailure' = (captureFailure \/ yes)
    /\ stopping' = (stopping \/ (yes /\ ~captureFailure))

----------------------------------------------------------------------------
(* Fakenet.start() and Diverter.start() *)

StartListener ==
    /\ sp = "listen" /\ next <= Len(Order)
    /\ listening' = listening \cup {Order[next]}
    /\ next' = next + 1 /\ sp' = IF next = Len(Order) THEN "capture" ELSE "listen"
    /\ UNCHANGED <<divStop, tp, fp, callers, healthy, sound, policyStopped, captureVars,
                   handleVars, threadVars, policyVars, netVars>>

(* The listeners of a failed start are stopped; one that raises is left as it is. *)
UndoListeners ==
    \E raised \in SUBSET listening :
      /\ listening' = raised /\ policyStopped' = policyStopped \cup (listening \ raised)
      /\ sp' = "failed"

ListenerFails ==
    /\ sp = "listen" /\ UndoListeners
    /\ UNCHANGED <<divStop, stopVars, captureVars, handleVars, threadVars, policyVars,
                   netVars>>

StartCapture ==
    /\ sp = "capture" /\ writer' = "open" /\ sp' = "open"
    /\ UNCHANGED <<divStop, stopVars, listenVars, safeToClose, captureFailure, stopping,
                   handleVars, threadVars, policyVars, netVars>>

(* Nothing of the platform has started: a later stop() finds its work done. *)
CaptureFails ==
    /\ sp = "capture" /\ divStop' = "ended" /\ sp' = "listenersBack"
    /\ Fails(TRUE)
    /\ UNCHANGED <<stopVars, listenVars, writer, safeToClose, handleVars, threadVars,
                   policyVars, netVars>>

OpenHandle ==
    /\ sp = "open" /\ handle' = TRUE /\ stopping' = FALSE /\ sp' = "inbound"
    /\ UNCHANGED <<divStop, stopVars, listenVars, writer, safeToClose, captureFailure,
                   inHandle, threadVars, policyVars, netVars>>

OpenInbound ==
    /\ sp = "inbound" /\ inHandle' = TRUE /\ inbound' = "recv" /\ sp' = "receiver"
    /\ UNCHANGED <<divStop, stopVars, listenVars, captureVars, handle, receiver, watchdog,
                   refresh, policyVars, netVars>>

(* Faulty: the rollback only closes the capture files. *)
RollbackCapture ==
    /\ sp' = "rollback" /\ divStop' = "begun" /\ tp' = "close" /\ healthy' = TRUE
(* startCallback raises: Diverter._rollback_failed_platform_start. *)
Rollback ==
    /\ sp' = "rollback" /\ divStop' = "begun" /\ tp' = "begin" /\ healthy' = TRUE

OpenFails ==
    /\ sp \in {"open", "inbound"} /\ Rollback
    /\ \E pcap \in BOOLEAN : Fails(pcap \/ sp = "inbound")
    /\ UNCHANGED <<fp, callers, sound, next, listenVars, writer, safeToClose, handleVars,
                   threadVars, policyVars, netVars>>

StartReceiver ==
    /\ sp = "receiver" /\ ~captureFailure /\ receiver' = "recv" /\ sp' = "live"
    /\ UNCHANGED <<divStop, stopVars, listenVars, captureVars, handleVars, inbound, watchdog,
                   refresh, policyVars, netVars>>

(* The inbound receiver has failed already. *)
InboundFailed ==
    /\ sp = "receiver" /\ captureFailure /\ Rollback
    /\ UNCHANGED <<fp, callers, sound, next, listenVars, captureVars, handleVars, threadVars,
                   policyVars, netVars>>

(* The receiver must still be alive 50 ms later. *)
ReceiverLive ==
    /\ sp = "live"
    /\ IF receiver # "ended"
       THEN /\ sp' = "dns" /\ UNCHANGED <<divStop, tp, healthy, handle>>
       ELSE /\ Rollback /\ handle' \in {FALSE, handle}
    /\ UNCHANGED <<fp, callers, sound, next, listenVars, captureVars, inHandle, threadVars,
                   policyVars, netVars>>

(* Local DNS and the DNS service are changed, wholly or in part. *)
ChangeNetwork ==
    /\ sp = "dns"
    /\ \/ network' = "changed" /\ sp' = "watch"
       \/ network' \in {"own", "changed"} /\ sp' = "undo"
    /\ UNCHANGED <<divStop, stopVars, listenVars, captureVars, handleVars, threadVars,
                   policyVars, restored, lost>>

(* The change failed: the policy is withdrawn and the network restored at once. *)
UndoNetwork ==
    /\ sp = "undo" /\ policy' = "suspended" /\ engine' = "closed" /\ stopping' = TRUE
    /\ restored' = TRUE
    /\ \/ network' = "own" /\ UNCHANGED lost
       \/ lost' = TRUE /\ UNCHANGED network
    /\ handle' \in {FALSE, handle} /\ Rollback
    /\ UNCHANGED <<fp, callers, sound, next, listenVars, writer, safeToClose, captureFailure,
                   inHandle, threadVars>>

StartPolicyThreads ==
    /\ sp = "watch" /\ watchdog' = "wait" /\ refresh' = "wait" /\ sp' = "up"
    /\ UNCHANGED <<divStop, stopVars, listenVars, captureVars, handleVars, receiver, inbound,
                   policyVars, netVars>>

(* The platform is rolled back: so are the listeners. *)
ListenersBack ==
    /\ sp = "listenersBack" /\ UndoListeners
    /\ UNCHANGED <<divStop, stopVars, captureVars, handleVars, threadVars, policyVars,
                   netVars>>

Start ==
    \/ StartListener \/ ListenerFails \/ StartCapture \/ CaptureFails \/ OpenHandle
    \/ OpenInbound \/ OpenFails \/ StartReceiver \/ InboundFailed \/ ReceiverLive
    \/ ChangeNetwork \/ UndoNetwork \/ StartPolicyThreads \/ ListenersBack

----------------------------------------------------------------------------
(* divert_thread and _inbound_capture_loop *)

ReceiverOnly == UNCHANGED <<startVars, stopVars, listenVars, writer, safeToClose, handleVars,
                            inbound, watchdog, refresh, policyVars, netVars>>
InboundOnly == UNCHANGED <<startVars, stopVars, listenVars, writer, safeToClose, handleVars,
                           receiver, watchdog, refresh, policyVars, netVars>>

ReceiverGets ==
    /\ receiver = "recv" /\ handle /\ receiver' = "write" /\ Fails(FALSE) /\ ReceiverOnly

(* recv() ends because its handle was closed. *)
ReceiverWakes ==
    /\ receiver = "recv" /\ ~handle /\ receiver' = "ended" /\ Fails(FALSE) /\ ReceiverOnly

(* recv() fails, or ends as if its handle had been closed by somebody else. *)
ReceiverBreaks ==
    /\ receiver = "recv" /\ receiver' = "ended"
    /\ \E known \in BOOLEAN : Fails(known /\ ~stopping)
    /\ ReceiverOnly

(* The packet is recorded, handled and sent; a failed write is fatal, and so is a cycle
   longer than packets live in the driver's queue.  The loop then ends on _stopping or
   without a handle. *)
ReceiverWrites ==
    /\ receiver = "write"
    /\ \/ /\ writer = "open" /\ Fails(FALSE)
          /\ receiver' = IF stopping \/ ~handle THEN "ended" ELSE "recv"
       \/ receiver' = "ended" /\ Fails(TRUE)
    /\ ReceiverOnly

InboundGets ==
    /\ inbound = "recv" /\ inHandle /\ inbound' = "write" /\ Fails(FALSE) /\ InboundOnly

InboundWakes ==
    /\ inbound = "recv" /\ ~inHandle /\ inbound' = "ended" /\ Fails(FALSE) /\ InboundOnly

(* The same here, without a test of _stopping: a handle that is gone when the loop comes
   back to it is a capture failure even during a stop. *)
InboundBreaks ==
    /\ inbound = "recv" /\ inbound' = "ended"
    /\ \E known \in BOOLEAN : Fails(known)
    /\ InboundOnly

InboundWrites ==
    /\ inbound = "write"
    /\ \/ /\ writer = "open" /\ Fails(FALSE)
          /\ inbound' = IF stopping THEN "ended" ELSE "recv"
       \/ inbound' = "ended" /\ Fails(TRUE)
    /\ InboundOnly

----------------------------------------------------------------------------
(* _restore_network_settings: the flag is set under its lock, the work is done outside. *)

(* Faulty: the flag is set when the work is done. *)
ClaimsBlindly == restored' = restored
ClaimsRestore == restored' = TRUE

(* The work of the claimant succeeds, or raises; or a command, a registry value or the
   DNS service cannot be set back, which is logged, and it returns as if it had. *)
RestoreEnds(raised, failed) ==
    /\ network' = IF raised \/ failed THEN network ELSE "own"
    /\ UNCHANGED restored

----------------------------------------------------------------------------
(* _watch_diverter_thread *)

WatchdogOnly == UNCHANGED <<startVars, stopVars, captureVars, inHandle, receiver, inbound,
                            refresh>>

(* Faulty: the test of _stopping is inverted. *)
WatchdogStandsBack ==
    /\ watchdog = "wait" /\ receiver = "ended"
    /\ watchdog' = IF stopping THEN "suspend" ELSE "ended"
    /\ UNCHANGED <<listenVars, handle, policyVars, netVars>> /\ WatchdogOnly
WatchdogWakes ==
    /\ watchdog = "wait" /\ receiver = "ended"
    /\ watchdog' = IF stopping THEN "ended" ELSE "suspend"
    /\ UNCHANGED <<listenVars, handle, policyVars, netVars>> /\ WatchdogOnly

WatchdogSuspends ==
    /\ watchdog = "suspend" /\ watchdog' = "listeners"
    /\ engine' = "closed" /\ policy' = "suspended"
    /\ UNCHANGED <<listenVars, handle, netVars>> /\ WatchdogOnly

(* Every listener is stopped, also one that stop() has stopped or is stopping; one that
   raises is left as it is. *)
WatchdogStopsListeners ==
    /\ watchdog = "listeners" /\ watchdog' = "restore"
    /\ \E raised \in SUBSET listening :
         /\ listening' = raised
         /\ policyStopped' = policyStopped \cup (Listeners \ raised)
    /\ UNCHANGED <<handle, policyVars, netVars>> /\ WatchdogOnly

WatchdogRestores ==
    /\ watchdog = "restore"
    /\ IF restored THEN watchdog' = "close" /\ UNCHANGED restored
       ELSE watchdog' = "restoring" /\ ClaimsRestore
    /\ UNCHANGED <<listenVars, handle, policyVars, network, lost>> /\ WatchdogOnly

WatchdogRestored ==
    /\ watchdog = "restoring" /\ watchdog' = "close"
    /\ \E raised, failed \in BOOLEAN :
         RestoreEnds(raised, failed) /\ lost' = (lost \/ raised \/ failed)
    /\ UNCHANGED <<listenVars, handle, policyVars>> /\ WatchdogOnly

WatchdogCloses ==
    /\ watchdog = "close" /\ watchdog' = "ended" /\ handle' = FALSE
    /\ UNCHANGED <<listenVars, policyVars, netVars>> /\ WatchdogOnly

Watch ==
    \/ WatchdogWakes \/ WatchdogSuspends \/ WatchdogStopsListeners
    \/ WatchdogRestores \/ WatchdogRestored \/ WatchdogCloses

----------------------------------------------------------------------------
(* _refresh_local_addresses *)

RefreshOnly == UNCHANGED <<startVars, stopVars, listenVars, captureVars, handleVars,
                           receiver, inbound, watchdog, netVars>>

RefreshWakes ==
    /\ refresh = "wait" /\ refresh' = IF stopping THEN "ended" ELSE "snapshot"
    /\ UNCHANGED policyVars /\ RefreshOnly

(* The addresses: not while stopping; an unsafe change suspends the policy. *)
RefreshAddresses ==
    /\ refresh = "snapshot"
    /\ \/ (stopping \/ policy = "suspended") /\ refresh' = "ended" /\ UNCHANGED policy
       \/ ~stopping /\ policy' = "suspended" /\ refresh' = "ended"
       \/ ~stopping /\ policy = "on" /\ refresh' = "routes" /\ UNCHANGED policy
    /\ UNCHANGED engine /\ RefreshOnly

(* The routes, read by a subprocess: a change suspends the engine, a good reading lets a
   suspended one resume. *)
RefreshRoutes ==
    /\ refresh = "routes"
    /\ \/ engine' = IF engine = "on" THEN "suspended" ELSE engine
       \/ engine' = IF engine = "suspended" THEN "on" ELSE engine
    /\ \/ refresh' = "wait" /\ UNCHANGED policy
       \/ refresh' = "ended" /\ policy' = "suspended"
    /\ RefreshOnly

Refresh == RefreshWakes \/ RefreshAddresses \/ RefreshRoutes

----------------------------------------------------------------------------
(* Windows stopCallback() and _close_capture(), for Diverter.stop() and the rollback. *)

TeardownOnly == UNCHANGED <<sp, divStop, fp, callers, sound, next, listenVars>>
Sick(yes) == healthy' = (healthy /\ ~yes)

TeardownBegins ==
    /\ tp = "begin" /\ tp' = "inbound"
    /\ stopping' = TRUE /\ engine' = "closed" /\ policy' = "suspended"
    /\ UNCHANGED <<healthy, writer, safeToClose, captureFailure, handleVars, threadVars,
                   netVars>> /\ TeardownOnly

CloseInbound ==
    /\ tp = "inbound" /\ tp' = "joinInbound"
    /\ \E raised \in BOOLEAN : inHandle' = (inHandle /\ raised) /\ Sick(inHandle /\ raised)
    /\ UNCHANGED <<captureVars, handle, threadVars, policyVars, netVars>> /\ TeardownOnly

(* Faulty: a thread that did not end does not keep the capture files open. *)
JoinForgiving(thread, then) ==
    /\ tp' = then /\ Sick(thread \notin {"off", "ended"}) /\ UNCHANGED safeToClose
(* A join that times out keeps the capture files open for good. *)
Join(thread, then) ==
    /\ tp' = then /\ Sick(thread \notin {"off", "ended"})
    /\ safeToClose' = (safeToClose /\ thread \in {"off", "ended"})

JoinInbound ==
    /\ tp = "joinInbound" /\ Join(inbound, "handle")
    /\ UNCHANGED <<writer, captureFailure, stopping, handleVars, threadVars, policyVars,
                   netVars>> /\ TeardownOnly

CloseHandle ==
    /\ tp = "handle" /\ tp' = "joinReceiver"
    /\ \E raised \in BOOLEAN : handle' = (handle /\ raised) /\ Sick(handle /\ raised)
    /\ UNCHANGED <<captureVars, inHandle, threadVars, policyVars, netVars>> /\ TeardownOnly

JoinReceiver ==
    /\ tp = "joinReceiver" /\ Join(receiver, "joinRefresh")
    /\ UNCHANGED <<writer, captureFailure, stopping, handleVars, threadVars, policyVars,
                   netVars>> /\ TeardownOnly

JoinRefresh ==
    /\ tp = "joinRefresh" /\ Join(refresh, "joinWatchdog")
    /\ UNCHANGED <<writer, captureFailure, stopping, handleVars, threadVars, policyVars,
                   netVars>> /\ TeardownOnly

(* Faulty: the watchdog is not joined. *)
JoinNoWatchdog ==
    /\ tp = "joinWatchdog" /\ tp' = "restore"
    /\ UNCHANGED <<healthy, captureVars, handleVars, threadVars, policyVars, netVars>>
    /\ TeardownOnly
JoinWatchdog ==
    /\ tp = "joinWatchdog" /\ Join(watchdog, "restore")
    /\ UNCHANGED <<writer, captureFailure, stopping, handleVars, threadVars, policyVars,
                   netVars>> /\ TeardownOnly

TeardownRestores ==
    /\ tp = "restore"
    /\ IF restored THEN tp' = "close" /\ UNCHANGED restored
       ELSE tp' = "restoring" /\ ClaimsRestore
    /\ UNCHANGED <<healthy, captureVars, handleVars, threadVars, policyVars, network, lost>>
    /\ TeardownOnly

TeardownRestored ==
    /\ tp = "restoring" /\ tp' = "close"
    /\ \E raised, failed \in BOOLEAN :
         RestoreEnds(raised, failed) /\ Sick(raised) /\ lost' = (lost \/ failed)
    /\ UNCHANGED <<captureVars, handleVars, threadVars, policyVars>> /\ TeardownOnly

(* _close_capture, the reports, and the result that every caller of Diverter.stop() gets. *)
CloseCapture ==
    /\ tp = "close" /\ tp' = "none" /\ divStop' = "ended"
    /\ writer' = IF writer = "open" /\ safeToClose THEN "closed" ELSE writer
    /\ \E unsound, unreported \in BOOLEAN :
         /\ Fails(writer = "open" /\ (~safeToClose \/ unsound))
         /\ Sick(captureFailure' \/ (sp = "up" /\ unreported))
    /\ sp' = IF sp = "rollback" THEN "listenersBack" ELSE sp
    /\ UNCHANGED <<fp, callers, sound, next, listenVars, safeToClose, handleVars, threadVars,
                   policyVars, netVars>>

Teardown ==
    \/ TeardownBegins \/ CloseInbound \/ JoinInbound \/ CloseHandle \/ JoinReceiver
    \/ JoinRefresh \/ JoinWatchdog \/ TeardownRestores \/ TeardownRestored \/ CloseCapture

----------------------------------------------------------------------------
(* Fakenet.stop() *)

StopOnly == UNCHANGED <<sp, captureVars, handleVars, threadVars, netVars>>

Started == sp \in {"up", "failed"}

(* The operator, the service or a caller that saw the capture fail. *)
CallStop(c) ==
    /\ Started /\ callers[c] = "idle"
    /\ IF \A d \in Stoppers : callers[d] = "idle"
       THEN fp' = "suspend" /\ callers' = [callers EXCEPT ![c] = "owner"]
       ELSE callers' = [callers EXCEPT ![c] = "waits"] /\ UNCHANGED fp
    /\ UNCHANGED <<divStop, tp, healthy, sound, next, listenVars, policyVars>> /\ StopOnly

(* wait_for_shutdown sees a capture failure. *)
FailureStops == Started /\ captureFailure /\ \E c \in Stoppers : CallStop(c)

SuspendPolicy ==
    /\ fp = "suspend" /\ fp' = "listeners" /\ next' = Len(Order)
    /\ stopping' = TRUE /\ policy' = "suspended"
    /\ engine' = IF engine = "closed" THEN "closed" ELSE "suspended"
    /\ UNCHANGED <<sp, divStop, tp, callers, healthy, sound, listenVars, writer, safeToClose,
                   captureFailure, handleVars, threadVars, netVars>>

(* The listeners in reverse order, each unless somebody has stopped it. *)
StopListener ==
    /\ fp = "listeners" /\ next > 0
    /\ \E raised \in BOOLEAN :
         /\ raised => Order[next] \notin policyStopped
         /\ listening' = IF raised THEN listening ELSE listening \ {Order[next]}
         /\ policyStopped' = IF raised THEN policyStopped ELSE policyStopped \cup {Order[next]}
         /\ sound' = (sound /\ ~raised)
    /\ next' = next - 1
    /\ UNCHANGED <<divStop, tp, fp, callers, healthy, policyVars>> /\ StopOnly

StopDiverter ==
    /\ fp = "listeners" /\ next = 0 /\ fp' = "diverter"
    /\ IF divStop = "none"
       THEN divStop' = "begun" /\ tp' = "begin" /\ healthy' = TRUE
       ELSE UNCHANGED <<divStop, tp, healthy>>
    /\ UNCHANGED <<callers, sound, next, listenVars, policyVars>> /\ StopOnly

(* Faulty: a failed stop does not announce its end. *)
StopReturnsSound ==
    /\ fp = "diverter" /\ tp = "none" /\ sound /\ healthy /\ fp' = "ended"
    /\ UNCHANGED <<divStop, tp, callers, healthy, sound, next, listenVars, policyVars>>
    /\ StopOnly
(* Every caller gets the owner's result. *)
StopReturns ==
    /\ fp = "diverter" /\ tp = "none" /\ fp' = "ended" /\ sound' = (sound /\ healthy)
    /\ UNCHANGED <<divStop, tp, callers, healthy, next, listenVars, policyVars>> /\ StopOnly

Stop == SuspendPolicy \/ StopListener \/ StopDiverter \/ StopReturns

Next ==
    \/ Start \/ Watch \/ Refresh \/ Teardown \/ Stop
    \/ ReceiverGets \/ ReceiverWakes \/ ReceiverBreaks \/ ReceiverWrites
    \/ InboundGets \/ InboundWakes \/ InboundBreaks \/ InboundWrites
    \/ \E c \in Stoppers : CallStop(c)

(* Every thread runs on; joins and waits have deadlines; recv() may block as long as its
   handle is open; the main thread polls for a capture failure. *)
Fairness ==
    /\ WF_vars(Start) /\ WF_vars(Watch) /\ WF_vars(Refresh) /\ WF_vars(Teardown)
    /\ WF_vars(Stop) /\ WF_vars(FailureStops)
    /\ WF_vars(ReceiverWakes) /\ WF_vars(ReceiverWrites)
    /\ WF_vars(InboundWakes) /\ WF_vars(InboundWrites)

Spec == Init /\ [][Next]_vars /\ Fairness

----------------------------------------------------------------------------
(* The types; and a listener that is marked as stopped does not serve. *)
ATypeOK ==
    /\ listening \subseteq Listeners /\ policyStopped \subseteq Listeners
    /\ listening \cap policyStopped = {}
    /\ writer \in {"none", "open", "closed"}
    /\ receiver \in {"off", "ended"} \cup Running /\ inbound \in {"off", "ended"} \cup Running
    /\ engine \in {"on", "suspended", "closed"} /\ policy \in {"on", "suspended"}
    /\ network \in {"own", "changed"} /\ next \in 0..(Len(Order) + 1)
    /\ divStop \in {"none", "begun", "ended"}
    /\ callers \in [Stoppers -> {"idle", "owner", "waits"}]

(* The capture files are never closed under a packet thread: whichever join timed out,
   whichever handle could not be closed, and whoever called the teardown. *)
NoLateWrite == writer = "closed" => receiver \notin Running /\ inbound \notin Running

(* The watchdog and a stop never restore the network at the same time, although the
   restoration runs outside its lock and a join of the watchdog may time out. *)
OneRestorer == ~(watchdog = "restoring" /\ tp = "restoring")

(* The types, and one restorer: _restore_network_settings claims its work under a lock. *)
AppInv == ATypeOK /\ OneRestorer

Over(thread) == thread \in {"off", "ended"}
Released ==
    /\ ~handle /\ ~inHandle /\ writer # "open"
    /\ Over(receiver) /\ Over(inbound) /\ Over(watchdog) /\ Over(refresh)
    /\ network = "own" \/ lost

(* stop() that returns True left no thread, handle, file or listener behind and the
   restoration of the network has run to its end, whatever else was tearing down at the
   same time.  It does not say that every part of the restoration succeeded: what fails
   in _restore_network_settings is mostly logged (see TrueMeansRestored). *)
StopIsHonest ==
    fp = "ended" /\ sound => Released /\ listening = {} /\ policy = "suspended" /\ engine # "on"

(* A start() that failed left nothing of the platform behind, at whichever step it failed,
   unless its rollback recorded a failure of its own. *)
FailedStartIsUndone == sp = "failed" /\ fp = "none" /\ healthy => Released

(* A running instance that loses its receiver gives the network back, by the watchdog or
   by the stop that a capture failure causes; or the failure to do so is recorded. *)
LossIsAnswered ==
    sp = "up" /\ receiver = "ended" ~> network = "own" \/ lost \/ (fp = "ended" /\ ~sound)

(* Every caller of stop() gets an answer. *)
StopEnds == \A c \in Stoppers : callers[c] # "idle" ~> fp = "ended"

(* diverterbase.py:1138-1142: stopCallback shall "change network settings back to normal.
   Returns: True if successful, else False".  A command or a registry value that cannot be
   set back is only logged (windows.py:2766, 2789; winutil.py:1104-1174, 1840), the flag
   _network_restored keeps every later stop from another attempt, and the result is True:
   this does not hold. *)
TrueMeansRestored == fp = "ended" /\ sound => network = "own"

(* windows.py:1407: suspend_policy marks the diverter as stopping "so watchdog/refresh
   workers cannot misclassify that drain window".  While the listeners are drained the
   engine must then stay suspended.  The refresh worker tests _stopping before it reads
   the routes, and resumes the engine after: this does not hold. *)
DrainStaysSuspended == fp = "listeners" => engine # "on"
=============================================================================
