----------------------------- MODULE Supervisor -----------------------------
(***************************************************************************)
(* The lifecycle of a managed FakeNet run under the MCP service on Windows *)
(* (fakenet/mcp/supervisor.py on top of coordination.py): the lifecycle    *)
(* operations, the health thread with its protective stop, the recovery    *)
(* marker on disk, and the recovery a new service instance does after the  *)
(* old one died.                                                           *)
(*                                                                         *)
(* Threads: "op" executes the one lifecycle operation the coordinator has  *)
(* accepted, "boot" runs Supervisor.recover(), each run has a health       *)
(* thread, and "idle" is the coordinator's deferred recovery thread.  They *)
(* interleave at the calls that leave the process (files, the child, the   *)
(* coordinator's lock).                                                    *)
(***************************************************************************)
EXTENDS Coordinator

CONSTANTS
    ClientLimit,    \* bound: clients submit only while state_version is below it
    MaxCrashes      \* bound: how often the service process dies

Threads == {"op", "boot"}
Submitters == Runs \cup {"idle"}
Programs == {"start", "stop", "restart", "load", "verify"}
Markers == [run : Runs, ctrl : Clients, needs : BOOLEAN]
Children == [run : Runs, ready : BOOLEAN]
Operations == [cmd : Commands, prog : Programs, by : Submitters \cup {"client"},
               ctrl : Clients \cup {None}, run : Runs \cup {None},
               then : {"return", "start", "blame"}]

ASSUME SupervisorConstants ==
    /\ {"start_failed", "stop_failed", "probe_failed", "exit_failed"} \subseteq Reasons
    /\ ClientLimit \in 1..MaxVersion
    /\ MaxCrashes \in Nat
    /\ Clients # {} /\ Idents # {} /\ Runs \cap {"idle", "client"} = {}
    /\ None \notin Markers \cup Children \cup Operations

VARIABLES
    marker,         \* disk: the recovery marker (snapshot.py), or None
    baseline,       \* disk: some baseline file exists
    env,            \* the host's network environment: "clean" or "dirty"
    alive,          \* some process of the managed child's Job is alive
    child,          \* self._fakenet: None or [run, ready]
    memMarker,      \* self._marker
    configLock,     \* self._activity_lock is held
    capability,     \* the native exit capability: "unverified", "pending" (a helper
                    \* that checks it is not known to have ended) or "verified"
    observer,       \* the endpoint observer of a run is not known to have ended
    healthStop,     \* the event self._health_stop
    runFailed,      \* self._last_run_outcome = 'failed'
    lifeLock,       \* owner of the lifecycle lock self._lock, or "free"
    pc,             \* [Threads -> control point]
    ret,            \* [Threads -> what stop() or start() returned]
    graceError,     \* [Threads -> stop()'s local: the graceful stop failed]
    op,             \* the executing operation: [cmd, prog, by, ctrl, run, then] or None
    bootMarker,     \* recover()'s local copy of the marker
    spc,            \* [Submitters -> control point] health threads and "idle"
    seen,           \* [Runs -> the observation a health thread is to publish]
    misses,         \* [Runs -> consecutive probe timeouts]
    readAt,         \* [Submitters -> version and controller read for a protective stop]
    used,           \* history: the run ids handed out
    fate,           \* history: [Runs -> "unknown"; "failed" once its health thread said
                    \*          so; "stopping" once a stop attended to it after that]
    crashes

diskVars == <<marker, baseline>>
hostVars == <<env, alive>>
memVars == <<child, memMarker, configLock, capability, observer, healthStop, runFailed>>
threadVars == <<lifeLock, pc, ret, graceError, op, bootMarker>>
watchVars == <<spc, seen, misses, readAt>>
supVars == <<diskVars, hostVars, memVars, threadVars, watchVars, used, fate, crashes>>
allVars == <<vars, supVars>>

NeedsRecovery(m) == m # None /\ m.needs

(* What an earlier instance of the service may have left: nothing, or the marker of
   a run that it did not see to the end. *)
FoundOnDisk ==
    \/ marker = None /\ baseline = FALSE /\ env = "clean" /\ used = {}
    \/ \E r \in Runs, owner \in Clients :
         /\ marker = [run |-> r, ctrl |-> owner, needs |-> TRUE] /\ baseline = TRUE
         /\ env \in {"clean", "dirty"} /\ used = {r}

SInit ==
    /\ Init /\ state = "recovering"
    /\ FoundOnDisk /\ alive = FALSE
    /\ child = None /\ memMarker = None /\ configLock = FALSE
    /\ capability = "unverified" /\ observer = FALSE /\ healthStop = FALSE /\ runFailed = FALSE
    /\ lifeLock = "free"
    /\ pc = [t \in Threads |-> IF t = "boot" THEN "recover" ELSE "idle"]
    /\ ret = [t \in Threads |-> None] /\ graceError = [t \in Threads |-> FALSE]
    /\ op = None /\ bootMarker = None
    /\ spc = [s \in Submitters |-> "off"] /\ seen = [r \in Runs |-> None]
    /\ misses = [r \in Runs |-> 0] /\ readAt = [s \in Submitters |-> None]
    /\ fate = [r \in Runs |-> "unknown"] /\ crashes = 0

----------------------------------------------------------------------------
(* Results of Supervisor._result, in the coordinator's terms. *)

StoppedResult(changed) ==
    [state |-> "stopped", run |-> None, ctrl |-> None, reason |-> None,
     release |-> TRUE, changed |-> changed,
     outcome |-> IF runFailed THEN "failed" ELSE IF changed THEN "ok" ELSE Absent]
FailedResult(m, reason) ==
    [state |-> "failed", run |-> IF m = None THEN Absent ELSE m.run,
     ctrl |-> IF m = None THEN None ELSE m.ctrl, reason |-> reason,
     release |-> FALSE, changed |-> TRUE, outcome |-> "failed"]
(* Faulty: a started run has no owner. *)
OwnerlessResult(run, ctrl) ==
    [state |-> "healthy", run |-> run, ctrl |-> ctrl, reason |-> None,
     release |-> TRUE, changed |-> TRUE, outcome |-> Absent]
HealthyResult(run, ctrl) ==
    [state |-> "healthy", run |-> run, ctrl |-> ctrl, reason |-> None,
     release |-> FALSE, changed |-> TRUE, outcome |-> Absent]
NoResult(changed) ==
    [state |-> Absent, run |-> Absent, ctrl |-> None, reason |-> None,
     release |-> FALSE, changed |-> changed, outcome |-> Absent]
NoopResult == [NoResult(FALSE) EXCEPT !.state = "stopped"]
EchoResult == [NoResult(TRUE) EXCEPT !.state = state]

Goto(t, p) == pc' = [pc EXCEPT ![t] = p]

(* stop() leaves thread t: inside start() or restart() the operation goes on. *)
AfterStop(t, res) ==
    IF t = "boot" THEN "report"
    ELSE IF op.then = "blame" THEN "blame"
    ELSE IF op.then = "start" /\ res.state = "stopped" THEN "guard" ELSE "finish"
(* stop() returns: its finally clause tries once more to end the endpoint observer
   and releases the lifecycle lock, which start() still holds around an inline stop. *)
Return(t, res) ==
    /\ ret' = [ret EXCEPT ![t] = res]
    /\ Goto(t, AfterStop(t, res))
    /\ lifeLock' = IF t = "op" /\ op.then = "blame" THEN "op" ELSE "free"
    /\ graceError' = [graceError EXCEPT ![t] = FALSE]
    /\ runFailed' = (runFailed \/ res.outcome = "failed")
    /\ observer' \in {observer, FALSE}
    /\ UNCHANGED <<op, bootMarker>>

----------------------------------------------------------------------------
(* Supervisor.stop() on thread t. *)

(* The lifecycle lock is taken, health publication is revoked, the helper of the
   native capability check and a half-started child are cleaned up, the marker is
   read (and rewritten with the id of this operation).  Of a marker that cannot be
   read the stop reports what the supervisor remembers. *)
AttendTo(r) == [fate EXCEPT ![r] = IF @ = "failed" THEN "stopping" ELSE @]
StopEnter(t) ==
    /\ pc[t] = "stop" /\ lifeLock \in {"free", t}
    /\ healthStop' = TRUE
    /\ fate' = IF child # None THEN AttendTo(child.run) ELSE fate
    /\ \/ /\ capability = "pending" \/ (child # None /\ ~child.ready)
          /\ Return(t, FailedResult(memMarker, "stop_failed"))
          /\ UNCHANGED <<child, alive, memMarker, capability>>
       \/ /\ capability' = IF capability = "pending" THEN "unverified" ELSE capability
          /\ child' = IF child # None /\ ~child.ready THEN None ELSE child
          /\ alive' = (alive /\ child' # None)
          /\ \/ /\ marker # None /\ memMarker' = memMarker
                /\ Return(t, FailedResult(memMarker, "stop_failed"))
             \/ /\ memMarker' = marker
                /\ NeedsRecovery(marker) \/ child' # None
                /\ Return(t, FailedResult(marker, "stop_failed"))
             \/ /\ memMarker' = marker
                /\ Goto(t, IF NeedsRecovery(marker) \/ child' # None THEN "revoke" ELSE "nothing")
                /\ lifeLock' = t
                /\ runFailed' \in {runFailed, runFailed \/ capability = "pending"}
                /\ UNCHANGED <<ret, graceError, observer, op, bootMarker>>
    /\ UNCHANGED <<vars, diskVars, env, configLock, watchVars, used, crashes>>

(* No child and no responsibility: the configuration lock is released and the
   result is 'stopped', unless the endpoint observer cannot be seen to end. *)
StopNothing(t) ==
    /\ pc[t] = "nothing"
    /\ \/ /\ Return(t, StoppedResult(FALSE))
          /\ observer' = FALSE /\ configLock' = FALSE
       \/ /\ observer /\ UNCHANGED configLock
          /\ Return(t, FailedResult(memMarker, "stop_failed"))
    /\ UNCHANGED <<vars, diskVars, hostVars, child, memMarker, capability, healthStop, watchVars,
                   used, fate, crashes>>

(* update_health_state('recovering') unless the run has already failed. *)
StopRevoke(t) ==
    /\ pc[t] = "revoke"
    /\ IF state # "failed" THEN UpdateHealthState("recovering", None) ELSE UNCHANGED vars
    /\ Goto(t, IF child = None THEN "settle" ELSE "grace")
    /\ UNCHANGED <<diskVars, hostVars, memVars, lifeLock, ret, graceError, op, bootMarker, watchVars,
                   used, fate, crashes>>

(* The graceful stop request: the child stops and its Job drains, or it fails. *)
StopGrace(t) ==
    /\ pc[t] = "grace"
    /\ \/ alive /\ alive' = FALSE /\ UNCHANGED <<vars, graceError>>
       \/ /\ alive' \in {alive, FALSE}
          /\ graceError' = [graceError EXCEPT ![t] = TRUE]
          /\ UpdateHealthState("failed", "stop_failed")
    /\ Goto(t, "terminate")
    /\ UNCHANGED <<diskVars, env, memVars, lifeLock, ret, op, bootMarker, watchVars, used, fate,
                   crashes>>

(* The Job is terminated and seen empty, or the stop fails with the child kept. *)
StopTerminate(t) ==
    /\ pc[t] = "terminate"
    /\ \/ /\ alive' = FALSE /\ child' = None
          /\ Goto(t, "settle") /\ lifeLock' = "free"
          /\ UNCHANGED <<ret, graceError, runFailed, observer, op, bootMarker>>
       \/ /\ alive' \in {alive, FALSE} /\ child' = child
          /\ Return(t, FailedResult(memMarker, "stop_failed"))
    /\ UNCHANGED <<vars, diskVars, env, memMarker, configLock, capability, healthStop, watchVars,
                   used, fate, crashes>>

(* Exit evidence (the wait for it, after a child was terminated, releases the
   lifecycle lock), compensation and the full audit against the baseline. *)
StopSettle(t) ==
    /\ pc[t] = "settle" /\ lifeLock \in {"free", t}
    /\ \/ /\ env' = "clean" /\ observer' = FALSE
          /\ \E incomplete \in BOOLEAN : runFailed' = (runFailed \/ incomplete)
          /\ Goto(t, "fence") /\ lifeLock' = t
          /\ UNCHANGED <<ret, graceError, op, bootMarker>>
       \/ /\ env' \in {env, "clean"}
          /\ Return(t, FailedResult(memMarker, "stop_failed"))
    /\ UNCHANGED <<vars, diskVars, alive, child, memMarker, configLock, capability, healthStop,
                   watchVars,
                   used, fate, crashes>>

(* coordinator.operation_fenced: an operation a failed controlled exit overtook
   may not clear the marker. *)
OperationFenced(t) == t = "op" /\ op.cmd \in exitFenced
StopFence(t) ==
    /\ pc[t] = "fence"
    /\ IF OperationFenced(t)
       THEN Return(t, FailedResult(memMarker, "stop_failed"))
       ELSE /\ Goto(t, "register") /\ lifeLock' = "free"
            /\ UNCHANGED <<ret, graceError, runFailed, observer, op, bootMarker>>
    /\ UNCHANGED <<vars, diskVars, hostVars, child, memMarker, configLock, capability,
                   healthStop, watchVars, used, fate, crashes>>

(* The run's artifacts are registered by a diagnostic task (the lock is free
   meanwhile), then the configuration is unlocked and the marker that this stop has
   read is cleared (while a stop is under way no other run is marked). *)
StopRegister(t) ==
    /\ pc[t] = "register" /\ lifeLock = "free"
    /\ \/ /\ Goto(t, "clear") /\ lifeLock' = t
          /\ UNCHANGED <<ret, graceError, runFailed, observer, op, bootMarker>>
       \/ Return(t, FailedResult(memMarker, "stop_failed"))
    /\ UNCHANGED <<vars, diskVars, hostVars, child, memMarker, configLock, capability, healthStop,
                   watchVars, used, fate, crashes>>

StopClear(t) ==
    /\ pc[t] = "clear"
    /\ \/ /\ configLock' = FALSE
          /\ marker' = [marker EXCEPT !.needs = FALSE]
          /\ memMarker' = marker'
          /\ Return(t, IF graceError[t] THEN [StoppedResult(TRUE) EXCEPT !.outcome = "failed"]
                       ELSE StoppedResult(TRUE))
       \/ /\ configLock' \in {configLock, FALSE}
          /\ UNCHANGED <<marker, memMarker>>
          /\ Return(t, FailedResult(memMarker, "stop_failed"))
    /\ UNCHANGED <<vars, baseline, hostVars, child, capability, healthStop, watchVars, used,
                   fate, crashes>>

Stop(t) ==
    \/ StopEnter(t) \/ StopNothing(t) \/ StopRevoke(t) \/ StopGrace(t) \/ StopTerminate(t)
    \/ StopSettle(t) \/ StopFence(t) \/ StopRegister(t) \/ StopClear(t)

----------------------------------------------------------------------------
(* Supervisor.start() on the operation thread. *)

(* Everything before the try statement: the firewall guard, the native exit
   capability, a child or a marker that is still there, the configuration lock.
   An exception here leaves the coordinator's state as it is. *)
StartGuard ==
    /\ pc["op"] = "guard" /\ lifeLock = "free"
    /\ \/ /\ child = None /\ ~NeedsRecovery(marker)
          /\ capability' = "verified" /\ observer' = FALSE
          /\ configLock' = TRUE /\ lifeLock' = "op" /\ Goto("op", "prepare")
       \/ /\ \/ capability' = capability
             \/ /\ child = None /\ ~NeedsRecovery(marker) /\ capability = "unverified"
                /\ capability' \in {"pending", "verified"}
          /\ observer' \in {observer, FALSE}
          /\ UNCHANGED <<configLock, lifeLock>> /\ Goto("op", "raise")
    /\ UNCHANGED <<vars, diskVars, hostVars, child, memMarker, healthStop, runFailed, ret,
                   graceError, op, bootMarker, watchVars, used, fate, crashes>>

(* Hash check, run directory, endpoint observer, network readiness, baseline.
   Failing, the state becomes 'failed', the lock is let go and the exception
   leaves start(). *)
StartPrepare ==
    /\ pc["op"] = "prepare"
    /\ \/ /\ baseline' = TRUE
          /\ \E r \in Runs \ used :
               /\ used' = used \cup {r} /\ op' = [op EXCEPT !.run = r]
               /\ memMarker' = [run |-> r, ctrl |-> op.ctrl, needs |-> TRUE]
          /\ observer' = TRUE /\ runFailed' = FALSE
          /\ Goto("op", "mark")
          /\ UNCHANGED <<vars, configLock, lifeLock>>
       \/ /\ UpdateHealthState("failed", "start_failed")
          /\ configLock' = FALSE /\ lifeLock' = "free" /\ Goto("op", "raise")
          /\ \E begun \in BOOLEAN :
               runFailed' = (runFailed /\ ~begun) /\ observer' \in {FALSE, begun}
          /\ UNCHANGED <<baseline, used, op, memMarker>>
    /\ UNCHANGED <<marker, hostVars, child, capability, healthStop, ret, graceError, bootMarker,
                   watchVars, fate, crashes>>

(* A failure from here on is answered by an inline stop(). *)
StartFails ==
    /\ UpdateHealthState("failed", "start_failed")
    /\ op' = [op EXCEPT !.then = "blame"]
    /\ Goto("op", "stop")

(* Faulty: nothing is written before the child is created. *)
StartUnmarked ==
    /\ pc["op"] = "mark" /\ Goto("op", "adopt")
    /\ UNCHANGED <<vars, diskVars, hostVars, memVars, lifeLock, ret, graceError, op, bootMarker,
                   watchVars, used, fate, crashes>>
(* snapshot.write: the responsibility is on disk before anything changes. *)
StartMark ==
    /\ pc["op"] = "mark"
    /\ \/ marker' = memMarker /\ Goto("op", "adopt") /\ UNCHANGED <<vars, op>>
       \/ marker' = marker /\ StartFails
    /\ UNCHANGED <<baseline, hostVars, memVars, lifeLock, ret, graceError, bootMarker, watchVars,
                   used, fate, crashes>>

StartAdopt ==
    /\ pc["op"] = "adopt"
    /\ RestoreResponsibility(memMarker.run, memMarker.ctrl, "starting", None, None)
    /\ Goto("op", "spawn")
    /\ UNCHANGED <<diskVars, hostVars, memVars, lifeLock, ret, graceError, op, bootMarker,
                   watchVars, used, fate, crashes>>

(* The child process inside its Job: created, initialized and ready. *)
StartSpawn ==
    /\ pc["op"] = "spawn"
    /\ \/ /\ child' = [run |-> op.run, ready |-> TRUE] /\ alive' = TRUE
          /\ Goto("op", "launch") /\ UNCHANGED <<vars, op>>
       \/ /\ StartFails
          /\ \/ child' = None /\ alive' = FALSE
             \/ child' = [run |-> op.run, ready |-> FALSE] /\ alive' = TRUE
    /\ UNCHANGED <<diskVars, env, memMarker, configLock, capability, observer, healthStop, runFailed,
                   lifeLock, ret,
                   graceError, bootMarker, watchVars, used, fate, crashes>>

(* The child's start request takes over the network; the probes and the
   stability window follow.  They may fail with the environment changed. *)
StartLaunch ==
    /\ pc["op"] = "launch"
    /\ \/ env' = "dirty" /\ Goto("op", "watch") /\ UNCHANGED <<vars, op>>
       \/ env' \in {env, "dirty"} /\ StartFails
    /\ UNCHANGED <<diskVars, alive, memVars, lifeLock, ret, graceError, bootMarker, watchVars,
                   used, fate, crashes>>

(* The health thread is started unless a failed controlled exit came first. *)
StartWatch ==
    /\ pc["op"] = "watch"
    /\ IF OperationFenced("op")
       THEN /\ ret' = [ret EXCEPT !["op"] = FailedResult(memMarker, "exit_failed")]
            /\ runFailed' = TRUE
            /\ UNCHANGED <<healthStop, spc>>
       ELSE /\ ret' = [ret EXCEPT !["op"] = HealthyResult(op.run, op.ctrl)]
            /\ healthStop' = FALSE
            /\ spc' = [spc EXCEPT ![op.run] = "probe"]
            /\ UNCHANGED runFailed
    /\ lifeLock' = "free" /\ Goto("op", "finish")
    /\ UNCHANGED <<vars, diskVars, hostVars, child, memMarker, configLock, capability, observer,
                   graceError, op,
                   bootMarker, seen, misses, readAt, used, fate, crashes>>

(* The inline stop returned: the start is recorded as a terminal failure. *)
StartBlame ==
    /\ pc["op"] = "blame"
    /\ RecordTerminalFailure("start_failed")
    /\ ret' = [ret EXCEPT !["op"] = [@ EXCEPT !.outcome = "failed", !.reason = "start_failed"]]
    /\ lifeLock' = "free" /\ Goto("op", "finish")
    /\ UNCHANGED <<diskVars, hostVars, memVars, graceError, op, bootMarker, watchVars, used, fate,
                   crashes>>

Start ==
    \/ StartGuard \/ StartPrepare \/ StartMark \/ StartAdopt \/ StartSpawn
    \/ StartLaunch \/ StartWatch \/ StartBlame

----------------------------------------------------------------------------
(* Operations.  A command id is used once by its client: retries are the
   coordinator's business (module Coordinator). *)

KindOf(prog) ==
    CASE prog = "load" -> "load_config" [] prog = "verify" -> "verify_egress"
      [] OTHER -> "lifecycle"

Begin(req, prog, by) ==
    /\ op = None
    /\ Accept(req)
    /\ op' = [cmd |-> req.cmd, prog |-> prog, by |-> by, ctrl |-> req.ctrl, run |-> None,
              then |-> "return"]
    /\ Goto("op", "begin")

ClientSubmits ==
    /\ stateVersion < ClientLimit
    /\ \E c \in Commands, ctrl \in Clients, prog \in Programs :
         /\ prog \in {"start", "restart"} => used # Runs
         /\ Begin([cmd |-> c, ctrl |-> ctrl, valid |-> TRUE, ver |-> stateVersion,
                   kind |-> KindOf(prog), scope |-> None,
                   ident |-> IF prog = "verify" THEN CHOOSE i \in Idents : TRUE ELSE None],
                  prog, "client")
    /\ UNCHANGED <<diskVars, hostVars, memVars, lifeLock, ret, graceError, bootMarker, watchVars,
                   used, fate, crashes>>

(* The tool's execute(): its own refusals, then the supervisor's method. *)
Execute ==
    /\ pc["op"] = "begin"
    /\ LET running == runId # None
           needs == state \in {"failed", "recovering"} \/ draining
           answer(res) == ret' = [ret EXCEPT !["op"] = res] /\ Goto("op", "finish")
           raise == Goto("op", "raise") /\ UNCHANGED ret
       IN  CASE op.prog = "start" -> Goto("op", "guard") /\ UNCHANGED <<ret, op>>
             [] op.prog = "restart" ->
                  IF running
                  THEN Goto("op", "stop") /\ op' = [op EXCEPT !.then = "start"] /\ UNCHANGED ret
                  ELSE raise /\ UNCHANGED op
             [] op.prog = "stop" ->
                  /\ IF op.by = "client" /\ ~running /\ ~needs
                     THEN answer(NoopResult)
                     ELSE Goto("op", "stop") /\ UNCHANGED ret
                  /\ UNCHANGED op
             [] op.prog = "load" ->
                  (IF running THEN raise ELSE answer(EchoResult)) /\ UNCHANGED op
             [] op.prog = "verify" ->
                  /\ (child # None /\ state = "healthy" /\ answer(NoResult(FALSE))) \/ raise
                  /\ UNCHANGED op
    /\ UNCHANGED <<vars, diskVars, hostVars, memVars, lifeLock, graceError, bootMarker, watchVars,
                   used, fate, crashes>>

(* Phase 3, or the exception of phase 2; the submitting thread goes on. *)
Ends ==
    /\ op' = None
    /\ ret' = [ret EXCEPT !["op"] = None]
    /\ Goto("op", "idle")
    /\ spc' = IF op.by \in Submitters THEN [spc EXCEPT ![op.by] = "record"] ELSE spc
    /\ UNCHANGED <<diskVars, hostVars, memVars, lifeLock, graceError, bootMarker, seen, misses,
                   readAt, used, fate, crashes>>
OpCompletes == pc["op"] = "finish" /\ Complete(op.cmd, ret["op"]) /\ Ends
OpRaises == pc["op"] = "raise" /\ Fail(op.cmd) /\ Ends

----------------------------------------------------------------------------
(* The health thread of run r, and the deferred recovery thread "idle". *)

HealthVerdict(r, healthy, timedOut) ==
    IF healthy THEN "healthy" ELSE IF timedOut /\ misses[r] = 0 THEN "degraded" ELSE "failed"

(* One probe of whatever child there is now; a stopped loop ends. *)
Probe(r) ==
    /\ spc[r] = "probe"
    /\ IF healthStop \/ child = None
       THEN spc' = [spc EXCEPT ![r] = "off"] /\ UNCHANGED <<seen, misses>>
       ELSE \E healthy, timedOut \in BOOLEAN :
              /\ healthy => alive /\ ~timedOut
              /\ seen' = [seen EXCEPT ![r] =
                            [run |-> child.run, verdict |-> HealthVerdict(r, healthy, timedOut)]]
              /\ misses' = [misses EXCEPT ![r] = IF timedOut /\ @ = 0 THEN 1 ELSE 0]
              /\ spc' = [spc EXCEPT ![r] = "publish"]
    /\ UNCHANGED <<vars, diskVars, hostVars, memVars, threadVars, readAt, used, fate, crashes>>

(* Faulty: an observation that was revoked is still published. *)
MayPublishRevoked(r) == child # None /\ child.run = seen[r].run
(* _publish_health: only while the observation is not revoked and the child is
   still the one that was probed. *)
MayPublish(r) == ~healthStop /\ child # None /\ child.run = seen[r].run
Publish(r) ==
    /\ spc[r] = "publish"
    /\ IF MayPublish(r)
       THEN LET v == seen[r].verdict
            IN  /\ UpdateHealthState(v, IF v = "healthy" THEN None ELSE "probe_failed")
                /\ spc' = [spc EXCEPT ![r] = IF v = "failed" THEN "await" ELSE "probe"]
                /\ fate' = IF v = "failed" THEN [fate EXCEPT ![child.run] = "failed"] ELSE fate
       ELSE spc' = [spc EXCEPT ![r] = "off"] /\ UNCHANGED <<vars, fate>>
    /\ seen' = [seen EXCEPT ![r] = None]
    /\ UNCHANGED <<diskVars, hostVars, memVars, threadVars, misses, readAt, used, crashes>>

(* Incident collection, then wait_for_idle(60): idle, or an operation that is
   still executing (not merely about to return) after a minute. *)
AwaitIdle(r) ==
    /\ spc[r] = "await"
    /\ IF DOMAIN active = {}
       THEN spc' = [spc EXCEPT ![r] = "read"] /\ UNCHANGED vars
       ELSE /\ pc["op"] \notin {"finish", "raise"}
            /\ spc' = [spc EXCEPT ![r] = "record"] /\ RecoverWhenIdle
    /\ UNCHANGED <<diskVars, hostVars, memVars, threadVars, seen, misses, readAt, used, fate, crashes>>

(* _submit_protective_stop: version and controller are read, then submitted; a
   refusal is only logged. *)
ProtectiveRead(s) ==
    /\ \/ spc[s] = "read"
       \/ s = "idle" /\ spc[s] = "off" /\ idleRecovery = "running"
    /\ readAt' = [readAt EXCEPT ![s] = [ver |-> stateVersion, ctrl |-> controller]]
    /\ spc' = [spc EXCEPT ![s] = "submit"]
    /\ UNCHANGED <<vars, diskVars, hostVars, memVars, threadVars, seen, misses, used, fate, crashes>>

ProtectiveRequest(s, c) ==
    [cmd |-> c, ctrl |-> readAt[s].ctrl, valid |-> TRUE, ver |-> readAt[s].ver,
     kind |-> "internal", scope |-> None, ident |-> None]
ProtectiveSubmit(s) ==
    /\ spc[s] = "submit"
    /\ \E c \in Commands \ DOMAIN commands :     \* a fresh uuid
         LET req == ProtectiveRequest(s, c)
         IN  IF Verdict(req) = "accept"
             THEN Begin(req, "stop", s) /\ spc' = [spc EXCEPT ![s] = "execute"]
             ELSE spc' = [spc EXCEPT ![s] = "record"] /\ UNCHANGED <<vars, op, pc>>
    /\ readAt' = [readAt EXCEPT ![s] = None]
    /\ UNCHANGED <<diskVars, hostVars, memVars, lifeLock, ret, graceError, bootMarker, seen,
                   misses, used, fate, crashes>>

(* The end of the health thread, and of the deferred recovery thread. *)
ThreadEnds(s) ==
    /\ spc[s] = "record"
    /\ IF s = "idle" THEN IdleRecoveryEnds ELSE RecordTerminalFailure("probe_failed")
    /\ spc' = [spc EXCEPT ![s] = "off"]
    /\ UNCHANGED <<diskVars, hostVars, memVars, threadVars, seen, misses, readAt, used, fate, crashes>>

Watch(r) == Probe(r) \/ Publish(r) \/ AwaitIdle(r)
Protect(s) == ProtectiveRead(s) \/ ProtectiveSubmit(s) \/ ThreadEnds(s)

----------------------------------------------------------------------------
(* Supervisor.recover(), before the service reports itself running. *)

MarkerRun(m) == IF NeedsRecovery(m) THEN m.run ELSE Absent
MarkerOwner(m) == IF NeedsRecovery(m) THEN m.ctrl ELSE None

(* snapshot.read(): a file that is there may be unreadable or no valid snapshot, and
   then nothing is known of the run it names. *)
BootReads ==
    /\ pc["boot"] = "recover"
    /\ \E corrupt \in {FALSE, marker # None} :
         LET found == IF corrupt THEN None ELSE marker
         IN  /\ bootMarker' = found /\ memMarker' = found /\ observer' = NeedsRecovery(found)
             /\ RestoreResponsibility(MarkerRun(found), MarkerOwner(found), "recovering", None,
                                      None)
             /\ Goto("boot", IF corrupt THEN "corrupt" ELSE "orphans")
    /\ UNCHANGED <<diskVars, hostVars, child, configLock, capability, healthStop, runFailed, lifeLock, ret,
                   graceError, op, watchVars, used, fate, crashes>>

(* Orphaned observers of the old instance are stopped; a failure, a corrupt snapshot,
   or a baseline without a marker, ends the recovery in 'failed'. *)
BootOrphans ==
    /\ pc["boot"] \in {"orphans", "corrupt"}
    /\ \/ /\ pc["boot"] = "orphans" /\ (bootMarker # None \/ ~baseline)
          /\ Goto("boot", "stop") /\ UNCHANGED vars
       \/ /\ RestoreResponsibility(MarkerRun(bootMarker), MarkerOwner(bootMarker), "failed",
                                    "stop_failed", None)
          /\ Goto("boot", "done")
    /\ UNCHANGED <<diskVars, hostVars, memVars, lifeLock, ret, graceError, op, bootMarker,
                   watchVars, used, fate, crashes>>

(* Faulty: the verdict is not published. *)
BootForgets ==
    /\ pc["boot"] = "report"
    /\ ret' = [ret EXCEPT !["boot"] = None]
    /\ Goto("boot", "done")
    /\ UNCHANGED <<vars, diskVars, hostVars, memVars, lifeLock, graceError, op, bootMarker,
                   watchVars, used, fate, crashes>>
(* The verdict of the recovery's stop() is published after it returned. *)
BootReports ==
    /\ pc["boot"] = "report"
    /\ RestoreResponsibility(MarkerRun(bootMarker), MarkerOwner(bootMarker), ret["boot"].state,
            ret["boot"].reason,
            IF ret["boot"].outcome = Absent THEN None ELSE ret["boot"].outcome)
    /\ ret' = [ret EXCEPT !["boot"] = None]
    /\ Goto("boot", "done")
    /\ UNCHANGED <<diskVars, hostVars, memVars, lifeLock, graceError, op, bootMarker, watchVars,
                   used, fate, crashes>>

Boot == BootReads \/ BootOrphans \/ BootReports

----------------------------------------------------------------------------
(* The child dies by itself. *)
ChildDies ==
    /\ alive /\ alive' = FALSE
    /\ UNCHANGED <<vars, diskVars, env, memVars, threadVars, watchVars, used, fate, crashes>>

(* The service process dies: the Job kills the child, memory is lost, files and
   the environment stay; a new instance starts. *)
Crash ==
    /\ crashes < MaxCrashes /\ crashes' = crashes + 1
    /\ NewInstance
    /\ alive' = FALSE /\ UNCHANGED <<diskVars, env, used, fate>>
    /\ child' = None /\ memMarker' = None /\ configLock' = FALSE
    /\ capability' = "unverified" /\ observer' = FALSE /\ healthStop' = FALSE /\ runFailed' = FALSE
    /\ lifeLock' = "free"
    /\ pc' = [t \in Threads |-> IF t = "boot" THEN "recover" ELSE "idle"]
    /\ ret' = [t \in Threads |-> None] /\ graceError' = [t \in Threads |-> FALSE]
    /\ op' = None /\ bootMarker' = None
    /\ spc' = [s \in Submitters |-> "off"] /\ seen' = [r \in Runs |-> None]
    /\ misses' = [r \in Runs |-> 0] /\ readAt' = [s \in Submitters |-> None]

SNext ==
    \/ ClientSubmits \/ Execute \/ OpCompletes \/ OpRaises
    \/ Start
    \/ \E t \in Threads : Stop(t)
    \/ \E r \in Runs : Watch(r)
    \/ \E s \in Submitters : Protect(s)
    \/ Boot
    \/ ChildDies
    \/ Crash

(* Every thread of the process keeps running; clients need not submit, a child
   need not die and the process need not crash. *)
SFairness ==
    /\ WF_allVars(Execute \/ OpCompletes \/ OpRaises \/ Start \/ Stop("op"))
    /\ WF_allVars(Boot \/ Stop("boot"))
    /\ \A r \in Runs : WF_allVars(Watch(r))
    /\ \A s \in Submitters : WF_allVars(Protect(s))

SSpec == SInit /\ [][SNext]_allVars /\ SFairness

----------------------------------------------------------------------------
STypeOK ==
    /\ TypeOK
    /\ marker \in {None} \cup Markers /\ memMarker \in {None} \cup Markers
    /\ bootMarker \in {None} \cup Markers
    /\ baseline \in BOOLEAN /\ env \in {"clean", "dirty"} /\ alive \in BOOLEAN
    /\ child \in {None} \cup Children
    /\ capability \in {"unverified", "pending", "verified"} /\ observer \in BOOLEAN
    /\ configLock \in BOOLEAN /\ healthStop \in BOOLEAN /\ runFailed \in BOOLEAN
    /\ lifeLock \in Threads \cup {"free"}
    /\ ret \in [Threads -> {None} \cup Results]
    /\ graceError \in [Threads -> BOOLEAN]
    /\ op = None \/ op.cmd \in DOMAIN active
    /\ misses \in [Runs -> 0..1]
    /\ fate \in [Runs -> {"unknown", "failed", "stopping"}]
    /\ used \subseteq Runs /\ crashes \in 0..MaxCrashes

(* Nothing runs and nothing is recovering. *)
Quiet == op = None /\ pc["boot"] = "done" /\ DOMAIN active = {}

(* The coordinator, seen alone, behaves as module Coordinator says: no thread of
   the supervisor drives it in a way its own specification does not allow. *)
ImplementsCoordinator == Init /\ [][Next]_vars

(* Write-ahead responsibility: at every moment, and so after a crash at any
   moment, a live child or a changed network environment is covered by a marker
   on disk that says recovery is needed. *)
ResponsibilityIsOnDisk == alive \/ env = "dirty" => NeedsRecovery(marker)

(* When the service says 'stopped' and nothing executes, it is: no child, a
   clean environment, no pending marker, no configuration lock, no owner. *)
StoppedIsClean ==
    state = "stopped" /\ Quiet =>
        /\ ~alive /\ child = None /\ env = "clean"
        /\ ~NeedsRecovery(marker) /\ ~configLock
        /\ runId = None /\ controller = None

(* 'healthy' and 'degraded' are only said of a run that exists: it has its
   child, its marker and its owner, and they all agree. *)
ServingIsReal ==
    state \in {"healthy", "degraded"} =>
        /\ child # None /\ NeedsRecovery(marker)
        /\ runId = marker.run /\ controller = marker.ctrl /\ child.run = runId

(* From the moment a stop has revoked the health observations until it returns,
   no probe that was in flight reports the run as serving again. *)
NoServingDuringStop ==
    pc["op"] \in {"grace", "terminate", "settle", "fence", "register", "clear"} =>
        state \notin {"healthy", "degraded"}

(* A failed stop keeps the responsibility where the next attempt finds it: while
   the marker asks for recovery, the coordinator names that run and its owner.  Only
   an instance that has never been able to read the marker names nobody, and it says
   that it has failed. *)
ResponsibilityHasOwner ==
    Quiet /\ NeedsRecovery(marker) =>
        \/ runId = marker.run /\ controller = marker.ctrl
        \/ memMarker = None /\ state = "failed" /\ runId = None /\ controller = None

(* The types, and what the service says of a run: it serves only a run that exists, and
   none that a stop is tearing down; a run that is still answered for has its owner,
   unless this instance cannot read whose it is (Coordinator.submit, RealSupervisor._publish_health). *)
SupInv == STypeOK /\ ServingIsReal /\ NoServingDuringStop /\ ResponsibilityHasOwner

----------------------------------------------------------------------------
(* Statements the repository makes that the code does not keep; TLC has a
   counterexample to each under its own configuration. *)

(* Coordinator.needs_recovery: "True while a failure or exit responsibility is still
   owned."  So when nothing executes and the state is 'recovering', which shuts every
   client out, there is a responsibility to recover. *)
RecoveringIsOwned == Quiet /\ state = "recovering" => NeedsRecovery(marker)

(* _health_loop: "a slow accepted operation delays the stop instead of cancelling
   it."  So once no thread has anything pending, a run that was found failed has
   been attended to by a stop. *)
Settled == Quiet /\ idleRecovery = "none" /\ \A s \in Submitters : spc[s] \in {"off", "probe"}
ProtectionIsNotCancelled == Settled => \A r \in Runs : fate[r] # "failed"

=============================================================================
