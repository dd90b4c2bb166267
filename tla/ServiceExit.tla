----------------------------- MODULE ServiceExit -----------------------------
(***************************************************************************)
(* The two-phase stop of the Windows service (service_stop.py and          *)
(* winservice.py) over the supervisor.  A pre-stop control starts a worker *)
(* that drains the coordinator, converges the run with an internal stop    *)
(* and, if all of that fits its budget, authorizes the SCM stop.  The      *)
(* service accepts the control as soon as the pre-stop object exists, so   *)
(* the worker may overlap the startup recovery and any operation.          *)
(***************************************************************************)
EXTENDS Supervisor

CONSTANT MaxAttempts    \* bound: how many pre-stop workers are started

(* What the operation thread may execute here: also the worker's own stop. *)
ExitOperations ==
    [cmd : Commands, prog : Programs, by : Submitters \cup {"client", "prestop"},
     ctrl : Clients \cup {None}, run : Runs \cup {None}, then : {"return", "start", "blame"}]

ASSUME ServiceExitConstants ==
    MaxAttempts \in Nat /\ "prestop" \notin Submitters /\ None \notin ExitOperations

VARIABLES
    worker,     \* control point of the pre-stop worker thread
    exitRead,   \* the version and controller the worker read for its submission
    converged,  \* the state its submission answered
    ready,      \* ServiceStop.ready: the SCM is told that STOP is accepted
    committed,  \* ServiceStop._committed
    expired,    \* the current attempt's deadline has passed
    complete,   \* the event that disarms the watchdog
    attempts,
    phase,      \* disk: the phase in the result file
    svc         \* the SCM state of the service

exitState == <<worker, exitRead, converged, ready, committed, expired, complete, attempts, phase,
               svc>>
everything == <<allVars, exitState>>

XInit ==
    /\ SInit
    /\ worker = "off" /\ exitRead = None /\ converged = None
    /\ ready = FALSE /\ committed = FALSE /\ expired = FALSE /\ complete = TRUE
    /\ attempts = 0 /\ phase = "idle" /\ svc = "running"

StopAuthorized == ready /\ committed /\ ~expired

----------------------------------------------------------------------------
(* ServiceStop.request, from the pre-stop control handler. *)
Draining ==
    /\ svc = "running" /\ worker = "off" /\ ~StopAuthorized
    /\ attempts < MaxAttempts
    /\ DOMAIN active = {} \/ attempts = 0
    /\ BeginDraining
    /\ ready' = FALSE /\ committed' = FALSE /\ attempts' = attempts + 1
Request ==
    /\ Draining
    /\ phase' = "draining"
    /\ expired' = FALSE /\ complete' = FALSE /\ worker' = "wait"
    /\ UNCHANGED <<supVars, exitRead, converged, svc>>
(* The result file could not be written: the control is refused, no worker runs. *)
RequestNotWritten ==
    /\ Draining
    /\ UNCHANGED <<supVars, worker, exitRead, converged, expired, complete, phase, svc>>

(* ServiceStop._fail: the coordinator is fenced, the file says so. *)
ExitFails ==
    /\ FailControlledExit("exit_failed")
    /\ ready' = FALSE /\ committed' = FALSE /\ phase' = "failed"
WorkerFails ==
    /\ ExitFails
    /\ worker' = "off" /\ complete' = TRUE /\ exitRead' = None /\ converged' = None
    /\ UNCHANGED <<supVars, expired, attempts, svc>>

(* wait_for_idle(inflight_limit). *)
WorkerWaits ==
    /\ worker = "wait"
    /\ \/ /\ DOMAIN active = {} /\ worker' = "read"
          /\ UNCHANGED <<vars, supVars, exitRead, converged, ready, committed, expired, complete,
                         attempts, phase, svc>>
       \/ DOMAIN active # {} /\ pc["op"] \notin {"finish", "raise"} /\ WorkerFails

(* converge: version and controller are read, then the internal stop is submitted;
   a refusal fails the attempt. *)
WorkerReads ==
    /\ worker = "read"
    /\ exitRead' = [ver |-> stateVersion, ctrl |-> controller] /\ worker' = "submit"
    /\ UNCHANGED <<vars, supVars, converged, ready, committed, expired, complete, attempts, phase,
                   svc>>
ExitRequest(c) ==
    [cmd |-> c, ctrl |-> exitRead.ctrl, valid |-> TRUE, ver |-> exitRead.ver,
     kind |-> "internal", scope |-> None, ident |-> None]
(* Faulty: a refused submission is repeated as it is. *)
WorkerInsists ==
    /\ worker = "submit"
    /\ \E c \in Commands \ DOMAIN commands : Begin(ExitRequest(c), "stop", "prestop")
    /\ worker' = "converge" /\ exitRead' = None
    /\ UNCHANGED <<diskVars, hostVars, memVars, lifeLock, ret, graceError, bootMarker,
                   watchVars, used, fate, crashes, converged, ready, committed, expired,
                   complete, attempts, phase, svc>>
WorkerSubmits ==
    /\ worker = "submit"
    /\ \E c \in Commands \ DOMAIN commands :
         IF Verdict(ExitRequest(c)) = "accept"
         THEN /\ Begin(ExitRequest(c), "stop", "prestop")
              /\ worker' = "converge" /\ exitRead' = None
              /\ UNCHANGED <<diskVars, hostVars, memVars, lifeLock, ret, graceError, bootMarker,
                             watchVars, used, fate, crashes, converged, ready, committed, expired,
                             complete, attempts, phase, svc>>
         ELSE WorkerFails

(* Faulty: the answer of the stop is not looked at. *)
WorkerTrusts ==
    /\ worker = "check"
    /\ IF expired THEN WorkerFails
       ELSE /\ worker' = "publish" /\ converged' = None
            /\ UNCHANGED <<vars, supVars, exitRead, ready, committed, expired, complete, attempts,
                           phase, svc>>
(* The convergence is judged: in time, 'stopped', and nothing is owned. *)
WorkerChecks ==
    /\ worker = "check"
    /\ IF ~expired /\ converged = "stopped"
          /\ state = "stopped" /\ runId = None /\ controller = None
       THEN /\ worker' = "publish" /\ converged' = None
            /\ UNCHANGED <<vars, supVars, exitRead, ready, committed, expired, complete, attempts,
                           phase, svc>>
       ELSE WorkerFails

(* Under the pre-stop lock, so that the watchdog waits: STOP acceptance is
   published to the SCM, then the success file is written, then the attempt is
   committed; the deadline is looked at before each of them and at the end. *)
WorkerPublishes ==
    /\ worker = "publish"
    /\ \/ /\ ~expired /\ ready' = TRUE /\ worker' = "record"
          /\ UNCHANGED <<vars, supVars, exitRead, converged, committed, expired, complete,
                         attempts, phase, svc>>
       \/ WorkerFails
WorkerRecords ==
    /\ worker = "record"
    /\ \/ /\ ~expired /\ phase' = "succeeded" /\ worker' = "commit"
          /\ UNCHANGED <<vars, supVars, exitRead, converged, ready, committed, expired, complete,
                         attempts, svc>>
       \/ WorkerFails
WorkerCommits ==
    /\ worker = "commit"
    /\ IF expired THEN WorkerFails
       ELSE /\ committed' = TRUE /\ complete' = TRUE /\ worker' = "off"
            /\ UNCHANGED <<vars, supVars, exitRead, converged, ready, expired, attempts, phase, svc>>

Worker ==
    \/ WorkerWaits \/ WorkerReads \/ WorkerSubmits \/ WorkerChecks
    \/ WorkerPublishes \/ WorkerRecords \/ WorkerCommits

(* Time: the deadline passes, before or after the attempt is committed. *)
DeadlinePasses ==
    /\ attempts > 0 /\ ~expired /\ (worker # "off" \/ committed) /\ expired' = TRUE
    /\ UNCHANGED <<vars, supVars, worker, exitRead, converged, ready, committed, complete, attempts,
                   phase, svc>>
(* The watchdog cannot have the lock while the worker publishes. *)
Watchdog ==
    /\ expired /\ ~complete /\ worker \in {"wait", "read", "submit", "converge", "check"}
    /\ phase # "failed"
    /\ ExitFails
    /\ UNCHANGED <<supVars, worker, exitRead, converged, expired, complete, attempts, svc>>

(* SvcStop: refused unless authorized; then the service shuts down. *)
SvcStop ==
    /\ svc = "running" /\ StopAuthorized /\ svc' = "stop_pending"
    /\ UNCHANGED <<vars, supVars, worker, exitRead, converged, ready, committed, expired, complete,
                   attempts, phase>>
(* service_main returns once its recover() has, and the process ends. *)
SvcExits ==
    /\ svc = "stop_pending" /\ pc["boot"] = "done" /\ svc' = "stopped"
    /\ UNCHANGED <<vars, supVars, worker, exitRead, converged, ready, committed, expired, complete,
                   attempts, phase>>

(* A step of the supervisor; when it ends the worker's own operation the worker
   gets the answer, and when it is a crash the worker is gone with the process. *)
SupervisorSteps ==
    /\ svc # "stopped"
    /\ SNext
    /\ IF crashes' # crashes
       THEN /\ worker' = "off" /\ exitRead' = None /\ converged' = None
            /\ ready' = FALSE /\ committed' = FALSE /\ expired' = FALSE /\ complete' = TRUE
            /\ attempts' = 0 /\ phase' = "idle" /\ svc' = "running"
       ELSE /\ IF op # None /\ op' = None /\ op.by = "prestop"
               THEN worker' = "check" /\ converged' = state'
               ELSE UNCHANGED <<worker, converged>>
            /\ UNCHANGED <<exitRead, ready, committed, expired, complete, attempts, phase, svc>>

(* stop() could not have the lifecycle lock in time.  Only here do two threads want
   it: the worker's stop and that of the startup recovery. *)
StopLockTimeout(t) ==
    /\ svc # "stopped" /\ pc[t] = "stop" /\ lifeLock \notin {"free", t}
    /\ ret' = [ret EXCEPT ![t] = FailedResult(memMarker, "stop_failed")]
    /\ Goto(t, AfterStop(t, FailedResult(memMarker, "stop_failed")))
    /\ runFailed' = TRUE
    /\ UNCHANGED <<vars, diskVars, hostVars, child, memMarker, configLock, capability, observer,
                   healthStop, lifeLock, graceError, op, bootMarker, watchVars, used, fate, crashes,
                   exitState>>

XNext ==
    \/ SupervisorSteps
    \/ \E t \in Threads : StopLockTimeout(t)
    \/ Request \/ RequestNotWritten
    \/ Worker
    \/ DeadlinePasses \/ Watchdog
    \/ SvcStop \/ SvcExits

(* The threads of Supervisor's fairness, while the process lives, and the worker,
   whose waits all have a timeout. *)
XFairness ==
    LET Alive(A) == A /\ SupervisorSteps
    IN  /\ WF_everything(Alive(Execute \/ OpCompletes \/ OpRaises \/ Start \/ Stop("op"))
                          \/ StopLockTimeout("op"))
        /\ WF_everything(Alive(Boot \/ Stop("boot")) \/ StopLockTimeout("boot"))
        /\ WF_everything(Worker)
        /\ \A r \in Runs : WF_everything(Alive(Watch(r)))
        /\ \A s \in Submitters : WF_everything(Alive(Protect(s)))

XSpec == XInit /\ [][XNext]_everything /\ XFairness

----------------------------------------------------------------------------
XTypeOK ==
    /\ STypeOK
    /\ worker \in {"off", "wait", "read", "submit", "converge", "check", "publish", "record",
                   "commit"}
    /\ exitRead \in {None} \cup [ver : 1..MaxVersion, ctrl : Clients \cup {None}]
    /\ converged \in {None} \cup States
    /\ ready \in BOOLEAN /\ committed \in BOOLEAN /\ expired \in BOOLEAN /\ complete \in BOOLEAN
    /\ attempts \in 0..MaxAttempts
    /\ phase \in {"idle", "draining", "succeeded", "failed"}
    /\ svc \in {"running", "stop_pending", "stopped"}

(* The service goes only when there is nothing left to recover: from the moment
   the SCM stop is authorized no child lives, the environment is clean and the
   marker on disk asks for nothing. *)
ExitIsClean ==
    StopAuthorized \/ svc # "running" =>
        ~alive /\ child = None /\ env = "clean" /\ ~NeedsRecovery(marker)

(* The types, and a clean exit: ServiceStop._run authorizes only what it has verified. *)
ExitInv == XTypeOK /\ ExitIsClean

(* A pre-stop attempt ends, with its authorization or its failure. *)
ExitAttemptEnds == worker # "off" ~> worker = "off" \/ svc = "stopped"

(* The startup recovery ends, whatever a crash left behind and although the exit's stop may
   hold the lifecycle lock, unless the service is told to stop meanwhile: then there is
   nothing left to recover (RealSupervisor.recover; ExitIsClean). *)
RecoveryEnds ==
    pc["boot"] # "done" ~> (pc["boot"] = "done" /\ state # "recovering") \/ svc # "running"

(* A recovery that is handed over while an operation is in flight does run and end, also
   when an exit drains or fails (Coordinator.recover_when_idle). *)
RetainedRecoveryRuns == idleRecovery = "retained" ~> idleRecovery = "none" \/ svc # "running"

(* Supervisor.stop: "late operation cannot clear recovery responsibility".  So an
   operation that a failed controlled exit has fenced never clears the marker. *)
FencedStopKeepsMarker ==
    [][NeedsRecovery(marker) /\ op # None /\ op.cmd \in exitFenced /\ pc["op"] = "clear"
        /\ pc'["op"] # "clear" /\ crashes' = crashes => NeedsRecovery(marker')]_everything

=============================================================================
