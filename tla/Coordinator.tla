---------------------------- MODULE Coordinator ----------------------------
(***************************************************************************)
(* The mutation coordinator of the FakeNet-NG MCP service                  *)
(* (fakenet/mcp/coordination.py, class Coordinator).                       *)
(*                                                                         *)
(* Every mutation goes through submit(), which has three phases.  Phase 1  *)
(* (Accept / a refusal) and phase 3 (Complete) each run under the metadata *)
(* lock and are one action here; phase 2, the execution of the operation,  *)
(* runs unlocked, so between Accept and Complete every other method of the *)
(* coordinator may run.  What an execution decides is a result record; the *)
(* modules that extend this one compute it, this one takes any result the  *)
(* operation's kind can produce.                                           *)
(***************************************************************************)
EXTENDS Integers, FiniteSets

CONSTANTS
    Clients,        \* controller identities (X-FakeNet-Controller-ID)
    Commands,       \* command ids
    Names,          \* configuration names, the conflict scopes are sets of them
    Runs,           \* run ids
    Idents,         \* semantic identities of verification requests
    Reasons,        \* failure reasons
    None,           \* Python's None
    Absent,         \* a key that is missing from a result dict
    CacheLimit,     \* COMMAND_CACHE_LIMIT
    MaxVersion      \* bound: state_version never exceeds it

States == {"stopped", "starting", "healthy", "degraded", "recovering", "failed"}
Outcomes == {"ok", "failed"}
ClientKinds == {"lifecycle", "load_config", "config", "verify_egress"}
Kinds == ClientKinds \cup {"internal"}
Verdicts == {"not_allowed", "identity_missing", "controller_conflict", "invalid",
             "busy", "state_conflict", "replay", "replay_error", "accept"}

ASSUME CoordinatorConstants ==
    /\ None \notin Clients \cup Runs \cup Idents \cup Reasons \cup Outcomes
    /\ \A scope \in SUBSET Names : scope # None
    /\ Absent \notin {None} \cup Runs \cup States \cup Outcomes
    /\ CacheLimit \in Nat \ {0}
    /\ MaxVersion \in Nat \ {0}

Scopes == {None} \cup SUBSET Names
Requests == [cmd : Commands, ctrl : Clients \cup {None}, valid : BOOLEAN, ver : Nat,
             kind : Kinds, scope : Scopes, ident : Idents \cup {None}]

VARIABLES
    state, stateVersion, runId, controller, failureReason, lastOutcome,
    commands,       \* the command cache: id -> entry, an OrderedDict
    nextPos,        \* the insertion position of the next new key of commands
    active,         \* _active_operations: id -> scope
    draining, exitFailure, exitFenced,
    idleRecovery,   \* _idle_recovery and _idle_recovery_running
    accepted        \* history: every request this instance has executed

metaVars == <<state, stateVersion, runId, controller, failureReason, lastOutcome>>
cacheVars == <<commands, nextPos, active>>
exitVars == <<draining, exitFailure, exitFenced>>
vars == <<metaVars, cacheVars, exitVars, idleRecovery, accepted>>

(* What submit() stores as 'response': of its fields, the state and the run. *)
Responses == [state : States, run : Runs \cup {None}]
Entries == [ctrl : Clients \cup {None}, kind : Kinds, ident : Idents \cup {None},
            status : {"in_progress", "completed", "failed"}, resp : Responses, pos : Nat]

TypeOK ==
    /\ state \in States
    /\ stateVersion \in 1..MaxVersion
    /\ runId \in Runs \cup {None}
    /\ controller \in Clients \cup {None}
    /\ failureReason \in Reasons \cup {None}
    /\ lastOutcome \in Outcomes \cup {None}
    /\ DOMAIN commands \subseteq Commands
    /\ \A c \in DOMAIN commands : commands[c] \in Entries
    /\ nextPos \in Nat
    /\ DOMAIN active \subseteq Commands
    /\ \A c \in DOMAIN active : active[c] \in Scopes
    /\ draining \in BOOLEAN
    /\ exitFailure \in Reasons \cup {None}
    /\ exitFenced \subseteq Commands
    /\ idleRecovery \in {"none", "retained", "running"}
    /\ accepted \subseteq Requests

----------------------------------------------------------------------------
(* The execution results that reach phase 3.  run = Absent: no 'run_id' key;
   state = Absent: no 'state' key; outcome = Absent: no 'last_run_outcome'. *)
Results == [state : States \cup {Absent}, run : Runs \cup {None, Absent},
            ctrl : Clients \cup {None}, reason : Reasons \cup {None},
            release : BOOLEAN, changed : BOOLEAN, outcome : Outcomes \cup {None, Absent}]

(* Supervisor._result('stopped'): the run is over and its owner let go. *)
StoppedResults ==
    [state : {"stopped"}, run : {None}, ctrl : {None}, reason : Reasons \cup {None},
     release : {TRUE}, changed : BOOLEAN, outcome : Outcomes \cup {Absent}]
(* Supervisor._result('failed'): nothing is released and the reason is given;
   run and owner are repeated from the marker, if there is one. *)
FailedResults ==
    [state : {"failed"}, run : Runs, ctrl : Clients, reason : Reasons,
     release : {FALSE}, changed : {TRUE}, outcome : {"failed"}]
    \cup
    [state : {"failed"}, run : {Absent}, ctrl : {None}, reason : Reasons,
     release : {FALSE}, changed : {TRUE}, outcome : {"failed"}]
(* A successful start or restart. *)
StartedResults ==
    [state : {"healthy"}, run : Runs, ctrl : Clients, reason : {None},
     release : {FALSE}, changed : {TRUE}, outcome : {Absent}]
(* A configuration mutation or a verification: no lifecycle key at all. *)
PlainResults ==
    [state : {Absent}, run : {Absent}, ctrl : {None}, reason : {None},
     release : {FALSE}, changed : BOOLEAN, outcome : {Absent}]
(* The stop tool with nothing to stop. *)
NoopResults ==
    [state : {"stopped"}, run : {Absent}, ctrl : {None}, reason : {None},
     release : {FALSE}, changed : {FALSE}, outcome : {Absent}]
(* load_config repeats the state it saw; while it executes nothing changes it (the
   refinement run of Supervisor checks that). *)
EchoResults ==
    [state : {state}, run : {Absent}, ctrl : {None}, reason : {None},
     release : {FALSE}, changed : BOOLEAN, outcome : {Absent}]

ResultsOf(kind) ==
    CASE kind = "lifecycle"   -> StartedResults \cup StoppedResults \cup FailedResults
                                 \cup NoopResults
      [] kind = "internal"    -> StoppedResults \cup FailedResults
      [] kind = "load_config" -> EchoResults
      [] OTHER                -> PlainResults

----------------------------------------------------------------------------
(* Coordinator.__init__, and AppContext which moves a service that has a real
   supervisor to 'recovering' before it serves. *)
Init ==
    /\ state \in {"stopped", "recovering"}
    /\ stateVersion = 1
    /\ runId = None /\ controller = None /\ failureReason = None /\ lastOutcome = None
    /\ commands = <<>> /\ nextPos = 0 /\ active = <<>>
    /\ draining = FALSE /\ exitFailure = None /\ exitFenced = {}
    /\ idleRecovery = "none"
    /\ accepted = {}

Without(f, c) == [x \in DOMAIN f \ {c} |-> f[x]]
With(f, c, v) == [x \in DOMAIN f \cup {c} |-> IF x = c THEN v ELSE f[x]]

(* Faulty: the names that configuration work reserves are not compared. *)
ConflictsByKind(scope) ==
    /\ DOMAIN active # {}
    /\ \/ state # "stopped" \/ controller # None
       \/ \E c \in DOMAIN active : active[c] = None \/ scope = None
(* _active_conflicts: disjoint configuration work may overlap, and only while
   the service is cleanly stopped. *)
ActiveConflicts(scope) ==
    /\ DOMAIN active # {}
    /\ \/ state # "stopped"
       \/ controller # None
       \/ \E c \in DOMAIN active :
            active[c] = None \/ scope = None \/ active[c] \cap scope # {}

(* Faulty: the owner of the command id is not compared. *)
ReplayVerdictForAnyone(req, entry) ==
    IF entry.ident # None /\ req.ident # None /\ entry.ident # req.ident THEN "invalid"
    ELSE IF entry.status = "failed" THEN "replay_error" ELSE "replay"
(* Faulty: a failed command may be tried again under its id. *)
ReplayVerdictRetries(req, entry) ==
    IF entry.ctrl # req.ctrl THEN "controller_conflict"
    ELSE IF entry.status = "failed" THEN "accept" ELSE "replay"
(* Is the cached command of req.cmd the request req asks about?  The checks of
   submit() on a cache hit, in their order. *)
ReplayVerdict(req, entry) ==
    IF entry.ctrl # req.ctrl THEN "controller_conflict"
    ELSE IF entry.kind # req.kind /\ "verify_egress" \in {entry.kind, req.kind}
    THEN "invalid"
    ELSE IF entry.ident # None /\ req.ident # None /\ entry.ident # req.ident
    THEN "invalid"
    ELSE IF entry.status = "failed" THEN "replay_error" ELSE "replay"

(* Faulty: a request from an older version passes. *)
NotNewer(req) == req.ver <= stateVersion
(* The version gate. *)
VersionMatches(req) == req.ver = stateVersion

(* Phase 1 of submit(): the gates in the order the code tests them. *)
Verdict(req) ==
    IF /\ draining \/ state = "recovering" \/ idleRecovery # "none"
       /\ req.kind # "internal"
    THEN "not_allowed"
    ELSE IF ~req.valid THEN "identity_missing"
    ELSE IF controller # None /\ req.ctrl # controller THEN "controller_conflict"
    ELSE IF req.ctrl = None /\ req.kind # "internal" THEN "identity_missing"
    ELSE IF req.kind = "verify_egress" /\ req.ident = None THEN "invalid"
    ELSE IF req.cmd \in DOMAIN commands THEN ReplayVerdict(req, commands[req.cmd])
    ELSE IF ActiveConflicts(req.scope) THEN "busy"
    ELSE IF ~VersionMatches(req) THEN "state_conflict"
    ELSE "accept"

Accept(req) ==
    /\ Verdict(req) = "accept"
    /\ stateVersion < MaxVersion
    /\ stateVersion' = stateVersion + 1
    /\ active' = With(active, req.cmd, req.scope)
    /\ commands' = With(commands, req.cmd,
           [ctrl |-> req.ctrl, kind |-> req.kind, ident |-> req.ident,
            status |-> "in_progress", pos |-> nextPos,
            resp |-> [state |-> state, run |-> runId]])
    /\ nextPos' = nextPos + 1
    /\ accepted' = accepted \cup {req}
    /\ UNCHANGED <<state, runId, controller, failureReason, lastOutcome,
                   exitVars, idleRecovery>>

----------------------------------------------------------------------------
(* _finish_operation: the eviction it ends with.  The completed commands are
   kept in insertion order down to the newest CacheLimit; a command that is
   still in flight is never evicted. *)
Newer(cs, act, c) == {d \in DOMAIN cs \ DOMAIN act : cs[d].pos > cs[c].pos}
Evict(cs, act) ==
    LET kept == {c \in DOMAIN cs : \/ c \in DOMAIN act
                                   \/ Cardinality(Newer(cs, act, c)) < CacheLimit}
    IN  [c \in kept |-> cs[c]]

(* Faulty: the retained recovery is never started. *)
DispatchNothing(act, retained) == retained
(* _dispatch_idle_recovery, called when an operation ends or a recovery is
   handed over: the retained recovery starts once nothing is in flight. *)
DispatchIdleRecovery(act, retained) ==
    IF DOMAIN act = {} /\ retained = "retained" THEN "running" ELSE retained

(* Phase 2 raised: the exception is the receipt; the state stays as it is. *)
Fail(c) ==
    /\ c \in DOMAIN active
    /\ active' = Without(active, c)
    /\ commands' = Evict([commands EXCEPT ![c].status = "failed"], active')
    /\ idleRecovery' = DispatchIdleRecovery(active', idleRecovery)
    /\ UNCHANGED <<metaVars, nextPos, exitVars, accepted>>

(* Faulty: only the state is fenced, not the release. *)
FencedState(c, res) ==
    IF c \in exitFenced THEN [res EXCEPT !.state = "failed", !.reason = exitFailure] ELSE res
(* A completion that a failed controlled exit overtook keeps the failure and
   every responsibility. *)
Fenced(c, res) ==
    IF c \in exitFenced
    THEN [res EXCEPT !.state = "failed", !.reason = exitFailure, !.release = FALSE,
                     !.run = IF res.run = None THEN Absent ELSE res.run]
    ELSE res

(* Faulty: the owner is not released. *)
NewControllerKept(res) == IF res.ctrl # None THEN res.ctrl ELSE controller

NewState(res) == IF res.state = Absent THEN state ELSE res.state
NewRun(res) == IF res.run = Absent THEN runId ELSE res.run
NewController(res) ==
    IF res.release THEN None ELSE IF res.ctrl # None THEN res.ctrl ELSE controller
(* Only a completion that leaves the service outside 'failed' clears the reason. *)
NewReason(res) ==
    IF res.reason # None THEN res.reason
    ELSE IF NewState(res) = "failed" THEN failureReason ELSE None
NewOutcome(res) ==
    IF res.outcome # Absent THEN res.outcome
    ELSE IF res.release /\ res.changed /\ res.state = "stopped" THEN "ok" ELSE lastOutcome

(* Phase 3.  _finish_operation runs first, so a command that was overtaken by
   CacheLimit newer ones loses its place; storing the response puts it back at
   the end, and the second _finish_operation evicts the oldest instead. *)
Complete(c, result) ==
    /\ c \in DOMAIN active
    /\ LET res == Fenced(c, result)
           left == Evict(commands, Without(active, c))
           entry == [commands[c] EXCEPT
                       !.status = "completed",
                       !.pos = IF c \in DOMAIN left THEN @ ELSE nextPos,
                       !.resp = [state |-> NewState(res), run |-> NewRun(res)]]
       IN /\ state' = NewState(res)
          /\ runId' = NewRun(res)
          /\ controller' = NewController(res)
          /\ failureReason' = NewReason(res)
          /\ lastOutcome' = NewOutcome(res)
          /\ commands' = Evict(With(left, c, entry), Without(active, c))
          /\ nextPos' = IF c \in DOMAIN left THEN nextPos ELSE nextPos + 1
    /\ active' = Without(active, c)
    /\ exitFenced' = exitFenced \ {c}
    /\ idleRecovery' = DispatchIdleRecovery(active', idleRecovery)
    /\ UNCHANGED <<stateVersion, draining, exitFailure, accepted>>

----------------------------------------------------------------------------
(* The methods other threads call between the phases. *)

RecordTerminalFailure(reason) ==
    /\ state' = IF state = "stopped" THEN state ELSE "failed"
    /\ runId' = IF state = "stopped" THEN None ELSE runId
    /\ controller' = IF state = "stopped" THEN None ELSE controller
    /\ failureReason' = reason
    /\ lastOutcome' = "failed"
    /\ UNCHANGED <<stateVersion, cacheVars, exitVars, idleRecovery, accepted>>

BeginDraining ==
    /\ draining' = TRUE
    /\ UNCHANGED <<metaVars, cacheVars, exitFailure, exitFenced, idleRecovery, accepted>>

FailControlledExit(reason) ==
    /\ draining' = TRUE
    /\ exitFailure' = reason
    /\ exitFenced' = exitFenced \cup DOMAIN active
    /\ state' = "failed"
    /\ failureReason' = reason
    /\ UNCHANGED <<stateVersion, runId, controller, lastOutcome, cacheVars, idleRecovery,
                   accepted>>

(* An observation, not a mutation.  After a failed controlled exit nothing is
   reported as serving again. *)
UpdateHealthState(s, reason) ==
    LET revoked == exitFailure # None /\ s \in {"healthy", "starting", "degraded"}
    IN  /\ state' = IF revoked THEN "failed" ELSE s
        /\ failureReason' = IF revoked THEN exitFailure ELSE reason
        /\ UNCHANGED <<stateVersion, runId, controller, lastOutcome, cacheVars, exitVars,
                       idleRecovery, accepted>>

(* run and owner are those of a marker that needs recovery, Absent otherwise. *)
RestoreResponsibility(run, owner, s, reason, outcome) ==
    /\ state' = s
    /\ failureReason' = reason
    /\ lastOutcome' = IF outcome = None THEN lastOutcome ELSE outcome
    /\ runId' = IF s = "stopped" THEN None ELSE IF run = Absent THEN runId ELSE run
    /\ controller' = IF s = "stopped" THEN None
                     ELSE IF run = Absent THEN controller ELSE owner
    /\ UNCHANGED <<stateVersion, cacheVars, exitVars, idleRecovery, accepted>>

(* recover_when_idle: at most one recovery is retained. *)
RecoverWhenIdle ==
    /\ idleRecovery' = DispatchIdleRecovery(active,
           IF idleRecovery = "none" THEN "retained" ELSE idleRecovery)
    /\ UNCHANGED <<metaVars, cacheVars, exitVars, accepted>>

(* The recovery thread's finally clause. *)
IdleRecoveryEnds ==
    /\ idleRecovery = "running"
    /\ idleRecovery' = "none"
    /\ UNCHANGED <<metaVars, cacheVars, exitVars, accepted>>

(* The service process dies and starts again: a new coordinator, a new cache. *)
NewInstance ==
    /\ state' = "recovering"
    /\ stateVersion' = 1
    /\ runId' = None /\ controller' = None /\ failureReason' = None /\ lastOutcome' = None
    /\ commands' = <<>> /\ nextPos' = 0 /\ active' = <<>>
    /\ draining' = FALSE /\ exitFailure' = None /\ exitFenced' = {}
    /\ idleRecovery' = "none"
    /\ accepted' = {}

----------------------------------------------------------------------------
(* What the tools and the service's own threads submit: the scope is the set of
   touched names for a configuration mutation and None (everything) otherwise;
   only a verification has a semantic identity; an internal stop is submitted
   with the controller its thread read.  A late or repeated request may carry
   any version, but only the current one can be accepted. *)
WellFormed(req) ==
    /\ req.scope = None <=> req.kind # "config"
    /\ req.ident # None => req.kind = "verify_egress"
    /\ req.kind = "internal" => req.valid

Submissions ==
    {req \in [cmd : Commands, ctrl : Clients \cup {None}, valid : BOOLEAN,
              ver : {stateVersion}, kind : Kinds, scope : Scopes,
              ident : Idents \cup {None}] : WellFormed(req)}

Submit == \E req \in Submissions : Accept(req)
Finish(c) == Fail(c) \/ \E res \in ResultsOf(commands[c].kind) : Complete(c, res)

(* What the health thread, the start operation and the startup recovery publish. *)
Observe ==
    \/ UpdateHealthState("healthy", None)
    \/ UpdateHealthState("recovering", None)
    \/ \E r \in Reasons : UpdateHealthState("degraded", r) \/ UpdateHealthState("failed", r)
Restore ==
    \E run \in Runs \cup {Absent}, owner \in Clients, outcome \in Outcomes \cup {None} :
        \/ run # Absent /\ RestoreResponsibility(run, owner, "starting", None, None)
        \/ RestoreResponsibility(run, owner, "recovering", None, None)
        \/ RestoreResponsibility(run, owner, "stopped", None, outcome)
        \/ \E r \in Reasons : RestoreResponsibility(run, owner, "failed", r, outcome)

Next ==
    \/ Submit
    \/ \E c \in DOMAIN active : Finish(c)
    \/ Observe
    \/ Restore
    \/ \E r \in Reasons : RecordTerminalFailure(r)
    \/ BeginDraining
    \/ \E r \in Reasons : FailControlledExit(r)
    \/ RecoverWhenIdle
    \/ IdleRecoveryEnds
    \/ NewInstance

(* Every operation has a deadline of its own and ends, and the recovery thread
   runs; nothing else has to happen. *)
Fairness ==
    /\ \A c \in Commands : WF_vars(c \in DOMAIN active /\ Finish(c))
    /\ WF_vars(IdleRecoveryEnds)

Spec == Init /\ [][Next]_vars /\ Fairness

----------------------------------------------------------------------------
(* Operations that overlap touch disjoint names: a lifecycle operation, a load
   or a verification (scope None) is always alone.  _active_conflicts decides
   it when an operation is accepted; nothing re-checks it later. *)
OverlapIsDisjoint ==
    \A c, d \in DOMAIN active :
        c # d => active[c] # None /\ active[d] # None /\ active[c] \cap active[d] = {}

(* A retry of a command that is in flight finds the original: the command is in
   the cache, marked in progress, however many newer ones completed meanwhile;
   and nothing is marked in progress that is not executing. *)
InFlightIsKnown ==
    /\ DOMAIN active \subseteq DOMAIN commands
    /\ \A c \in DOMAIN commands : commands[c].status = "in_progress" <=> c \in DOMAIN active

(* A request that was executed once is never executed again by this instance,
   even after its receipt was evicted from the cache: whatever answer a blind
   retry gets (a replay, a conflict, busy), it is not accepted. *)
RetryNeverReexecutes == \A req \in accepted : Verdict(req) # "accept"

(* A receipt is replayed only to the controller whose request was executed
   under that command id, only while no other controller owns the run, and a
   verification's receipt only for the same verification request. *)
ReplayOnlyToOrigin ==
    \A req \in Submissions :
        Verdict(req) \in {"replay", "replay_error"} =>
            /\ controller \in {None, req.ctrl}
            /\ \E orig \in accepted :
                 /\ orig.cmd = req.cmd /\ orig.ctrl = req.ctrl
                 /\ "verify_egress" \in {orig.kind, req.kind} =>
                        orig.kind = req.kind /\ orig.ident = req.ident

(* A failed service always has a reason; in particular the completion of an
   unrelated configuration mutation does not erase it. *)
FailedHasReason == state = "failed" => failureReason # None

(* After a failed controlled exit the service is never reported as serving
   again, whatever the operations that were in flight or the health probe
   still report; clients stay shut out. *)
NeverServesAfterFailedExit ==
    exitFailure # None => draining /\ state \notin {"healthy", "degraded"}

(* The final receipt of a command does not change while the cache holds it. *)
ReceiptsAreFinal ==
    [][\A c \in DOMAIN commands \cap DOMAIN commands' :
          commands[c].status # "in_progress" => commands'[c] = commands[c]]_vars

(* The receipt of an operation that completes is in the cache afterwards, even
   if CacheLimit newer commands finished while it was executing. *)
CompletionKeepsReceipt ==
    [][\A c \in DOMAIN active :
          (\E res \in ResultsOf(commands[c].kind) : Complete(c, res)) =>
              c \in DOMAIN commands' /\ commands'[c].status = "completed"]_vars

(* An operation that a failed controlled exit overtook cannot release the run,
   its owner or the failure when it finally completes. *)
FencedCompletionReleasesNothing ==
    [][\A c \in exitFenced \ exitFenced' :
          exitFailure' # None =>
              /\ state' = "failed" /\ failureReason' = exitFailure
              /\ runId # None => runId' # None
              /\ controller # None => controller' # None]_vars

(* The inductive strengthening the proofs rest on.  Positions grow, so the receipt
   that is put back last is the newest; every executed request was accepted at an
   older version; a fence is only set by a failed exit; and once an exit failed,
   whatever is still executing is fenced or is an internal stop.  Every receipt has
   the request it answers. *)
PositionsGrow == \A c \in DOMAIN commands : commands[c].pos < nextPos
CacheIsFinite == IsFiniteSet(DOMAIN commands)
AcceptedAtOlderVersion == \A req \in accepted : req.ver < stateVersion
FenceHasReason == exitFenced # {} => exitFailure # None
OnlyStopsAfterFailedExit ==
    exitFailure # None =>
        \A c \in DOMAIN active : c \in exitFenced \/ commands[c].kind = "internal"

Origin(c, req) ==
    /\ req.cmd = c /\ req.ctrl = commands[c].ctrl
    /\ req.kind = commands[c].kind /\ req.ident = commands[c].ident
    /\ req.kind = "verify_egress" => req.ident # None
ReceiptHasOrigin == \A c \in DOMAIN commands : \E req \in accepted : Origin(c, req)

IInv ==
    /\ TypeOK
    /\ InFlightIsKnown
    /\ OverlapIsDisjoint
    /\ PositionsGrow
    /\ CacheIsFinite
    /\ AcceptedAtOlderVersion
    /\ FenceHasReason
    /\ FailedHasReason
    /\ NeverServesAfterFailedExit
    /\ OnlyStopsAfterFailedExit
    /\ ReceiptHasOrigin

=============================================================================
