# A TLA+ verification project for FakeNet-NG (MCP service edition)

This fork of FakeNet-NG turns the network simulation tool into a service that an
automated client drives over MCP: it accepts mutations from several controllers,
starts and stops a managed FakeNet child, restores the host's network when
anything dies, and intercepts packets with NAT tables that several threads share.
The modules here model the parts whose correctness depends on the order in which
threads, processes, timers and crashes happen. TLC checks them on small
instances; TLAPS proves every invariant, action property and refinement that a run
checks, for every value of the constants. Only liveness is left to the instances.

    tlc -workers 2 -config Coordinator.cfg MCCoordinator     (one run)
    tlapm SupervisorProofs.tla                               (one module's proofs)

`PROJECT.json` lists the runs, the source lines of every definition, one mutant
for every checked property and the hazards of the code.

## 1. Inventory

### The control plane (`fakenet/mcp`)

| Part | State it keeps | Operations | Interacts with | Hard behaviour, and what makes it correct |
|---|---|---|---|---|
| Mutation coordinator, `coordination.py` | service state, state version, run id, owning controller, failure reason, last outcome, command cache, active operations, exit flags, retained recovery | `submit` (three phases), `record_terminal_failure`, `begin_draining`, `fail_controlled_exit`, `update_health_state`, `restore_responsibility`, `recover_when_idle` | called by tools, supervisor, service stop | phase 2 runs without the lock. A request is executed at most once; overlapping operations are disjoint; receipts are final and go to their origin only; a fenced operation releases nothing |
| Lifecycle supervisor, `supervisor.py`, `snapshot.py` | recovery marker and baseline on disk, child, config lock, capability, observer, health thread | `start`, `stop`, `restart`, `recover`, health loop with protective stop | coordinator, child, disk, tools | crash between any two steps; a health verdict that is stale when published; a protective stop racing a client. What is alive or dirty is always covered by a marker; `stopped` is clean; everything accepted ends |
| Lifecycle tools, `tools.py` | none | the `execute()` callbacks | coordinator, supervisor | part of the composition |
| Controlled exit, `service_stop.py`, `winservice.py`, `cli.py` | worker, deadline, watchdog, `ready`/`committed`, result file, SCM state | pre-stop request, worker, watchdog, `SvcStop` | coordinator, supervisor, SCM | the deadline may pass between any two steps. An authorised exit leaves nothing behind, and an attempt always ends |
| Managed child and IPC, `managed.py`, `jobobject.py` | sequence numbers, response queue, writer threads, sticky failures, the Job | `initialize`, `request`, reader, child loop, `terminate`, `close` | supervisor, health thread, child | deadlines that pass inside a write or a read, late and altered answers, a child that hangs or dies. A caller gets the outcome of its own request or a failure; every request ends; a Job is given up only when it is empty |
| Config store and lock, `configstore.py`, `configlock.py` | custom files, audit log, activity lock | create, edit, rename, delete, load, lock at start | coordinator, supervisor, other programs | crash between staging, audit and replace; foreign writers; operations side by side. Audit first; a run uses what was pinned |
| Exit retention, intent, monitor, `exit_*.py`; diagnostic processes, `diagnostic_*.py` | target and helper handles, exchange files, intents, pending calls | `initialize`, watcher, `settle`, owner's dump; helper | supervisor, helper process, system | every diagnostic call may expire and take effect later. An exit is called normal only when it was authorised; what is released has ended |
| Host facade, `host_stdio.py`, `host_state.py`, `host_merge.py` | ledger of commands, results, two kinds of file lock | `verify` | guest service, remote executor, other facades | short-lived processes that die or time out while the executor goes on. One probe sequence per target; `pass` only of a guest that nobody else has changed |
| Artifacts, incidents, queries | published records, cursors | publish, page | supervisor, tools | publication against paging and crash. *Not modelled* |
| Transport, authentication, schemas | rate windows | per request | coordinator | little control. *Not modelled* |

### The data plane (`fakenet/diverters`, `fakenet/listeners`)

| Part | State it keeps | Operations | Interacts with | Hard behaviour, and what makes it correct |
|---|---|---|---|---|
| Per-process redirection, `processredirect.py` | forward, reverse and client tables, transactions, reservations, tombstones, pass list | `prepare_*`, `commit`, `abort`, `suspend`, `resume`, `close` | receiver, address refresh, watchdog | a SYN takes the lock twice with an owner query in between, and a packet is committed after it was sent. The tables agree; a late outcome never hits a later connection; nothing leaks |
| Domain egress policy, `egresspolicy.py` | relay mappings, tombstones, quotas, permits, leases | `create_relay_mapping`, `match_nat`, `consume`, `activate`, `close_mapping`, `register`/`commit`/`release` of permits, `suspend` | receiver, relay, DNS listener | four threads on tables with deadlines. Quotas are exact, a permit has a live worker, an unavailable policy holds nothing |
| TLS relay, `DomainEgressRelay.py` | connections, pending and active slots, stop and quiesce events | accept loop, worker per connection, `stop`, `quiesce` | policy, sockets | slots and sockets are released on every path |
| Diverter base, `diverterbase.py` | port and address forwarding, ignore table, sessions, proxy ports | packet callbacks, NBI logging | listeners, proxy | one client port in several uses. Answers come from where they were asked; indicators name the right program |
| Application and Windows diverter, `fakenet.py`, `diverterbase.py`, `windows.py` | listeners, handles, packet threads, capture files, watchdog, refresh, network restoration flag | start with rollback, stop by several callers, suspend, teardown | all of the above | failure at any step of start, joins that time out, two restorers, a lost receiver. `stop()` that says True left nothing behind |
| Linux diverter, `linux.py` | queues, rules | start, stop | base | *Not modelled* |
| Protocol listeners | per connection | emulation | diverter | *Not modelled; the proxy's port map is in PacketPath* |

`PROJECT.json` has the complete component list, including packet objects, capture
files, evidence analysis, the GUI and the test equipment, each with the reason it
is left out.

## 2. Modules

    Coordinator <-- Supervisor <-- ServiceExit       control plane

    ManagedCall <== ManagedChild                     the child and its channel
    ConfigStore   ExitRetention                      files, helpers, diagnostics
    HostFacade                                       the host side of a verification

    Application                                      start, stop and their threads
    ProcessRedirect   EgressRelay   PacketPath       data plane

`<--` is EXTENDS: the supervisor's steps call the coordinator's actions, and the
exit worker's steps call both. `<==` is a refinement: `ImplementsCall` says that
ManagedChild implements ManagedCall, and `ImplementsCoordinator` that every step of
Supervisor is a step of Coordinator or leaves it unchanged. An `MC...` module gives
each module a small instance. The theorems about a module `M` are in `MProofs`, which
extends it, except that `SupervisorProofs` holds those about Coordinator, Supervisor and
ServiceExit, which build on one another, and `DiverterProofs` those about EgressRelay and
PacketPath.

### Coordinator

`submit()` takes the metadata lock for phase 1 and for phase 3; each is one atomic action
(`Submit`, which is `Accept` or a refusal that changes nothing, and `Finish(c)`, which is
`Complete` or `Fail`). Between them, any other method may run. `Verdict(req)` is the
sequence of tests of phase 1 in the order of the code: draining or recovering, identity,
ownership, form, replay, busy, version. The cache is a function with insertion positions,
which is what an `OrderedDict` with eviction from the front is. A result is the record an
execution returns; a key that may be missing from the Python dict is `Absent`, which differs
from `None`. History variable: `accepted`, the requests executed by this instance. The event
log and the configuration identity are left out: nothing in the control depends on them.

### Supervisor

Adds the marker and the baseline (disk, survive `Crash`), the environment and the
child's Job (host, `alive`), and the memory of the supervisor. Threads: `op` runs
the accepted lifecycle operation, `boot` runs `recover()`, every run has its own
health thread, and `idle` is the coordinator's deferred recovery. A step ends
where the code leaves the process: a file, the child, the coordinator's lock.
`StopEnter` ... `StopClear` and `StartGuard` ... `StartBlame` are the steps of
`stop()` and `start()`; each step that can fail has its failing alternative, with
the order of cleanup the code has. Probes, child answers and file errors are
choices. A marker on disk may be unreadable at boot and at every stop: `recover()` then
restores neither run nor owner and ends in `failed`, a stop fails with what the
supervisor remembers. History variables: `used` (run ids are never reused) and `fate` (a
run that a health thread found failed, and whether a stop attended to it).

### ServiceExit

`Request` is the pre-stop handler, `Worker...` the phases of its worker,
`DeadlinePasses` and `Watchdog` the budget, `SvcStop` and `SvcExits` what the SCM
does with the result. The service accepts the control as soon as the pre-stop
object exists, so the worker overlaps `recover()` and any operation. Only with
it do two threads want the lifecycle lock, so `StopLockTimeout` is an action here.

### ProcessRedirect

`PrepareSyn` is the first critical section (reservation), `Resolve` the owner
query, `Insert` the second critical section, followed by the injection and
`CommitSent`, `InjectionFails`, `CommitFails` or `AbortFails`. `Suspend`, `Resume`
and `Close` are the other threads. Mappings are objects with identities, because
`_remove_mapping` compares identities. Deadlines are time left, lowered by `Tick`.

### EgressRelay

`CreateRelayMapping`, `MatchNat` and `UpstreamPacket` are the receiver;
`Accept`, `StartWorker`, `RejectMapping` the accept loop; `AddClient`, `TestStop`,
`HelloRead`, `AddUpstream`, `RegisterCommits`, `Activate`, `RelayEnds`,
`ReleaseSlot`, `CloseSockets`, `CloseMapping` a worker; `StopSets`, `StopCloses`,
`Quiesce` the teardown. Abstractions: whether a DNS lease covers a server is
chosen at every SYN; permits of DNS answers are not counted in the permit table;
matching a packet and sending it is one step that may fail; the event and the
aborts of `quiesce()` are one step; `close()` of the policy, which follows
`suspend()`, is the suspended state.

### ManagedCall and ManagedChild

ManagedCall is the promise of `request()`: numbered requests, one at a time, performed
in their order and at most once, an answer is the outcome of one's own request, and any
request may fail, before or after it was performed. ManagedChild has what implements it:
the lock with its deadline (`Request`, `Busy`, `Send`), the writer thread that may miss
its deadline and go on (`WriteTimesOut`, `WriterEnds`), the reader and its bounded
queue, the sticky failures, the child's loop (`ChildPerforms`, `ChildAnswers`,
`ChildRejects`), the injected response faults, the timer of a failed stop
(`QuiesceAfterFailedStop`), descendants in the Job, and `terminate`, `cleanup`, `close`.
History variables: `done`, `skipped`, `rejected`.

### Application

Control points `sp` (start), `fp` (`Fakenet.stop`) and `tp` (`Diverter.stop` or the
rollback of a failed start), two packet threads, the watchdog and the refresh worker.
Every step of `start()` may fail and enters the rollback of the code; every join may
time out, after which the thread is still there; the restoration of the network is
claimed under its lock and done outside it. The restoration succeeds, raises (which an
orderly stop reports), or fails in part and returns as if it had not (a command, a registry
value or the DNS service that cannot be set back is logged); the history variable `lost`
remembers what was only logged. One listener is stopped or started per step,
in the order of the code.

### PacketPath

One action per packet that the handler sees: `ClientSends`, `ListenerConnects` (a data
connection of a listener), `ServerReplies`, and the two reads by listeners that come
later, `LogNbi` and `MapProxySport`. The tables are functions keyed as in the code
(sessions by source port alone). The decision whether a conversation is ignored, the
port and address rewriting, the deletion of stale entries and the answer's path back are
the operators in between. ICMP, MultiHost mode and the formatting of packets are left out.

### ConfigStore

An operation goes through `Check`, `Stage`, `Audit` and `Replace`; `Accept` is the
coordinator's admission with the names it reserves. `LoadConfig` pins, `StartLocks`
takes the activity lock, `StartHashes` compares with the pin. `ExternalWrite` is any
other program; it cannot write a file that the activity lock holds open. A hash stands
for the content.

### ExitRetention

The watcher (`WatchPolls` ... `WatchDrains`), the release of what it holds (`Fin...`),
the stop of the supervisor with its intent, the helper (`Helper...`) and the diagnostic
calls between them. `ReadCall` and `PublishCall` answer, fail, or expire; an expired
call stays pending and `LateEnd` lets it have its effect later. Deadlines are flags that
may be set at any time. With a helper the expiry of the window releases through
`_finish()`, without one through `_finish_local()`; a helper whose Job still has members is
kept. A stop gives up after a failed or late `stacks` request, or a failed `publish()`;
only the deadline (a `TimeoutError`, which `publish()` does not raise) asks for the owner's
dump.

### HostFacade

A facade is a process that runs `verify` for a command, one step per meeting with the
disk, a lock, the guest or the executor. `Verify`, `Look`, `LockTarget`, `LookAgain`,
`Create` are the admission; `Run` ... `PostStatus` the verification; `FinalStatus`,
`SendFinal`, `FinalAnswer` the final consistency, which a reuse runs as well;
`WriteResult`, `Complete`, `Reuse`, `Reused`, `Refuse`, `Raise` the endings. A script
stays in `remote` until the executor has ended it, whatever the facade does meanwhile.
The guest is a run and a version, and its verification is an operation of a Coordinator.
The verdict is a choice as far as it depends on evidence. History variables: `touched`,
`sent`, `unsure`.

## 3. Runs

| Run | Instance | Shows |
|---|---|---|
| `coordinator` | 2 clients, 2 commands, 2 config names, cache of 1, version up to 3, one health/recovery/exit event at any point | `IInv` (the inductive invariant of the proofs: disjoint overlap, nothing served after a failed exit, and the facts they need), `ReplayOnlyToOrigin`, `RetryNeverReexecutes`, `ReceiptsAreFinal`, `FencedCompletionReleasesNothing` |
| `supervisor` | 1 client, 3 commands, 2 runs, 1 crash, initial disks with and without an earlier marker, which may be unreadable | `SupInv` (types, `ServingIsReal`, `NoServingDuringStop`, `ResponsibilityHasOwner`), `ResponsibilityIsOnDisk`, `StoppedIsClean`, `ImplementsCoordinator` |
| `service_exit` | 2 commands, 1 run, 1 attempt, 1 crash | `ExitInv` (types, and an authorised exit leaves no child, marker or dirty environment), `ExitAttemptEnds`, `RecoveryEnds`, `RetainedRecoveryRuns` |
| `managed_child` | the lifecycle operation and the health thread, 3 requests, queue of 2, 1 fault | `ChildInv` (types, the counters of the two ends agree, a closed Job is empty), `ImplementsCall`, `CallEnds`, `FailedStopResetsFlows` |
| `application` | 2 listeners, 2 threads that call `stop()` | `AppInv` (types, one restorer), `NoLateWrite`, `StopIsHonest`, `FailedStartIsUndone`, `LossIsAnswered`, `StopEnds` |
| `process_redirect` | 2 receivers, 2 flows of one client port, 3 object identities | `RedirectInv` (types, `TablesAgree`, `UnavailableIsEmpty`, `ReservationIsReleased`), `TombstoneOutlivesTransaction` |
| `egress_relay` | 3 flows, 2 client ports of one address, 2 connections, 1 active slot | `RelayInv` (types, `RelayTablesAgree`, `UnavailableHoldsNothing`, `PermitHasWorker`), `QuotasAreExact` |
| `packet_path` | 2 protocols on two client ports, one of which is also the proxy's, 2 programs (one on the blacklist), 4 destinations, 3 packets | `TablesAreCurrent`, `ReplyIsFromAsked`, `NbiIsAttributed` |
| `config_store` | 2 threads, 2 custom names and a builtin, 2 contents, 3 operations, 2 foreign writes, crashes | `AuditFirst`, `RunUsesPinned`, `AcknowledgedIsThere` |
| `exit_retention` | 1 process, 1 helper, a stop and its retry (`MaxStops` = 2) | `ReleasedIsEnded`, `NormalIsAuthorized`, `EvidenceIsKept` |
| `exit_retention_live` | the same with one stop | `WatchEnds` |
| `host_facade` | 2 facades, 2 commands on one target, 1 crash, 1 change of the guest, its health or the authorization | `HostInv` (types, a completed record has its result), `OneSequence`, `PassIsCurrent` |

**Why the bounds are enough.** *Coordinator*: two commands are the least that
overlap, evict one another and race a retry; a cache of one makes every completion
an eviction; the proofs remove the bounds anyway. *Supervisor*: two runs let the
health thread of an ended run meet its successor, three commands are start, stop
and a protective stop, one crash falls into every window of an execution and the
recovery after it starts from every disk it can leave. *ServiceExit*: one attempt,
because a second one starts from a state the first one leaves, with the fence set; two
commands, because at most one is in flight, one is cached and an evicted id is free again;
the crash makes the recovery start from what any point of a start or a stop leaves, and the
version bound leaves room for the client's operation, the exit's stop and a protective one.
*ManagedChild*: three requests are one that times out, one that meets its late answer,
and one after the channel has failed; a queue of two can overflow. *Application*: two
callers are an owner of `stop()` and one that waits; two listeners have an order.
*ProcessRedirect*: two flows of one client port collide in the client table, the
times keep the order 2 s < 3 s < 240 s of the code, and three identities allow an
identity to be reused while another thread still knows the old object.
*EgressRelay*: two generations let a late step of an ended connection meet its
successor on the same tuple, quotas of one make every second connection meet the
limit, the lives keep the order of the code's constants. *PacketPath*: three packets
are two uses of a port and one more by another protocol or program, with their answers
in any order; the second port is the proxy's as well, so that a client gets a port that
the proxy has had and the other way round; the tables are per endpoint, so further endpoints
only repeat this.
*ConfigStore*: three operations are two side by side and one on the name of the first.
*ExitRetention*: a retry is the only thing that makes a second intent, so two stops let a
claim, a write or a removal of the first meet the second; the watcher's end does not depend
on the number of intents, so one stop is enough for liveness. *HostFacade*: two
commands of one target, because the properties relate at most two; one change falls
between any two readings. Deadlock checking is off in all runs because the bounds
(versions, commands, requests, packets) end behaviours; that a wait ends is stated as
liveness instead.

Symmetry is used over interchangeable clients, commands, runs, names, receivers,
threads, contents, facades or flows, only in runs without liveness properties.

**Fairness.** Supervisor: weak fairness of the steps of the executing operation,
of `recover()`, of each health thread's loop and of its protective stop;
ServiceExit has the same while the process lives, and the exit worker; Coordinator has it
for `Finish` and `IdleRecoveryEnds`. ManagedChild: the steps of a caller inside `request()`, the reader,
`initialize` and the timer of a failed stop; none for the child, so `CallEnds` holds
with a child that never answers. Application: the threads of the instance and of
`stop()`, and the main thread's poll for a capture failure; none for packets, nor for a
`recv()` whose handle is open. ExitRetention: the watcher and the stop thread are
scheduled and the window's deadline passes; none for the helper, the target or a pending
diagnostic process. The code justifies it: these are running threads, and each of
their blocking calls (child answers, locks, probes, joins) has a deadline whose
expiry is one of the alternatives of the step. Client submissions, crashes,
failures, deaths of the child, SCM controls and ticks have no fairness.
ProcessRedirect, EgressRelay, PacketPath, ConfigStore and HostFacade state only safety.

## 4. Proofs

### SupervisorProofs: the coordinator

Proved from `CoordinatorConstants` alone (None and Absent are
not ordinary values, the cache limit and the version bound are positive), for
any clients, commands, names, runs and limits:

- `Inductive`: `Spec => []IInv`;
- `TypeCorrect`, `InFlight`, `Overlap`, `Reason`, `NeverServes`, `AtMostOnce`,
  `ReplayToOrigin`: the invariants that follow from it;
- `CompletionKeepsIt`, `Receipts`, `FencedCompletion`: action properties, proved
  per action from `IInv`.

`IInv` is the conjunction of `TypeOK` and ten facts. None of the properties is
inductive alone. That retries never execute again needs `AcceptedAtOlderVersion`:
an evicted receipt is protected only by the version test, so every executed
request must have named a version below the current one. That receipts go to
their origin needs `ReceiptHasOrigin`: the controller, kind and identity stored in
a cache entry are those of an executed request. Disjoint overlap needs
`InFlightIsKnown`: the active operations are exactly the entries in progress.
That nothing is served after a failed exit needs `OnlyStopsAfterFailedExit`: what
is still in flight and not fenced then can only be a stop. That a completion's
receipt survives the eviction at its own end needs `PositionsGrow` and
`CacheIsFinite`. `FenceHasReason` connects the fence with the failure it reports.

### SupervisorProofs: the supervisor

From `SupervisorConstants` (the reasons it uses exist, there is a client and an identity,
runs are not the names of the two other kinds of submitter) and `CoordinatorConstants`, for
any clients, commands and runs and any number of crashes:

- `SupInductive`: `SSpec => []SupIInv`;
- `DrivesCoordinator`: `SSpec => ImplementsCoordinator`. Every step of an operation, a
  health thread, a protective stop, the startup recovery and a crash is a step of the
  coordinator or leaves it alone, so all theorems about the coordinator hold of the
  composition, on every instance and not only on those TLC explores;
- `WriteAhead` (`ResponsibilityIsOnDisk`), `StoppedMeansClean` (`StoppedIsClean`),
  `SupervisorCorrect` (`SupInv`).

`SupIInv` conjoins the coordinator's `IInv` with what each thread may rely on at each of
its control points. `OneOperation`: the coordinator executes the supervisor's operation
and nothing else, so what a control point says of it needs no lock. `BootIsAlone`: while
`recover()` runs nothing else does. `Covered`: whatever exists (a process, a changed
environment, a child object, a configuration lock) has its marker, on disk and in memory.
`Remembered`: the marker, the coordinator's run and owner, and the child agree, except
between the steps of a start or a stop that change them one by one, and except in an instance
that could not read the marker. For that one there is `Unknown`: it names no run and no owner,
has no child, says that it has failed, and nothing but a stop gets past its guards until a
stop has read the marker and ended the run. This is the second alternative of
`ResponsibilityHasOwner`, and the reason why it is not simply "the run has its owner". `StopsAreSound`: the
answer a stop is about to give is one that the state it has reached justifies, in
particular that `stopped` is answered only past the last step that can fail. `StartFacts`,
`WatchFacts`: a health thread that may still publish belongs to the child that is there.
`StateFacts`, `ReportFacts` connect this with the state the coordinator reports.
`StoppedIsClean` fails to be inductive without all of them: the `stopped` that a completion
publishes was computed many steps earlier, beside health reports and deaths of the child.

### SupervisorProofs: the controlled exit

From `ServiceExitConstants` (a bound on the attempts; the worker's submission is none of
the other submitters') and the assumptions above, for any number of attempts and crashes:
`ExitInductive` (`XSpec => []ExitIInv`) and `CleanExit` (`ExitInv`).

`SupIInv` holds until an exit is requested and not after it: the worker's stop may overlap
the stop of the startup recovery, the one case that `BootIsAlone` excludes, and of the
coordinator only the types survive the completion of an operation that was overtaken. So
`ExitIInv` keeps `SupIInv` while nothing drains and has beside it `DrainInv`, which is
weaker and holds in both phases. `HaltFacts` says what a stop relies on at each of its
points whichever thread runs it and whoever else stops: two stops only ever take away, so
each finds what it has removed still removed, and a stop that has read its marker still finds
one on disk, whatever the other could read. `BootFacts`: beside the startup recovery there
is no operation but a stop, and never a child. `RunFacts` and `CoverFacts` are what is left
of the supervisor's facts about a start and of the marker. `LockFacts` says where the
lifecycle lock is held: a stop can time out on it only once the exit drains, since before
that the startup recovery and an operation never run side by side. `WorkerFacts`: once the
worker's stop was accepted only stops are in flight, and from the check of its outcome on,
through publication, record, commit and the SCM's stop, the host stays clean (`Verified`).
That the check found a clean host rests on `OpFacts`: a stop answers `stopped` only past its
last step that can fail.

### ManagedChildProofs

From `ManagedConstants` (finitely many threads, a queue with room for one answer), for any
number of threads, requests and faults:

- `ChannelInductive`, `ChildCorrect` (`ChildInv`);
- `RequestImplementsCall`: `Spec => ImplementsCall`. The pipes, the writer threads that a
  deadline abandons, the reader, the bounded queue and the sticky failures implement a
  call that returns the outcome of what the child did for that very request, or fails.

The refinement needs `Numbered`, `Performed` and `HonestResponses`: every response on its
way, in the pipe, the queue or the child's hand, carries the number and the outcome of
something in the child's history; `OneWriter` and `InOrder`: at most one message of the
current number is still unread, whichever thread writes it; `Room`: a request is only
numbered while numbers are left.

### ApplicationProofs

From `ApplicationConstants` (there is a listener and somebody who calls `stop()`), for any
list of listeners and any number of callers: `AppInductive`, `AppCorrect` (`AppInv`),
`LateWrite` (`NoLateWrite`), `HonestStop` (`StopIsHonest`), `UndoneStart`
(`FailedStartIsUndone`). `AppIInv` says what each point of start, teardown and stop may rely
on (`StartPhases`, `StopPhases`), that a join that was recorded as successful found its
thread ended (`Joined`), which handles and files are closed past which point (`Closed`),
who has claimed the restoration (`Restoration`) and which listeners have stopped
(`Drained`). `StopIsHonest` is about threads, handles, files, listeners and the policy, and
says that the restoration of the network has been carried to its end by somebody; it excepts
the parts of it that failed and were only logged, because the code does: that `True` means a
restored network is `TrueMeansRestored`, which TLC refutes (section 6).

### ConfigStoreProofs

From `StoreConstants`, for any names, contents, threads, foreign writers and crashes:
`StoreInductive`, `PinnedRun` (`RunUsesPinned`), `Acknowledged` (`AcknowledgedIsThere`),
`Audited` (`AuditFirst`, an action property, which also says that no change, a rename
included, leaves a custom file under a builtin's name) and `BuiltinNames`. The invariant needs that
operations side by side reserve different names, that what an operation read is still there
unless somebody outside wrote, and that the lock is on the pinned file.

### HostFacadeProofs

From `HostConstants`, for any number of facades, commands, crashes and changes of the
guest: `HostInductive`, `OrderOfFiles` (`HostInv`), `OneSequenceAtATime` (`OneSequence`),
`CurrentPass` (`PassIsCurrent`). The invariant ties each facade's place to its locks
(`Locked`), to the record on disk (`RecordFollows`), to what was sent (`SentFollows`) and to
what the executor may still run (`AnsweredFollows`); `Ledger` says that a record left by a
facade that died or timed out keeps the target whenever a script of it may be running.

### ProcessRedirectProofs

From `ConstantsAssumption`, `TimesAssumption` (the order of the code's constants, 2 s < 3 s
<= 240 s) and `ReceiversAssumption`, for any flows, clients, processes, limits and mapping
objects: `RedirectInductive`, `EngineTables` (`RedirectInv`), `LateOutcome`
(`TombstoneOutlivesTransaction`). The invariant is stated of the tables as an operator
(`Sound`), because a step cleans up and then opens a transaction; `Admitting` says that
nothing of an earlier connection of a flow is in flight while its owner is asked for.
`ReceiversAssumption` limits the receivers to two. The diverter starts one; with three the
tables need not agree, because the second critical section of `prepare` looks neither at
tombstones nor at the reservation again (section 6). The attempt to prove it without the
assumption is what showed this.

### DiverterProofs: the egress relay

From `RelayTimes` (positive lifetimes, and the rewrite's grace shorter than the refusal of
the tuple, 5 s < 120 s in the code) and `RelayConstants`, for any flows, clients and
sources, any limits and any number of connections: `RelayInductive`, `RelayCorrect`
(`RelayInv`), `ExactQuotas` (`QuotasAreExact`). As in ProcessRedirectProofs the invariant
of the tables is an operator of their state (`Sound`), since nearly every step cleans up
before its own work; one lemma says for each operation of `EgressPolicy` that its result is
`Sound`, and `Follows` says what it leaves to the relay (no mapping appears or becomes
active, the addresses of a mapping stay). `Handed` says that a mapping has at most one
worker, that the worker or the accept loop came by it through `consume_relay_target`, and
that only a worker past `activate_relay_mapping` has an active one, which is why activation
moves exactly one unit from one quota to the other. `SlotOf` ties the slot to the worker's
place. `QuotasAreExact` needs `Found` as well: only a mapping of the generation table is
ever active, and it is released exactly when it leaves that table. The proof of
`CreateRelayMapping` shows that the test for a collision in the reverse table in
`create_relay_mapping` never succeeds (`FreeTuple`): a cleaned reverse entry is live or its
client is still refused.

### DiverterProofs: the packet path

From `PathConstants` (the default listener is bound and not hidden, a client's port is not a
server's, the service is none of the other programs), `PathDestinations` and `PathNone`, for
any programs, addresses, ports and exemption lists and any number of packets:
`PathInductive`, `TablesCurrent` (`TablesAreCurrent`), `RepliesFromAsked`
(`ReplyIsFromAsked`), `NbiAttributed` (`NbiIsAttributed`). `PathInv` has four parts.
`KeysInv`: only packets of client endpoints leave entries, answers never do. `InboxInv`: a
request that waits for its answer is seen under its client's port, and at the port where the
tables put it. `TableInv`: the two forwarding entries of an endpoint whose latest packet is
not ignored are those of that packet, or absent where it was not rewritten. `SessionInv`:
the session of a source port is that of its latest packet that is known and not ignored.

The four theorems have one hypothesis that is not an assumption of the module, because the
repository does not exclude what it excludes. `NoLocalServers`: no program of the host
talks to another server of the same host that is not a listener. Without it a late answer of
an ignored conversation, redirected after the client port was reused, leaves an entry under
the server's own port, and later requests look like answers (`IgnoredPath.cfg` shows the
redirection); the instance of `packet_path` satisfies it (`Services = {}`). The proxy and the
clients may share any ports. `NbiIsAttributed` covers the requests that reach a listener
through the proxy, and those that a client makes directly from a port that the proxy has not
had; for the others TLC refutes the attribution (`ReusedProxyPort.cfg`, section 6).

### ExitRetentionProofs

From `RetentionConstants` (there is a stop), for any number of stops and retries:
`RetentionInductive`, `Released` (`ReleasedIsEnded`), `Authorization`
(`NormalIsAuthorized`), `Evidence` (`EvidenceIsKept`, an action property). Every diagnostic
call may have its effect after it expired, so the invariant follows what can still arrive.
`TargetInv`: the target stays pinned until it has exited; `HelperInv`: which files prove
that a helper exists, and that it holds the flight while it works; `DumpInv`: the owner's dump
is written under the flight and where no dump was; `IntentInv`: an intent that was revoked, while it was
current or still being published, is never current again, also when the retry's intent is
current and the earlier one is claimed; `AnswerInv`: the answer is written once, and a late one only when the
watcher has given up; `ReleaseInv`: the watcher and `settle()` never release side by side;
`ReportInv`: a report says no more than what is known. The
last is the heart of `NormalIsAuthorized`: the class is decided long before it is
reported, and `Authorized` lists what makes it final.

**Model-checked only.** Liveness (`RecoveryEnds`, `RetainedRecoveryRuns`,
`ExitAttemptEnds`, `CallEnds`, `FailedStopResetsFlows`, `LossIsAnswered`, `StopEnds`,
`WatchEnds`): it needs fairness and ENABLED, which are out of the prover's reach. Every other
property of a run is the statement of a theorem.

## 5. Mutants

For every property of a run `PROJECT.json` names a definition and a plausible wrong
version of it kept beside it in the module (`StartUnmarked`, `RegisterBlindly`,
`AnyIsOwn`, `ClaimsBlindly`, `BlocksUnlessFailed`, ...): with it in place the run finds
the property violated. These definitions are used by nothing else.

## 6. What the code does not keep

Sentences of the repository that TLC refutes. Each has a statement in its module and
a configuration that reproduces the trace with the module's `MC...` instance.

| Configuration | Statement | What the code does | What the repository says |
|---|---|---|---|
| `RecoveringOwned.cfg` | `RecoveringIsOwned` | a restart whose second half is refused early leaves `recovering` with nothing to recover, and all clients are refused | `coordination.py:290` "True while a failure or exit responsibility is still owned." |
| `ProtectionCancelled.cfg` | `ProtectionIsNotCancelled` | a client mutation accepted between the protective stop's read and its submission makes it be refused, and it is not retried | `supervisor.py:389-390` "... delays the stop instead of cancelling it." |
| `FencedStop.cfg` | `FencedStopKeepsMarker` | a stop that is fenced after its test, while artifacts are registered, still clears the marker | `supervisor.py:561` "late operation cannot clear recovery responsibility" |
| `StaleReservation.cfg` | `ReservationIsRevalidated` | suspend and resume during the owner query: the second critical section checks neither reservation nor generation | the design document asks for both to be verified after the lock is taken again |
| `PassList.cfg` | `PassListExcludesRedirected` | a flow stays on the pass list when its next connection belongs to the audited process | `processredirect.py:191-192` |
| `RelayTeardown.cfg` | `StopIsTranslated` | `stop()` suspends the policy before the relay closes its client sockets, so their FIN is not translated | `fakenet.py:471-472` |
| `DrainSuspended.cfg` | `DrainStaysSuspended` | the refresh worker tests `_stopping` (`windows.py:2558`), reads the routes in a subprocess, and then resumes the engine (`:2617`) that an orderly stop has suspended | `windows.py:1407` "so watchdog/refresh workers cannot misclassify that drain window" |
| `HostOwnership.cfg` | `TimeoutRetainsOwnership` | the final script and the one of a reuse may time out and run on; the record is completed and another command gets the target | `host_stdio.py:1302-1303` "A timeout from this point retains target ownership." |
| `IgnoredPath.cfg` | `IgnoredIsNotForwarded` | the ignore table has one entry per client endpoint: with two ignored destinations in turn the answer of the first is forwarded | `diverterbase.py:632` "does not erroneously trigger port forwarding" |
| `Contained.cfg` | `Contained` | the port of a data connection that a listener opened stays in `blacklist_ports` for good, and exempts the program that gets the port next | the purpose of the tool |
| `SilentRestore.cfg` | `TrueMeansRestored` | a command, a registry value or a service that cannot be set back is only logged (`windows.py:2766-2768`, `2789-2791`; `winutil.py:1104-1174`, `1840-1842`), `_network_restored` keeps every later stop from another attempt, and `stop()` returns True with the network still changed | `diverterbase.py:1138-1142` "change network settings back to normal. Returns: True if successful, else False" |
| `ReusedProxyPort.cfg` | `NbiOfReusedPort` | `proxy_sport_to_orig_sport_map` is never cleaned: the proxy connects from a port for one client, another client gets that port and asks a listener directly, and its indicator is put down to the first client | `diverterbase.py:2419-2421` "For non-proxied nbis, use listener provided is_ssl_encrypted and sport." |
| `HelperLeft.cfg` | `NoHelperLeft` | a helper that starts after the scan is not seen | `exit_retention.py:419-421` |

Further observations met while modelling:

- a late `record_terminal_failure` of one run can fail its successor, and a failed
  run can later be reported as `ok`;
- after a refused restart, `run_id` can name a run that has ended;
- `recover()` may publish a verdict it formed before an exit was authorised;
- `coordination.py:6` says that all mutations execute strictly serially, while
  config operations with disjoint names overlap by design;
- with three receivers `TablesAgree` of ProcessRedirect would not hold; the
  diverter starts one, the run uses two;
- a 3 s tombstone can overwrite a 240 s one, and suspend drops pending new
  mappings without a tombstone;
- a relay worker between its quiesce test and its registration is neither refused
  nor aborted by `quiesce()` (`DomainEgressRelay.py:264` and `430`);
- the SYN of a permitted or redirected flow is never recorded by
  `_is_new_tcp_syn`, so after a revocation its packets count as established
  (`windows.py:1950`);
- a relay worker's pause after an infrastructure failure can outlast the pending
  mapping, after which the close to the client is not translated;
- a `worker.start()` that raises after `_acquire_pending` (`DomainEgressRelay.py:316`)
  would end the accept loop with the slot and the mapping held; the model's threads always
  start;
- the coordinator compares reserved names as strings (`coordination.py:302`), Windows does
  not tell file names apart by case; in ConfigStore a name is a file, so two spellings of
  one file are not modelled;
- the relay's slot is released before the NAT's, so a new worker can be promoted
  by the relay and refused by the NAT;
- a Job query that raises between the numbering of a request and its sending leaves
  parent and child one number apart, and the child ends itself at the next request
  (the exception in `SequenceIsAgreed`); the managed child ignores a `stop()` of the
  application that returned False;
- a marker that cannot be read at boot (`snapshot.py:95-100`, a transient error of the file
  system is enough) leaves a run that needs recovery without run and owner in the
  coordinator, in `failed` with `corrupt recovery snapshot`; then any client may send the
  stop, and it recovers the run if it can read the marker (the exception in
  `ResponsibilityHasOwner`);
- the watchdog and `stop()` may call a listener's `stop()` at the same time; the inbound
  loop can take the closing of its handle for a capture failure;
- the entries of an ignored conversation are not removed from the forwarding tables
  (`diverterbase.py:2213`), and an indicator's destination port may be that of an earlier conversation;
- a foreign writer between the check and `os.replace` is overwritten; a crash between
  the audit line and the replacement leaves an `ok` line for a change that never
  happened, and one before it leaves its staging file; a refusal may write two audit
  lines where `configstore.py:15-17` promises one;
- a stop intent that is revoked between the last check of the watcher and its report is
  not seen by the report (`NormalIsAuthorized` counts the revocations before the
  helper's end);
- the facade's reuse sends its script without the target's lock; an exception that is no
  `HostFacadeError` before any script was sent marks the record and keeps the target for
  good; when the facade's own guest verification was refused, another client's single
  operation is taken for it (the verdict is then never `pass`).

## 7. Plan

No safety property of a run is left without its theorem. What would extend the project:

1. the publication of artifacts against paging and crashes, and the event cursors, the one
   stateful part of the service without a module;
2. the Linux diverter, as a second instance of the lifecycle that Application models;
3. liveness on larger instances, since it stays with TLC.

## 8. Not modelled

The modules cover the parts in which order matters: the coordinator, the supervisor and
its exit, the child, the configuration store, exit retention, the host's ledger, the
application's lifecycle and the three NATs. The larger part of the repository's lines is
elsewhere and offers a model checker little:

- the graphical interface, the acceptance and build tools: orchestration outside the
  product;
- evidence, attribution, endpoint traces, baseline comparison, payload reports, the egress
  contract: computations over recorded data, sequential and without shared state;
- protocol listeners and packet formats: emulation and parsing per connection;
- WinDivert, registry, netfilter, SCM, firewall and native calls: I/O whose outcomes are
  choices of the modelled actions;
- the Linux diverter and the Linux runner: a smaller second version of what Application
  and Supervisor model for Windows;
- artifact publication and event cursors: the one remaining stateful part of the service;
- in EgressRelay a worker thread that cannot be created, and in ConfigStore names that differ
  only in case (section 6);
- test doubles and fault injection: the failure alternatives of the actions.
