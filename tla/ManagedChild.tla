---------------------------- MODULE ManagedChild ----------------------------
(***************************************************************************)
(* The process that runs FakeNet under the MCP service and the channel to  *)
(* it: fakenet/mcp/managed.py (ManagedProcess in the service, child_main   *)
(* in the child) and jobobject.py (the Job that contains the child and     *)
(* what it starts).                                                        *)
(*                                                                         *)
(* In the service: several threads call request(), which serialises them   *)
(* by a lock, writes by a helper thread it joins until the deadline, and   *)
(* waits for the answer in a queue that the reader thread fills; the       *)
(* thread of the lifecycle operation ("op") also creates the process, ends *)
(* its Job and closes the handles.  In the child: one loop that performs   *)
(* the requests.  Any of them may be overtaken by a deadline, by the death *)
(* of the child, or by the Job's end.                                      *)
(***************************************************************************)
EXTENDS Naturals, Sequences, FiniteSets

CONSTANTS
    Callers,        \* the threads of the service that call request()
    Uses,           \* [Callers -> the kinds of request each makes]
    MaxSeq,         \* bound: the number of requests
    QueueLimit,     \* capacity of the queue of responses (64 in the code)
    MaxFaults       \* bound: injected IPC faults and failing Job queries

Kinds == {"ready", "start", "health", "stacks", "stop"}

ASSUME ManagedConstants ==
    /\ IsFiniteSet(Callers) /\ "op" \in Callers /\ "free" \notin Callers
    /\ Uses \in [Callers -> SUBSET Kinds]
    /\ MaxSeq \in Nat /\ QueueLimit \in Nat \ {0} /\ MaxFaults \in Nat

Failed == [kind |-> "failed", ok |-> FALSE]      \* request() raised
EOF == [seq |-> 0, kind |-> "eof", ok |-> FALSE]   \* the exception the reader puts into the queue

VARIABLES
    stage,          \* "new", "job", "spawned", "up" (initialized) or "closed"
    owner,          \* control point of the thread that initializes, ends and closes
    sequence, lockedBy,                     \* _sequence, the holder of _lock
    at, kind, seq, answer,                  \* [Callers -> ...] request()'s locals
    writing,        \* the messages of writer threads that have not ended
    stdin, stdout,  \* the two pipes
    responses,      \* the queue
    reader,         \* the reader thread: "off", "on" or "ended"
    protocolFailure, readFailure, writeFailed,
    root,           \* the child: "none", "alive" or "exited"
    others,         \* some other process of the Job is alive
    loop,           \* the child's loop: the last number, and the answer not yet written
    instance,       \* the child's instance of Fakenet is not None
    resets,         \* the timer of a failed stop: "none", "armed" or "ran"
    channelClosed,  \* the child closed its end (injected)
    faults,         \* faults so far
    done,           \* history: what the child performed, [kind, ok]
    skipped,        \* history: a Job query raised after its request was numbered
    rejected        \* history: the child met an unexpected number

ownerVars == <<stage, owner, reader>>
callerVars == <<sequence, lockedBy, at, kind, seq, answer>>
flagVars == <<protocolFailure, readFailure, writeFailed>>
pipeVars == <<writing, stdin, stdout, responses>>
childVars == <<root, others, loop, instance, resets, channelClosed, done, rejected>>
history == <<faults, skipped>>
vars == <<ownerVars, callerVars, flagVars, pipeVars, childVars, history>>

Nothing == [seq |-> 0, kind |-> "nothing", ok |-> FALSE]

Init ==
    /\ stage = "new" /\ owner = "init" /\ reader = "off" 
    /\ sequence = 0 /\ lockedBy = "free"
    /\ at = [c \in Callers |-> "idle"] /\ kind = [c \in Callers |-> "stacks"]
    /\ seq = [c \in Callers |-> 0] /\ answer = [c \in Callers |-> Failed]
    /\ protocolFailure = FALSE /\ readFailure = FALSE /\ writeFailed = FALSE
    /\ writing = {} /\ stdin = <<>> /\ stdout = <<>> /\ responses = <<>>
    /\ root = "none" /\ others = FALSE /\ loop = [last |-> 0, reply |-> Nothing]
    /\ instance = FALSE /\ resets = "none" /\ channelClosed = FALSE
    /\ done = <<>> /\ rejected = FALSE
    /\ faults = 0 /\ skipped = FALSE

----------------------------------------------------------------------------
(* initialize(): the Job and the pipes, the process inside the Job, then the reader.
   A failure leaves what exists to cleanup(). *)

CreateJob ==
    /\ owner = "init" /\ stage = "new" /\ stage' = "job"
    /\ UNCHANGED <<owner, reader, callerVars, flagVars, pipeVars, childVars, history>>

Spawn ==
    /\ owner = "init" /\ stage = "job" /\ stage' = "spawned" /\ root' = "alive"
    /\ UNCHANGED <<owner, reader, callerVars, flagVars, pipeVars, others, loop,
                   instance, resets, channelClosed, done, rejected, history>>

StartReader ==
    /\ owner = "init" /\ stage = "spawned"
    /\ stage' = "up" /\ reader' = "on" /\ owner' = "serve"
    /\ UNCHANGED <<callerVars, flagVars, pipeVars, childVars, history>>

InitializeFails ==
    /\ owner = "init" /\ owner' = "serve"
    /\ UNCHANGED <<stage, reader, callerVars, flagVars, pipeVars, childVars, history>>

Initialize == CreateJob \/ Spawn \/ StartReader \/ InitializeFails

(* ManagedProcess.alive() *)
Alive == stage \notin {"new", "closed"} /\ root = "alive"

----------------------------------------------------------------------------
(* request() in thread c. *)

Leave(c, outcome) ==
    /\ at' = [at EXCEPT ![c] = "idle"] /\ answer' = [answer EXCEPT ![c] = outcome]
    /\ lockedBy' = "free" /\ kind' = [kind EXCEPT ![c] = "stacks"]
    /\ seq' = [seq EXCEPT ![c] = 0] /\ UNCHANGED sequence

Request(c) ==
    /\ at[c] = "idle" /\ stage \in {"up", "closed"} 
    /\ sequence + Cardinality({d \in Callers : at[d] = "lock"}) < MaxSeq
    /\ c = "op" => owner = "serve"
    /\ \E k \in Uses[c] : kind' = [kind EXCEPT ![c] = k]
    /\ at' = [at EXCEPT ![c] = "lock"] /\ answer' = [answer EXCEPT ![c] = Failed]
    /\ UNCHANGED <<ownerVars, sequence, lockedBy, seq, flagVars, pipeVars,
                   childVars, history>>

(* The deadline passes before the lock is free: nothing was numbered or sent. *)
Busy(c) ==
    /\ at[c] = "lock" /\ lockedBy # "free"
    /\ at' = [at EXCEPT ![c] = "idle"] /\ answer' = [answer EXCEPT ![c] = Failed]
    /\ kind' = [kind EXCEPT ![c] = "stacks"]
    /\ UNCHANGED <<ownerVars, sequence, lockedBy, seq, flagVars, pipeVars,
                   childVars, history>>

(* The failures that are final for the channel. *)
Usable == Alive /\ ~protocolFailure /\ ~readFailure /\ ~writeFailed

(* The lock is free: the request gets its number, and is written by a thread of its own
   if the channel is usable. *)
Send(c) ==
    /\ at[c] = "lock" /\ lockedBy = "free" /\ Usable
    /\ lockedBy' = c /\ at' = [at EXCEPT ![c] = "sent"]
    /\ sequence' = sequence + 1 /\ seq' = [seq EXCEPT ![c] = sequence + 1]
    /\ writing' = writing \cup {[seq |-> sequence + 1, kind |-> kind[c]]}
    /\ UNCHANGED <<ownerVars, kind, answer, flagVars, stdin, stdout, responses, childVars,
                   history>>

(* A number is spent and nothing is sent. *)
Spend(c) ==
    /\ at[c] = "lock" /\ lockedBy = "free" /\ sequence' = sequence + 1
    /\ at' = [at EXCEPT ![c] = "idle"] /\ kind' = [kind EXCEPT ![c] = "stacks"]
    /\ UNCHANGED <<ownerVars, lockedBy, seq, answer, flagVars, pipeVars, childVars>>

Refuse(c) == Spend(c) /\ ~Usable /\ UNCHANGED <<faults, skipped>>

(* alive() asks the Job, and that query raises: no flag is set. *)
QueryRaises(c) ==
    /\ Spend(c) /\ faults < MaxFaults
    /\ faults' = faults + 1 /\ skipped' = TRUE

Blocked(c) == at[c] = "sent" /\ \E m \in writing : m.seq = seq[c]
Waits(c) == at[c] = "sent" /\ \A m \in writing : m.seq # seq[c]

(* The writer thread of message m ends: the pipe took it, or its other end is gone. *)
WriterEnds(m) ==
    /\ m \in writing /\ root = "alive" /\ stage # "closed"
    /\ writing' = writing \ {m} /\ stdin' = Append(stdin, m)
    /\ UNCHANGED <<ownerVars, callerVars, flagVars, stdout, responses, childVars, history>>

WriterFails(m) ==
    /\ m \in writing /\ (root = "exited" \/ stage = "closed")
    /\ writing' = writing \ {m}
    /\ IF lockedBy # "free" /\ seq[lockedBy] = m.seq
       THEN Leave(lockedBy, Failed) ELSE UNCHANGED callerVars
    /\ UNCHANGED <<ownerVars, flagVars, stdin, stdout, responses, childVars, history>>

(* Faulty: the write is given up and the channel stays in use. *)
WriteTimesOutSilently(c) ==
    /\ Blocked(c)
    /\ Leave(c, Failed)
    /\ UNCHANGED <<ownerVars, flagVars, pipeVars, childVars, history>>
(* The deadline passes while the writer thread is blocked: it is left behind and may
   still write. *)
WriteTimesOut(c) ==
    /\ Blocked(c)
    /\ writeFailed' = TRUE /\ Leave(c, Failed)
    /\ UNCHANGED <<ownerVars, protocolFailure, readFailure, pipeVars, childVars, history>>

(* Faulty: the wait for an answer has no deadline. *)
AnswerNeverTimesOut(c) ==
    /\ Waits(c) /\ responses = <<>> /\ ~Alive /\ Leave(c, Failed)
    /\ UNCHANGED <<ownerVars, flagVars, pipeVars, childVars, history>>
AnswerTimesOut(c) ==
    /\ Waits(c) /\ responses = <<>> /\ Leave(c, Failed)
    /\ UNCHANGED <<ownerVars, flagVars, pipeVars, childVars, history>>

(* Faulty: any answer will do. *)
AnyIsOwn(c, r) == r # EOF
(* The run and the number of response r are those of c's request. *)
IsOwn(c, r) == r # EOF /\ r.seq = seq[c]

Answered(c) ==
    /\ Waits(c) /\ responses # <<>> /\ IsOwn(c, Head(responses))
    /\ responses' = Tail(responses)
    /\ Leave(c, [kind |-> Head(responses).kind, ok |-> Head(responses).ok])
    /\ UNCHANGED <<ownerVars, flagVars, writing, stdin, stdout, childVars, history>>

Mismatch(c) ==
    /\ Waits(c) /\ responses # <<>> /\ Head(responses) # EOF
    /\ ~IsOwn(c, Head(responses))
    /\ responses' = Tail(responses) /\ protocolFailure' = TRUE
    /\ Leave(c, Failed)
    /\ UNCHANGED <<ownerVars, readFailure, writeFailed, writing, stdin, stdout, childVars,
                   faults, skipped>>

ReaderReported(c) ==
    /\ Waits(c) /\ responses # <<>> /\ Head(responses) = EOF
    /\ responses' = Tail(responses) /\ Leave(c, Failed)
    /\ UNCHANGED <<ownerVars, flagVars, writing, stdin, stdout, childVars, history>>

Call(c) ==
    \/ Busy(c) \/ Send(c) \/ Refuse(c) \/ WriteTimesOut(c)
    \/ Answered(c) \/ Mismatch(c) \/ ReaderReported(c) \/ AnswerTimesOut(c)

----------------------------------------------------------------------------
(* _read(): the reader thread. *)

ReaderTakes ==
    /\ reader = "on" /\ stdout # <<>> /\ Len(responses) < QueueLimit
    /\ responses' = Append(responses, Head(stdout)) /\ stdout' = Tail(stdout)
    /\ UNCHANGED <<ownerVars, callerVars, flagVars, writing, stdin, childVars, history>>

(* The queue is full: the answer is lost and the reader's exception as well. *)
ReaderOverflows ==
    /\ reader = "on" /\ stdout # <<>> /\ Len(responses) = QueueLimit
    /\ stdout' = Tail(stdout) /\ readFailure' = TRUE /\ reader' = "ended"
    /\ UNCHANGED <<stage, owner, callerVars, protocolFailure, writeFailed, writing,
                   stdin, responses, childVars, history>>

ReaderEnds ==
    /\ reader = "on" /\ stdout = <<>> /\ (root = "exited" \/ channelClosed)
    /\ readFailure' = TRUE /\ reader' = "ended"
    /\ responses' = IF Len(responses) < QueueLimit THEN Append(responses, EOF) ELSE responses
    /\ UNCHANGED <<stage, owner, callerVars, protocolFailure, writeFailed, writing,
                   stdin, stdout, childVars, history>>

Read == ReaderTakes \/ ReaderOverflows \/ ReaderEnds

----------------------------------------------------------------------------
(* child_main(): the child's loop. *)

(* The next line is a request with the wrong number: the loop raises. *)
ChildRejects ==
    /\ root = "alive" /\ loop.reply = Nothing /\ stdin # <<>>
    /\ Head(stdin).seq # loop.last + 1
    /\ stdin' = Tail(stdin) /\ root' = "exited" /\ rejected' = TRUE
    /\ UNCHANGED <<ownerVars, callerVars, flagVars, writing, stdout, responses, others, loop,
                   instance, resets, channelClosed, done, history>>

(* The operations the child allows in its state, and how each may end. *)
MayEnd(k, ok) ==
    CASE k = "ready" -> ok = ~instance
      [] k = "start" -> ok => ~instance
      [] k = "health" -> ok => instance
      [] k = "stacks" -> ok
      [] k = "stop" -> ok \/ instance

(* Faulty: a failed stop leaves the redirected flows alone. *)
ResetsNothing(k, ok) == resets
(* A failed stop starts the timer that resets the redirected flows. *)
Resets(k, ok) == IF k = "stop" /\ ~ok THEN "armed" ELSE resets

ChildPerforms ==
    /\ root = "alive" /\ loop.reply = Nothing /\ stdin # <<>>
    /\ Head(stdin).seq = loop.last + 1 /\ stdin' = Tail(stdin)
    /\ LET k == Head(stdin).kind IN
         /\ \E ok \in BOOLEAN :
              /\ MayEnd(k, ok)
              /\ loop' = [last |-> loop.last + 1,
                          reply |-> [seq |-> loop.last + 1, kind |-> k, ok |-> ok]]
              /\ done' = Append(done, [kind |-> k, ok |-> ok])
              /\ resets' = Resets(k, ok)
              /\ instance' \in IF k # "start" THEN {instance}
                             ELSE IF ok THEN {TRUE} ELSE {instance, TRUE}
         /\ others' \in IF k \in {"start", "stop"} THEN {others, TRUE} ELSE {others}
    /\ UNCHANGED <<ownerVars, callerVars, flagVars, writing, stdout, responses, root,
                   channelClosed, rejected, history>>

ChildAnswers ==
    /\ root = "alive" /\ loop.reply # Nothing
    /\ stdout' = IF channelClosed THEN stdout ELSE Append(stdout, loop.reply)
    /\ root' = IF loop.reply.kind = "stop" /\ loop.reply.ok THEN "exited" ELSE "alive"
    /\ loop' = [loop EXCEPT !.reply = Nothing]
    /\ UNCHANGED <<ownerVars, callerVars, flagVars, writing, stdin, responses, others,
                   instance, resets, channelClosed, done, rejected, history>>

(* FaultInjector.ipc_response: a response is dropped, is given another number or run, or
   the channel is closed in its place. *)
ResponseFault ==
    /\ root = "alive" /\ loop.reply # Nothing /\ faults < MaxFaults /\ ~channelClosed
    /\ loop.reply.kind \in {"health", "stacks"}
    /\ \/ UNCHANGED <<stdout, channelClosed>>
       \/ /\ loop.reply.kind = "health" /\ stdout' = Append(stdout, [loop.reply EXCEPT !.seq = @ - 1])
          /\ UNCHANGED channelClosed
       \/ loop.reply.kind = "health" /\ channelClosed' = TRUE /\ UNCHANGED stdout
    /\ faults' = faults + 1 /\ loop' = [loop EXCEPT !.reply = Nothing]
    /\ UNCHANGED <<ownerVars, callerVars, flagVars, writing, stdin, responses, root, others,
                   instance, resets, done, rejected, skipped>>

QuiesceAfterFailedStop ==
    /\ root = "alive" /\ resets = "armed" /\ resets' = "ran"
    /\ UNCHANGED <<ownerVars, callerVars, flagVars, pipeVars, root, others, loop, instance,
                   channelClosed, done, rejected, history>>

(* A process ends by itself or with its Job. *)
ProcessEnds ==
    /\ \/ root = "alive" /\ root' = "exited" /\ UNCHANGED others
       \/ others /\ others' = FALSE /\ UNCHANGED root
    /\ UNCHANGED <<ownerVars, callerVars, flagVars, pipeVars, loop, instance, resets,
                   channelClosed, done, rejected, history>>

----------------------------------------------------------------------------
(* The end of the child: terminate() and close(), directly or by cleanup(). *)

(* No process of the Job is alive: poll() and members(). *)
JobEnded == root # "alive" /\ ~others

HasProcess == stage \in {"spawned", "up"}

Terminate ==
    /\ owner = "serve" /\ stage \notin {"new", "closed"} /\ at["op"] = "idle"
    /\ owner' = IF HasProcess THEN "confirm" ELSE "close"
    /\ UNCHANGED <<stage, reader, callerVars, flagVars, pipeVars, childVars, history>>

(* The Job is empty, or the deadline passes and the owner is kept. *)
Confirm ==
    /\ owner = "confirm"
    /\ owner' \in IF JobEnded THEN {"close"} ELSE {"serve"}
    /\ UNCHANGED <<stage, reader, callerVars, flagVars, pipeVars, childVars, history>>

Close ==
    /\ owner = "close"
    /\ IF (HasProcess /\ ~JobEnded) \/ reader = "on"
       THEN owner' = "serve" /\ UNCHANGED stage
       ELSE owner' = "ended" /\ stage' = "closed"
    /\ UNCHANGED <<reader, callerVars, flagVars, pipeVars, childVars, history>>

End == Terminate \/ Confirm \/ Close

Next ==
    \/ Initialize \/ End \/ Read
    \/ \E c \in Callers : Request(c) \/ Call(c) \/ QueryRaises(c)
    \/ \E m \in writing : WriterEnds(m) \/ WriterFails(m)
    \/ ChildRejects \/ ChildPerforms \/ ChildAnswers \/ ResponseFault
    \/ QuiesceAfterFailedStop \/ ProcessEnds

(* Every wait of request() has a deadline, the reader blocks in a read that ends with
   the child, the operating system ends the processes of a terminated Job, and a stop
   that could not be confirmed is repeated.  Nothing makes the child answer. *)
Fairness ==
    /\ \A c \in Callers : WF_vars(Call(c))
    /\ WF_vars(Read) /\ WF_vars(Initialize)
    /\ WF_vars(QuiesceAfterFailedStop)

Spec == Init /\ [][Next]_vars /\ Fairness

----------------------------------------------------------------------------
CTypeOK ==
    /\ stage \in {"new", "job", "spawned", "up", "closed"}
    /\ owner \in {"init", "serve", "confirm", "close", "ended"}
    /\ sequence \in 0..MaxSeq /\ lockedBy \in Callers \cup {"free"}
    /\ at \in [Callers -> {"idle", "lock", "sent"}]
    /\ \A c \in Callers : at[c] = "sent" <=> lockedBy = c
    /\ reader \in {"off", "on", "ended"} /\ root \in {"none", "alive", "exited"}
    /\ resets \in {"none", "armed", "ran"}
    /\ Len(responses) <= QueueLimit /\ Len(done) <= sequence

(* request() implements its abstract specification: the pipes, the queue, the deadlines
   and the failure flags never let a caller have the outcome of another request. *)
Calls == INSTANCE ManagedCall WITH
    issued <- sequence,
    pending <- seq
ImplementsCall == Calls!Spec

(* The child ends itself over an unexpected number only if a Job query raised between
   the numbering of a request and its sending: deadlines, abandoned writer threads and
   failed channels never put the two counters (managed.py:201 and :493) apart. *)
SequenceIsAgreed == rejected => skipped

(* close() gave up the Job, the pipes and the reader only when no process of the Job was
   left, whatever the child had started and wherever initialization had failed. *)
ClosedIsEmpty == stage = "closed" => root # "alive" /\ ~others /\ reader # "on"

(* The types, and the two above: the counters of both ends of the pipe (request() and
   child_main) and what close() gives up. *)
ChildInv == CTypeOK /\ SequenceIsAgreed /\ ClosedIsEmpty

(* Every request() returns or raises, also when the child hangs, dies, or is closed. *)
CallEnds == \A c \in Callers : at[c] # "idle" ~> at[c] = "idle"

(* After a stop that failed the redirected flows are reset, unless the child is gone
   before the delay has passed. *)
StopFailed == \E i \in 1..Len(done) : done[i] = [kind |-> "stop", ok |-> FALSE]
FailedStopResetsFlows == StopFailed ~> resets = "ran" \/ root = "exited"
=============================================================================
