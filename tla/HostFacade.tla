----------------------------- MODULE HostFacade -----------------------------
(* The host side of an egress verification: short-lived facade processes
   (host_stdio.py) that share a ledger on disk (host_state.py) and drive the FakeNet
   service of a guest and a remote executor in it.  One target; a command is known by its
   id, and a facade may be asked for it again at any time.

   A step ends where the process meets the disk, a lock, the guest or the executor.  Left
   out: parsing and content of evidence and of the 30 rows of the matrix, the passive
   capture, Velociraptor, and what only leads to a verdict that is not 'pass' (a choice). *)
EXTENDS Integers, FiniteSets, TLC

CONSTANTS
    Facades,        \* processes that run one call at a time
    Commands,       \* canonical command ids
    None,
    MaxChanges,     \* bound on what others do to the guest and to the authorization
    MaxCrashes      \* bound on deaths of facades

Statuses == [run : Nat, ver : Nat]
Stages == {"partial", "prepared", "running", "failed", "completed"}
Kinds == {"identity", "matrix", "final"}
Docs == {"pass", "other", "error"}
Records == [stage : Stages, started : BOOLEAN, scope : Nat, bind : Statuses \cup {None}]

ASSUME HostConstants ==
    /\ MaxChanges \in Nat /\ MaxCrashes \in Nat
    /\ None \notin Facades \cup Commands \cup Docs \cup Statuses \cup Records

VARIABLES
    record,         \* the ledger: what <command>.json holds
    result,         \* result.json of each command
    lock,           \* flock of each command
    targetLock,     \* flock of the target
    at, cmd,        \* where each facade is, and for which command
    under,          \* the scope a facade read when its call began
    seen,           \* the guest status a facade compares with: [run, ver]
    guestOk,        \* the guest's own verification was answered well
    consistent,     \* outcome of the final reading
    doc,            \* the result about to be recorded
    answer,         \* whether the last call of a facade returned 'pass'
    remote,         \* scripts the executor may be running
    guest,          \* the service in the guest: run, version, healthy
    late,           \* guest verifications that are still on their way
    scope,          \* version of the authorization file
    changes, crashes,   \* what the bounds count
    touched,        \* history: others changed the guest since the command first read it
    sent,           \* history: matrix scripts sent for each command
    unsure          \* history: touched, at the final reading of the facade's last call

disk == <<record, result>>
locks == <<lock, targetLock>>
local == <<cmd, under, seen, guestOk, consistent, doc, unsure>>
world == <<guest, late, scope, changes, touched>>
vars == <<disk, locks, at, local, answer, remote, world, crashes, sent>>

Status(g) == [run |-> g.run, ver |-> g.ver]

(* A record: its stage, whether code was handed to the executor, the scope it was
   admitted under, and the binding a later call may reuse. *)
Record(stage, started, s, bind) ==
    [stage |-> stage, started |-> started, scope |-> s, bind |-> bind]

Init ==
    /\ record = [c \in Commands |-> None] /\ result = [c \in Commands |-> None]
    /\ lock = [c \in Commands |-> None] /\ targetLock = None
    /\ at = [f \in Facades |-> "idle"] /\ cmd = [f \in Facades |-> None]
    /\ under = [f \in Facades |-> 0]
    /\ seen = [f \in Facades |-> None] /\ guestOk = [f \in Facades |-> FALSE]
    /\ consistent = [f \in Facades |-> "unknown"] /\ doc = [f \in Facades |-> None]
    /\ answer = [f \in Facades |-> None] /\ unsure = [f \in Facades |-> FALSE]
    /\ remote = {} /\ late = {} /\ scope = 0 /\ changes = 0 /\ crashes = 0
    /\ guest = [run |-> 1, ver |-> 1, healthy |-> TRUE]
    /\ touched = [c \in Commands |-> FALSE] /\ sent = [c \in Commands |-> 0]

Goto(f, place) == at' = [at EXCEPT ![f] = place]
Mine(f) == record[cmd[f]]

(* What is remembered of an answer: only 'pass' is. *)
Told(value) == IF value = "pass" THEN value ELSE None

(* The end of a call: the locks of the process go with their streams. *)
Return(f, value) ==
    /\ at' = [at EXCEPT ![f] = "idle"] /\ answer' = [answer EXCEPT ![f] = Told(value)]
    /\ unsure' = [unsure EXCEPT ![f] = @ /\ value = "pass"]
    /\ cmd' = [cmd EXCEPT ![f] = None] /\ under' = [under EXCEPT ![f] = 0]
    /\ seen' = [seen EXCEPT ![f] = None]
    /\ guestOk' = [guestOk EXCEPT ![f] = FALSE]
    /\ consistent' = [consistent EXCEPT ![f] = "unknown"]
    /\ doc' = [doc EXCEPT ![f] = None]
    /\ lock' = [c \in Commands |-> IF lock[c] = f THEN None ELSE lock[c]]
    /\ targetLock' = IF targetLock = f THEN None ELSE targetLock

----------------------------------------------------------------------------
(* verify(): admission *)

(* The authorization, the lock of the command, then its record.  A record that was cut off
   is unreadable; one that is not completed is reported, never run again. *)
Verify(f, c) ==
    /\ at[f] = "idle"
    /\ LET r == record[c]
           Answer(value) == /\ answer' = [answer EXCEPT ![f] = Told(value)]
                            /\ UNCHANGED <<at, cmd, under, lock>>
       IN \/ lock[c] # None /\ Answer("busy")
          \/ /\ lock[c] = None /\ r # None
             /\ r.stage = "partial" \/ r.scope # scope
             /\ Answer("error")
          \/ /\ lock[c] = None /\ r # None
             /\ r.stage \notin {"partial", "completed"} /\ r.scope = scope
             /\ Answer("pending")
          \/ /\ lock[c] = None
             /\ r # None => r.stage = "completed" /\ r.scope = scope
             /\ lock' = [lock EXCEPT ![c] = f] /\ cmd' = [cmd EXCEPT ![f] = c]
             /\ under' = [under EXCEPT ![f] = scope]
             /\ answer' = [answer EXCEPT ![f] = None]
             /\ Goto(f, IF r = None THEN "look" ELSE "reuse")
    /\ unsure' = [unsure EXCEPT ![f] = FALSE]
    /\ UNCHANGED <<disk, targetLock, seen, guestOk, consistent, doc, remote, world, crashes, sent>>

(* Faulty: a record that says it failed does not hold the target. *)
BlocksUnlessFailed(c) ==
    /\ record[c] # None /\ record[c].stage \notin {"partial", "failed"}
    /\ record[c].stage = "completed" => result[c] = None
(* find_active_target: a readable record holds the target until it is completed and its
   result is there. *)
Blocks(c) ==
    /\ record[c] # None /\ record[c].stage # "partial"
    /\ record[c].stage = "completed" => result[c] = None

Look(f) ==
    /\ at[f] = "look"
    /\ IF \E c \in Commands : Blocks(c)
       THEN Return(f, "error")
       ELSE Goto(f, "target") /\ UNCHANGED <<answer, local, locks>>
    /\ UNCHANGED <<disk, remote, world, crashes, sent>>

LockTarget(f) ==
    /\ at[f] = "target"
    /\ IF targetLock # None
       THEN Return(f, "busy")
       ELSE /\ targetLock' = f /\ Goto(f, "again")
            /\ UNCHANGED <<answer, local, lock>>
    /\ UNCHANGED <<disk, remote, world, crashes, sent>>

(* Under the lock it looks once more, and the record is opened; *)
LookAgain(f) ==
    /\ at[f] = "again"
    /\ IF \E c \in Commands : Blocks(c)
       THEN Return(f, "error") /\ UNCHANGED record
       ELSE /\ record' = [record EXCEPT ![cmd[f]] = Record("partial", FALSE, under[f], None)]
            /\ Goto(f, "create")
            /\ UNCHANGED <<answer, local, locks>>
    /\ UNCHANGED <<result, remote, world, crashes, sent>>

(* it is written, or removed again when that fails; *)
Create(f) ==
    /\ at[f] = "create"
    /\ \/ /\ record' = [record EXCEPT ![cmd[f]].stage = "prepared"] /\ Goto(f, "run")
          /\ UNCHANGED <<answer, local, locks>>
       \/ record' = [record EXCEPT ![cmd[f]] = None] /\ Return(f, "error")
    /\ UNCHANGED <<result, remote, world, crashes, sent>>

(* and _run() begins. *)
Run(f) ==
    /\ at[f] = "run" /\ Goto(f, "status")
    /\ record' = [record EXCEPT ![cmd[f]].stage = "running"]
    /\ UNCHANGED <<result, locks, local, answer, remote, world, crashes, sent>>

----------------------------------------------------------------------------
(* _run() *)

Reusing(f) == Mine(f).stage = "completed"

(* _recheck_action: the authorization still names the scope the command was admitted
   under.  Where a result is reused it is compared with the scope of the last verification
   of this process, if there was one: it may have changed, or the reuse may fail. *)
Admitted(f) == Reusing(f) \/ Mine(f).scope = scope

Onward(f, place) ==
    /\ Goto(f, place)
    /\ UNCHANGED <<result, locks, answer, cmd, under, crashes>>

(* The first reading of the guest: it is healthy, and its run is the controller's. *)
ReadStatus(f) ==
    /\ at[f] = "status" /\ Admitted(f) /\ guest.healthy
    /\ seen' = [seen EXCEPT ![f] = Status(guest)]
    /\ touched' = [touched EXCEPT ![cmd[f]] = FALSE]
    /\ Onward(f, "declare")
    /\ UNCHANGED <<record, guestOk, consistent, doc, unsure, remote, guest, late, scope,
                   changes, sent>>

(* Before any code goes to the executor the record says so. *)
Declare(f) ==
    /\ at[f] = "declare" /\ Admitted(f)
    /\ record' = [record EXCEPT ![cmd[f]].started = TRUE]
    /\ Onward(f, "identity")
    /\ UNCHANGED <<seen, guestOk, consistent, doc, unsure, remote, world, sent>>

Script(f, k) == [cmd |-> cmd[f], kind |-> k]

(* A script is sent; its answer comes when it has ended. *)
SendIdentity(f) ==
    /\ at[f] = "identity" /\ remote' = remote \cup {Script(f, "identity")}
    /\ Onward(f, "identified")
    /\ UNCHANGED <<record, seen, guestOk, consistent, doc, unsure, world, sent>>

(* The answer is there; _assert_guest_unchanged reads the guest once more. *)
Unchanged(f) == Status(guest) = seen[f]

Identified(f) ==
    /\ at[f] = "identified" /\ Script(f, "identity") \notin remote
    /\ Unchanged(f) /\ Onward(f, "matrix")
    /\ UNCHANGED <<record, seen, guestOk, consistent, doc, unsure, remote, world, sent>>

SendMatrix(f) ==
    /\ at[f] = "matrix" /\ Admitted(f)
    /\ remote' = remote \cup {Script(f, "matrix")}
    /\ sent' = [sent EXCEPT ![cmd[f]] = @ + 1]
    /\ Onward(f, "probed")
    /\ UNCHANGED <<record, seen, guestOk, consistent, doc, unsure, world>>

Probed(f) ==
    /\ at[f] = "probed" /\ Script(f, "matrix") \notin remote
    /\ Admitted(f) /\ Unchanged(f) /\ Onward(f, "guest")
    /\ UNCHANGED <<record, seen, guestOk, consistent, doc, unsure, remote, world, sent>>

(* The guest's verification is an operation of its coordinator (module Coordinator): it is
   accepted at the version it names, which it raises by one. *)
Accepts(s) == guest.healthy /\ Status(guest) = s
Raised(s) == [guest EXCEPT !.ver = s.ver + 1]

(* It is answered, well or with an error; or refused; or nobody knows: no time is left,
   the answer is lost, or the request is late. *)
GuestVerify(f) ==
    /\ at[f] = "guest"
    /\ \/ /\ Accepts(seen[f]) /\ guest' = Raised(seen[f])
          /\ \E ok \in BOOLEAN : guestOk' = [guestOk EXCEPT ![f] = ok]
          /\ touched' = [c \in Commands |-> touched[c] \/ c # cmd[f]] /\ UNCHANGED late
       \/ UNCHANGED <<guest, guestOk, late, touched>>
       \/ /\ late' = late \cup {[cmd |-> cmd[f], of |-> seen[f]]}
          /\ UNCHANGED <<guest, guestOk, touched>>
    /\ Onward(f, "post")
    /\ UNCHANGED <<record, seen, consistent, doc, unsure, remote, scope, changes, sent>>

LateArrives(m) ==
    /\ late' = late \ {m}
    /\ guest' = IF Accepts(m.of) THEN Raised(m.of) ELSE guest
    /\ touched' = [c \in Commands |-> touched[c] \/ (Accepts(m.of) /\ c # m.cmd)]
    /\ UNCHANGED <<disk, locks, at, local, answer, remote, scope, changes, crashes, sent>>

(* Faulty: any later version is taken for the own operation's. *)
OwnVersionOrLater(before, now) == now.run = before.run /\ now.ver >= before.ver
(* The same run, and at most the own operation in between. *)
OwnVersion(before, now) == now.run = before.run /\ now.ver \in {before.ver, before.ver + 1}

PostStatus(f) ==
    /\ at[f] = "post" /\ OwnVersion(seen[f], Status(guest)) /\ Admitted(f)
    /\ seen' = [seen EXCEPT ![f] = Status(guest)]
    /\ Onward(f, "final")
    /\ UNCHANGED <<record, guestOk, consistent, doc, unsure, remote, world, sent>>

----------------------------------------------------------------------------
(* _final_consistency(), at the end of a run and when a result is reused *)

Verdict(f, v) == consistent' = [consistent EXCEPT ![f] = v]
AfterFinal(f) == IF Reusing(f) THEN "reused" ELSE "write"

(* The last reading of the guest, then of the host, which may have changed. *)
FinalStatus(f) ==
    /\ at[f] = "final"
    /\ \/ /\ Admitted(f) /\ guest.healthy /\ Unchanged(f)
          /\ unsure' = [unsure EXCEPT ![f] = touched[cmd[f]]]
          /\ Onward(f, "send") /\ UNCHANGED consistent
       \/ \E v \in {"no", "unknown"} : Verdict(f, v) /\ Onward(f, AfterFinal(f)) /\ UNCHANGED unsure
    /\ UNCHANGED <<record, seen, guestOk, doc, remote, world, sent>>

SendFinal(f) ==
    /\ at[f] = "send"
    /\ \/ /\ Admitted(f) /\ remote' = remote \cup {Script(f, "final")}
          /\ Onward(f, "await") /\ UNCHANGED consistent
       \/ Verdict(f, "unknown") /\ Onward(f, AfterFinal(f)) /\ UNCHANGED remote
    /\ UNCHANGED <<record, seen, guestOk, doc, unsure, world, sent>>

(* The executor's identity is compared; without an answer the outcome is unknown. *)
FinalAnswer(f) ==
    /\ at[f] = "await"
    /\ \/ /\ Script(f, "final") \notin remote
          /\ \E v \in {"yes", "no"} : Verdict(f, v)
       \/ Verdict(f, "unknown")
    /\ Onward(f, AfterFinal(f))
    /\ UNCHANGED <<record, seen, guestOk, doc, unsure, remote, world, sent>>

----------------------------------------------------------------------------
(* The result and the record *)

(* build_host_result: 'pass' needs the guest's part and the final consistency; what else
   it needs is a choice. *)
Qualifies(f) == guestOk[f] /\ consistent[f] = "yes"

(* Faulty: the record is completed before the result is written. *)
WriteNothing(f) ==
    /\ at[f] = "write"
    /\ \E d \in Docs : /\ d = "pass" => Qualifies(f)
                       /\ doc' = [doc EXCEPT ![f] = d]
    /\ Goto(f, "complete")
    /\ UNCHANGED <<disk, locks, answer, cmd, under, crashes>>
    /\ UNCHANGED <<seen, guestOk, consistent, unsure, remote, world, sent>>
(* 'error' is the result that exceeded its limit. *)
WriteResult(f) ==
    /\ at[f] = "write"
    /\ \E d \in Docs : /\ d = "pass" => Qualifies(f)
                       /\ doc' = [doc EXCEPT ![f] = d]
                       /\ result' = [result EXCEPT ![cmd[f]] = d]
    /\ Goto(f, "complete")
    /\ UNCHANGED <<record, locks, answer, cmd, under, crashes>>
    /\ UNCHANGED <<seen, guestOk, consistent, unsure, remote, world, sent>>

Complete(f) ==
    /\ at[f] = "complete"
    /\ record' = [record EXCEPT ![cmd[f]].stage = "completed",
                    ![cmd[f]].bind = IF consistent[f] = "yes" /\ doc[f] # "error"
                                     THEN seen[f] ELSE None]
    /\ Return(f, doc[f])
    /\ UNCHANGED <<result, remote, world, crashes, sent>>

(* _load_verified_result: an error is returned as it is, anything else only if it can be
   bound to what is now. *)
Reuse(f) ==
    /\ at[f] = "reuse"
    /\ LET r == Mine(f) IN
       IF result[cmd[f]] \in {None, "error"} \/ r.bind = None
       THEN Return(f, "error")
       ELSE /\ seen' = [seen EXCEPT ![f] = r.bind] /\ Goto(f, "final")
            /\ UNCHANGED <<answer, cmd, under, guestOk, consistent, doc, unsure, locks>>
    /\ UNCHANGED <<disk, remote, world, crashes, sent>>

Reused(f) ==
    /\ at[f] = "reused"
    /\ Return(f, IF consistent[f] = "yes" THEN result[cmd[f]] ELSE "error")
    /\ UNCHANGED <<disk, remote, world, crashes, sent>>

----------------------------------------------------------------------------
(* Failures of _run(): any reading, comparison, deadline or answer may end it. *)

Failing == {"status", "declare", "identity", "identified", "matrix", "probed", "post", "write",
            "complete"}

(* HostFacadeError: without remote code the failure is a result and frees the target; *)
Refuse(f) ==
    /\ at[f] \in Failing \ {"write", "complete"}
    /\ record' = [record EXCEPT ![cmd[f]].stage = "failed"]
    /\ IF Mine(f).started
       THEN Return(f, "error")
       ELSE Goto(f, "unprobed") /\ UNCHANGED <<answer, local, locks>>
    /\ UNCHANGED <<result, remote, world, crashes, sent>>

(* _finish_no_probe_failure *)
WriteFailure(f) ==
    /\ at[f] = "unprobed" /\ Goto(f, "unprobed_written")
    /\ result' = [result EXCEPT ![cmd[f]] = "error"]
    /\ UNCHANGED <<record, locks, local, answer, remote, world, crashes, sent>>

CompleteFailure(f) ==
    /\ at[f] = "unprobed_written"
    /\ record' = [record EXCEPT ![cmd[f]].stage = "completed"]
    /\ Return(f, "error")
    /\ UNCHANGED <<result, remote, world, crashes, sent>>

(* any other exception only marks the record. *)
Raise(f) ==
    /\ at[f] \in Failing
    /\ record' = [record EXCEPT ![cmd[f]].stage = "failed"]
    /\ Return(f, "error")
    /\ UNCHANGED <<result, remote, world, crashes, sent>>

Crash(f) ==
    /\ at[f] # "idle" /\ crashes < MaxCrashes /\ crashes' = crashes + 1
    /\ Return(f, None)
    /\ UNCHANGED <<disk, remote, world, sent>>

----------------------------------------------------------------------------
(* The guest and the executor *)

RemoteEnds(s) ==
    /\ remote' = remote \ {s}
    /\ UNCHANGED <<disk, locks, at, local, answer, world, crashes, sent>>

(* Another operation of the service, with or without another run; its health, which has
   no version; its restart, which begins at version 1 with another run. *)
GuestChanges ==
    /\ changes < MaxChanges /\ changes' = changes + 1
    /\ \/ \E new \in {0, 1} : guest' = [guest EXCEPT !.ver = @ + 1, !.run = @ + new]
       \/ guest' = [run |-> guest.run + 1, ver |-> 1, healthy |-> TRUE]
    /\ touched' = [c \in Commands |-> TRUE]
    /\ UNCHANGED <<disk, locks, at, local, answer, remote, late, scope, crashes, sent>>

GuestHealth ==
    /\ changes < MaxChanges /\ changes' = changes + 1
    /\ guest' = [guest EXCEPT !.healthy = ~@]
    /\ UNCHANGED <<disk, locks, at, local, answer, remote, late, scope, touched, crashes, sent>>

ScopeChanges ==
    /\ changes < MaxChanges /\ changes' = changes + 1
    /\ scope' = scope + 1
    /\ UNCHANGED <<disk, locks, at, local, answer, remote, guest, late, touched, crashes, sent>>

Next ==
    \/ \E f \in Facades :
          \/ \E c \in Commands : Verify(f, c)
          \/ Look(f) \/ LockTarget(f) \/ LookAgain(f) \/ Create(f) \/ Run(f)
          \/ ReadStatus(f) \/ Declare(f) \/ SendIdentity(f) \/ Identified(f)
          \/ SendMatrix(f) \/ Probed(f) \/ GuestVerify(f) \/ PostStatus(f)
          \/ FinalStatus(f) \/ SendFinal(f) \/ FinalAnswer(f)
          \/ WriteResult(f) \/ Complete(f) \/ Reuse(f) \/ Reused(f)
          \/ Refuse(f) \/ WriteFailure(f) \/ CompleteFailure(f) \/ Raise(f) \/ Crash(f)
    \/ \E s \in remote : RemoteEnds(s)
    \/ \E m \in late : LateArrives(m)
    \/ GuestChanges \/ GuestHealth \/ ScopeChanges

Spec == Init /\ [][Next]_vars

----------------------------------------------------------------------------
HTypeOK ==
    /\ record \in [Commands -> Records \cup {None}]
    /\ result \in [Commands -> Docs \cup {None}]
    /\ lock \in [Commands -> Facades \cup {None}] /\ targetLock \in Facades \cup {None}
    /\ cmd \in [Facades -> Commands \cup {None}]
    /\ seen \in [Facades -> Statuses \cup {None}]
    /\ remote \subseteq [cmd : Commands, kind : Kinds]

(* A completed record has its result, whenever the process died: the target is free, and a
   retry finds what it asks for. *)
CompletedHasResult ==
    \A c \in Commands : record[c] # None /\ record[c].stage = "completed" => result[c] # None

(* The types, and the order of the two files (HostFacade._run, HostStateStore.update). *)
HostInv == HTypeOK /\ CompletedHasResult

(* The executor never has the scripts of two verification sequences, and no command sends
   its matrix twice, whatever died, timed out or was asked for again: "a retry reconciles
   the original request instead of starting a second probe sequence" (host_state.py:4). *)
Sequence == {s \in remote : s.kind # "final"}
OneSequence ==
    /\ \A s, t \in Sequence : s.cmd = t.cmd
    /\ \A c \in Commands : sent[c] <= 1

(* Whoever is told 'pass', now or from an earlier result, is told it of a guest that nobody
   else had changed from the first reading of that verification to the last of this call. *)
PassIsCurrent == \A f \in Facades : answer[f] = "pass" => ~unsure[f]

(* host_stdio.py:1302: "Persist intent before handing any code to the remote executor.  A
   timeout from this point retains target ownership."  The last script of a verification
   and the one of a reuse are handed over too, and a timeout of theirs retains nothing. *)
TimeoutRetainsOwnership == \A s, t \in remote : s.cmd = t.cmd
=============================================================================
