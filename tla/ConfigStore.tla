---------------------------- MODULE ConfigStore ----------------------------
(***************************************************************************)
(* The custom configuration files (mcp/configstore.py), the operations on  *)
(* them that the coordinator lets run at the same time (mcp/tools.py), the *)
(* activity lock of a run (mcp/configlock.py) and the programs outside the *)
(* service that write to the same directory.                               *)
(*                                                                         *)
(* A write goes to a staging file, then the audit log, then replaces the   *)
(* file.  The service may die between any two of these.  A hash stands for *)
(* its content.                                                            *)
(***************************************************************************)
EXTENDS Naturals, FiniteSets

CONSTANTS
    Names,          \* names of custom configurations, one for each file: spellings of a
                    \* name that differ in case are not told apart
    Builtins,       \* the names of builtin configurations
    Contents,
    Threads,        \* the threads that execute an operation
    MaxOps,         \* bound: operations accepted
    MaxEdits,       \* bound: writes by other programs
    None            \* no file, no content, nobody

Kinds == {"create", "edit", "rename", "delete"}
Phases == {"check", "stage", "audit", "replace"}

(* An operation with how far it got: the content it read, the line it wrote to the audit log
   and whether somebody else wrote to one of its files. *)
Operations ==
    [kind : Kinds, name : Names, new : Names, content : Contents, expected : Contents,
     at : Phases, before : Contents \cup {None}, logged : {"none", "ok"}, touched : BOOLEAN]
Identities == [name : Names, content : Contents]

ASSUME StoreConstants ==
    /\ Builtins \subseteq Names
    /\ None \notin Names \cup Contents \cup Operations \cup Identities

VARIABLES
    files,      \* the custom files
    op,         \* [Threads -> the operation it executes, or None]
    litter,     \* the names whose staging file a dead service left behind
    pinned,     \* the configuration identity of load_config
    run,        \* "none"; "locked" while start() has the lock; "running"; "restarting"
                \* between the stop and the start of a restart; "failed"; "recovering"
    lock,       \* the name that the activity lock is held on
    active,     \* _active_name: set and cleared together with the coordinator's run id
    acked,      \* history: what the last completed operation said of a name
    ops, edits  \* counters of the bounds

vars == <<files, op, litter, pinned, run, lock, active, acked, ops, edits>>
runVars == <<pinned, run, lock, active>>
storeVars == <<files, op, litter, acked, ops, edits>>

Unsure == "unsure"      \* somebody else wrote, or the service died half way

Init ==
    /\ files = [n \in Names |-> None] /\ op = [t \in Threads |-> None] /\ litter = {}
    /\ pinned = None /\ run = "none" /\ lock = None /\ active = None
    /\ acked = [n \in Names |-> Unsure] /\ ops = 0 /\ edits = 0

(* Faulty: a rename conflicts on the old name only. *)
ConflictOld(o) == {o.name}
(* The names that an operation reserves. *)
ConflictNames(o) == IF o.kind = "rename" THEN {o.name, o.new} ELSE {o.name}

Busy == {t \in Threads : op[t] # None}

(* submit(): disjoint operations run side by side only while nothing runs. *)
Accept(t, o) ==
    /\ ops < MaxOps /\ ops' = ops + 1
    /\ op[t] = None /\ run \in {"none", "running", "failed"}
    /\ \A u \in Busy : run = "none" /\ ConflictNames(op[u]) \cap ConflictNames(o) = {}
    /\ op' = [op EXCEPT ![t] = o]
    /\ UNCHANGED <<files, litter, acked, edits, runVars>>

Requests ==
    [kind : Kinds, name : Names, new : Names, content : Contents, expected : Contents,
     at : {"check"}, before : {None}, logged : {"none"}, touched : {FALSE}]

(* Fields that a kind does not use have one value. *)
Sensible(o) ==
    /\ o.kind = "rename" <=> o.name # o.new
    /\ o.kind = "create" => o.expected = o.content
    /\ o.kind \in {"rename", "delete"} => o.content = o.expected

----------------------------------------------------------------------------
(* _commit(), rename() and delete() up to the decision: the reasons to refuse. *)
Refused(o) ==
    \/ o.kind # "create" /\ active = o.name
    \/ o.kind = "create" /\ (files[o.name] # None \/ o.name \in Builtins)
    \/ o.kind # "create" /\ (files[o.name] = None \/ files[o.name] # o.expected)
    \/ o.kind = "rename" /\ (files[o.new] # None \/ o.new \in Builtins)

Unchanged(o) == o.kind = "edit" /\ files[o.name] = o.content

Step(t, at) == op' = [op EXCEPT ![t].at = at]

(* What an operation that succeeds tells its caller. *)
Receipt(o, n) ==
    IF o.touched THEN Unsure
    ELSE IF n = o.name THEN (IF o.kind \in {"create", "edit"} THEN o.content ELSE None)
    ELSE o.before

Acknowledge(o) ==
    acked' = [n \in Names |-> IF n \in ConflictNames(o) THEN Receipt(o, n) ELSE acked[n]]

Ends(t) == op' = [op EXCEPT ![t] = None]

(* The file is read once; a refusal is audited and changes nothing. *)
Check(t) ==
    LET o == op[t] IN
    /\ o.at = "check"
    /\ IF Refused(o) THEN Ends(t) /\ UNCHANGED acked
       ELSE IF Unchanged(o) THEN Ends(t) /\ Acknowledge(o)
       ELSE /\ op' = [op EXCEPT ![t].before = files[o.name],
                                ![t].at = IF o.kind \in {"create", "edit"} THEN "stage" ELSE "audit"]
            /\ UNCHANGED acked
    /\ UNCHANGED <<files, litter, ops, edits, runVars>>

(* Faulty: the file is replaced without waiting for the audit line. *)
StageOnly(t) ==
    /\ op[t].at = "stage"
    /\ Step(t, "replace") /\ UNCHANGED <<files, litter, acked, ops, edits, runVars>>
(* The staging file; if it cannot be written the operation fails and removes it. *)
Stage(t) ==
    /\ op[t].at = "stage"
    /\ Step(t, "audit") \/ Ends(t)
    /\ UNCHANGED <<files, litter, acked, ops, edits, runVars>>

(* The audit line says "ok"; without it nothing is committed. *)
Audit(t) ==
    /\ op[t].at = "audit"
    /\ \/ op' = [op EXCEPT ![t].at = "replace", ![t].logged = "ok"]
       \/ Ends(t)
    /\ UNCHANGED <<files, litter, acked, ops, edits, runVars>>

(* The file as the operation leaves it. *)
After(o) ==
    [n \in Names |->
       CASE o.kind = "rename" /\ n = o.new -> files[o.name]
         [] n = o.name -> IF o.kind \in {"create", "edit"} THEN o.content ELSE None
         [] OTHER -> files[n]]

(* os.replace or unlink: refused by the system on a locked name; a source that is gone
   by now, or any other failure, ends in a second audit line. *)
Replace(t) ==
    LET o == op[t] IN
    /\ o.at = "replace" /\ lock \notin ConflictNames(o)
    /\ o.kind \in {"rename", "delete"} => files[o.name] # None
    /\ files' = After(o) /\ Acknowledge(o) /\ Ends(t)
    /\ active' = IF o.kind = "rename" /\ active = o.name THEN o.new ELSE active
    /\ UNCHANGED <<litter, ops, edits, pinned, run, lock>>

ReplaceFails(t) ==
    /\ op[t].at = "replace" /\ Ends(t)
    /\ UNCHANGED <<files, litter, acked, ops, edits, runVars>>

----------------------------------------------------------------------------
(* Lifecycle operations are alone. *)

LoadConfig(n) ==
    /\ Busy = {} /\ run \in {"none", "failed"} /\ active = None /\ files[n] # None
    /\ pinned' = [name |-> n, content |-> files[n]]
    /\ UNCHANGED <<storeVars, run, lock, active>>

(* Faulty: the handle lets others write. *)
SharedLock == lock' = None
ActivityLock == lock' = pinned.name

(* start(): the lock first, the hash afterwards. *)
StartLocks ==
    /\ Busy = {} /\ run \in {"none", "failed", "restarting"}
    /\ pinned # None /\ files[pinned.name] # None
    /\ ActivityLock /\ run' = "locked"
    /\ UNCHANGED <<storeVars, pinned, active>>

(* A file that is gone, or open elsewhere, refuses the start before its try statement:
   after the stop of a restart the service stays in 'recovering'. *)
RestartRefused ==
    /\ run = "restarting" /\ run' = "recovering"
    /\ UNCHANGED <<storeVars, pinned, lock, active>>

(* A hash that is not the pinned one fails the start. *)
StartHashes ==
    /\ run = "locked"
    /\ IF files[pinned.name] = pinned.content
       THEN run' = "running" /\ active' = pinned.name /\ UNCHANGED lock
       ELSE run' = "failed" /\ lock' = None /\ UNCHANGED active
    /\ UNCHANGED <<storeVars, pinned>>

(* The lock is released and taken again by the start that follows. *)
Restart ==
    /\ Busy = {} /\ run = "running"
    /\ run' = "restarting" /\ lock' = None
    /\ UNCHANGED <<storeVars, pinned, active>>

Stop ==
    /\ Busy = {} /\ run \in {"running", "failed"}
    /\ run' = "none" /\ lock' = None /\ active' = None
    /\ UNCHANGED <<storeVars, pinned>>

(* The service dies: the system closes its handle, staging files stay. *)
Crash ==
    /\ run' = "none" /\ lock' = None /\ active' = None /\ pinned' = None
    /\ op' = [t \in Threads |-> None]
    /\ litter' = litter \cup {op[t].name : t \in {u \in Busy : op[u].at \in {"audit", "replace"}
                                                       /\ op[u].kind \in {"create", "edit"}}}
    /\ acked' = [n \in Names |-> IF \E t \in Busy : n \in ConflictNames(op[t]) THEN Unsure
                                 ELSE acked[n]]
    /\ Busy # {} \/ run # "none"
    /\ UNCHANGED <<files, ops, edits>>

(* Another program writes or removes a file that is not locked. *)
ExternalWrite(n, c) ==
    /\ edits < MaxEdits /\ edits' = edits + 1
    /\ lock # n /\ files[n] # c /\ files' = [files EXCEPT ![n] = c]
    /\ acked' = [acked EXCEPT ![n] = Unsure]
    /\ op' = [t \in Threads |-> IF t \in Busy /\ n \in ConflictNames(op[t])
                                THEN [op[t] EXCEPT !.touched = TRUE] ELSE op[t]]
    /\ UNCHANGED <<litter, ops, runVars>>

Next ==
    \/ \E t \in Threads :
         \/ \E o \in Requests : Sensible(o) /\ Accept(t, o)
         \/ op[t] # None /\ (Check(t) \/ Stage(t) \/ Audit(t) \/ Replace(t) \/ ReplaceFails(t))
    \/ \E n \in Names \ Builtins : LoadConfig(n)
    \/ StartLocks \/ RestartRefused \/ StartHashes \/ Restart \/ Stop \/ Crash
    \/ \E n \in Names \ Builtins, c \in Contents \cup {None} : ExternalWrite(n, c)

Spec == Init /\ [][Next]_vars

----------------------------------------------------------------------------
(* Audit first: the store changes a file only after a line was written that says so, with
   the hashes before and after as they are, unless somebody else wrote meanwhile; and no
   custom file takes the name of a builtin one, whether it is created there or renamed. *)
AuditedChange(t) ==
    LET o == op[t] IN
    /\ o # None /\ o.logged = "ok" /\ files' = After(o)
    /\ o.touched \/ files[o.name] = o.before
    /\ \A n \in Builtins : files'[n] = None
AuditFirst ==
    [][files' # files => edits' # edits \/ \E t \in Threads : AuditedChange(t)]_vars

(* A run uses the configuration that load_config pinned and validated, byte for byte, for
   as long as it lasts, whoever writes to the directory before, during or after start(),
   and between the two halves of a restart. *)
RunUsesPinned == run = "running" => files[pinned.name] = pinned.content /\ active = pinned.name

(* What an operation reported as done is what is there, until the next operation on that
   name or a write from outside: operations that run side by side do not undo each other. *)
AcknowledgedIsThere ==
    \A n \in Names :
      acked[n] # Unsure /\ (\A t \in Busy : n \notin ConflictNames(op[t])) => files[n] = acked[n]
=============================================================================
